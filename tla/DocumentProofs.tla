--------------------------- MODULE DocumentProofs ---------------------------
(***************************************************************************)
(* A document from its pages to its graph.  What the indexes of the page   *)
(* root name is there and true, for every number of pages, of packages     *)
(* that a page may yield and of commands at once; a run in a root where    *)
(* nothing went wrong is accepted, unless a page failed while its package  *)
(* was made; and the packages of a run that died are adopted when it is    *)
(* started again.  The bundles of a document hold all its pages and tear   *)
(* no sentence, and its graph is that of its pages.                        *)
(***************************************************************************)
EXTENDS TLAPS, FiniteSetTheorems, PageEvidence, Bundles, Structure

-----------------------------------------------------------------------------
(* The inductive invariant. *)

Live(p) == process[p] # Idle

\* The manifests of the runs under way, which name only what is already there.
MadeBy(stage, pages) == \A x \in Ready(pages) : packages[<<stage, x>>] = pages[x]
RunIsTrue(p) ==
  Live(p) =>
    /\ process[p].stage # "check" => MadeBy(process[p].stage, process[p].pages)
    /\ process[p].at # "pages" => \A x \in DOMAIN process[p].pages : process[p].pages[x] \in PackageState
    /\ process[p].stage = "transcribe" /\ process[p].at \in {"manifest", "index", "inventory"} =>
         BundlesOf(process[p].pages) \subseteq bundles
    /\ process[p].at = "index" => ManifestOf(process[p]) \in manifests
    /\ process[p].at = "inventory" => ManifestOf(process[p]) \in indexes

\* A run follows a run that has returned.
RunFollows(p) ==
  Live(p) =>
    /\ process[p].stage = "probe" => process[p].of = None /\ process[p].at # "bundles"
    /\ process[p].stage = "transcribe" =>
         /\ process[p].of \in printed
         /\ \A x \in DOMAIN process[p].pages :
              x \in Ready(process[p].of.pages) \/ process[p].pages[x] = Failed
    /\ process[p].stage = "check" =>
         /\ process[p].of \in printed
         /\ process[p].of.stage = "transcribe"
         /\ process[p].at \in {"manifest", "index"}
         /\ DOMAIN process[p].pages = {} =>
              \A x \in DOMAIN process[p].of.pages :
                /\ process[p].of.pages[x] \in Variant
                /\ packages[<<"transcribe", x>>] = process[p].of.pages[x]

RunsInv == \A p \in Process : RunIsTrue(p) /\ RunFollows(p)

IndexesInv ==
  /\ printed \subseteq indexes
  /\ IndexedIsTrue
  /\ TranscriptionFollowsProbe
  /\ CleanReportIsTrue
  /\ \A m \in indexes :
       /\ m.stage \in Stage \cup {"check"} /\ DOMAIN m.pages \subseteq Page
       /\ m.stage = "check" => m.of \in indexes
       /\ m.stage # "check" => \A x \in DOMAIN m.pages : m.pages[x] \in PackageState

\* Until something goes wrong, everything in the root is named by an index or will be,
\* by the run that has made it.
OwnsPackage(p, k) ==
  Live(p) /\ process[p].stage = k[1] /\ k[2] \in Ready(process[p].pages)
TreesInv ==
  \A s \in Stage :
    /\ (\E x \in Page : packages[<<s, x>>] # None) => trees[s] = "packed"
    /\ trees[s] = "made" => \E p \in Process : Staged(p) /\ process[p].stage = s
UndisturbedInv ==
  mishap = NoMishap =>
    /\ ~litter
    /\ TreesInv
    /\ \A k \in OrphanPackages : \E p \in Process : OwnsPackage(p, k)
    /\ \A b \in bundles \ IndexedBundles : \E p \in Process :
         /\ Live(p) /\ process[p].stage = "transcribe"
         /\ process[p].at \in {"bundles", "manifest", "index"}
         /\ b \in BundlesOf(process[p].pages)
    /\ \A m \in manifests \ indexes : \E p \in Process :
         process[p].at = "index" /\ m = ManifestOf(process[p])

\* When commands do not overlap, a package that no index names is of the one run under
\* way, or of the run that died ...
OneAtATime == \A p, q \in Process : p = q \/ process[p] = Idle \/ process[q] = Idle
Left(k) ==
  /\ mishap.run.stage = k[1] /\ k[2] \in mishap.run.selection
  /\ k[1] = "transcribe" => k[2] \in Ready(mishap.run.of.pages)
OrphansInv ==
  mishap.kind = "crash" =>
    \A k \in OrphanPackages : Left(k) \/ \E p \in Process : OwnsPackage(p, k)
\* ... and a run that repeats it takes up what it has left: it never packs it anew.
TakesUp(p) ==
  Live(p) /\ Repeats(p) =>
    \A x \in DOMAIN process[p].pages :
      <<process[p].stage, x>> \in OrphanPackages => process[p].pages[x] \in PackageState \cup {Todo}
SoleInv == ~concurrent => OneAtATime /\ OrphansInv /\ \A p \in Process : TakesUp(p)

Inv ==
  /\ TypeOK
  /\ RunsInv
  /\ IndexesInv
  /\ UndisturbedInv
  /\ SoleInv

-----------------------------------------------------------------------------
(* What the parts of the model mean. *)

(* A run that moves leaves the others where they are. *)
LEMMA Moves ==
  ASSUME TypeOK, NEW p \in Process, NEW r, Become(p, r)
  PROVE  /\ DOMAIN process' = Process /\ process'[p] = r
         /\ \A q \in Process \ {p} : process'[q] = process[q]
BY DEF TypeOK, Become

(* A run under way has the fields of a run. *)
LEMMA Fields ==
  ASSUME TypeOK, NEW p \in Process
  PROVE  /\ process[p].at = "idle" <=> ~Live(p)
         /\ Live(p) =>
              /\ process[p].at \in {"pages", "bundles", "manifest", "index", "inventory"}
              /\ process[p].stage \in {"probe", "transcribe", "check"}
              /\ process[p].pages \in
                   [DOMAIN process[p].pages -> PackageState \cup StagedState \cup {Todo}]
              /\ DOMAIN process[p].pages \subseteq Page
BY DEF TypeOK, Live, Idle, Stage

LEMMA RunFields ==
  ASSUME NEW at, NEW stage, NEW of, NEW pages, at # "idle"
  PROVE  /\ Command(at, stage, of, pages).at = at
         /\ Command(at, stage, of, pages).stage = stage
         /\ Command(at, stage, of, pages).of = of
         /\ Command(at, stage, of, pages).pages = pages
         /\ Command(at, stage, of, pages) # Idle
BY DEF Command, Idle

(* The states of a page are distinct. *)
LEMMA PageStates ==
  ASSUME ConstantsAssumption
  PROVE  /\ None \notin Variant /\ Failed \notin Variant /\ Todo \notin Variant
         /\ Todo # Failed
         /\ \A v \in Variant : <<v>> \notin Variant /\ <<v>> # Failed /\ <<v>> # Todo
         /\ PackageState = Variant \cup {Failed}
BY DEF ConstantsAssumption, PackageState, StagedState

LEMMA Indexed ==
  \A stage, x : <<stage, x>> \in IndexedPackages <=>
                  \E m \in indexes : m.stage = stage /\ x \in Ready(m.pages)
BY DEF IndexedPackages

(* The directory of its stage goes from none to made or spoilt, and to packed   *)
(* with the first package; it is made by a page that is staged.                 *)
TreeState == {"none", "made", "spoilt", "packed"}
TreeStep(p, x, result) ==
  /\ \/ trees' = trees
     \/ \E t \in TreeState : trees' = [trees EXCEPT ![process[p].stage] = t]
  /\ packages' # packages => trees'[process[p].stage] = "packed"
  /\ trees[process[p].stage] = "packed" => trees'[process[p].stage] = "packed"
  /\ trees'[process[p].stage] = "made" =>
       \/ result \in StagedState
       \/ packages[Path(p, x)] # None
       \/ process[p].pages[x] = Todo /\ trees[process[p].stage] = "made"

(* One page of a run under way comes to another state: its package is adopted or *)
(* installed, staged, or given up.                                               *)
PageStep(p, x, result) ==
  /\ Working(p, x) /\ process[p].pages[x] \notin PackageState
  /\ result \in PackageState \cup StagedState
  /\ End(p, x, result)
  /\ UNCHANGED <<bundles, manifests, indexes, litter, printed, concurrent, runs>>
  /\ result \in Variant => packages'[Path(p, x)] = result
  /\ packages[Path(p, x)] # None /\ process[p].pages[x] = Todo => result \in PackageState
  /\ \/ packages' = packages
     \/ \E v \in Variant : /\ packages[Path(p, x)] = None
                           /\ packages' = [packages EXCEPT ![Path(p, x)] = v]
                           /\ result = v \/ mishap'.kind = "sync"
  /\ mishap' = mishap \/ (mishap = NoMishap /\ mishap' = [kind |-> "sync", run |-> Identity(process[p])])
  /\ TreeStep(p, x, result)

\* Only probe and transcribe have pages to work on.
LEMMA PathIsThere ==
  ASSUME TypeOK, RunsInv, NEW p \in Process, NEW x, Working(p, x)
  PROVE  /\ process[p].stage \in Stage /\ x \in Page /\ Path(p, x) \in Stage \X Page
         /\ Path(p, x) = <<process[p].stage, x>>
         /\ packages[Path(p, x)] \in Variant \cup {None}
         /\ process[p].pages[x] \in PackageState \cup StagedState \cup {Todo}
<1>1. Live(p) /\ process[p].at = "pages"
  BY Fields DEF Working
<1>2. process[p].stage # "check"
  BY <1>1 DEF RunsInv, RunFollows
<1>3. process[p].stage \in Stage /\ x \in Page
  BY <1>1, <1>2, Fields DEF Working, Stage
<1> QED
  BY <1>1, <1>3, Fields DEF Path, Working, TypeOK

(* How the three steps move the directory of a stage. *)
LEMMA TreesMove ==
  ASSUME TypeOK, NEW p \in Process, process[p].stage \in Stage,
         MakeTree(p) \/ SpoilTree(p) \/ FillTree(p)
  PROVE  /\ \E t \in TreeState : trees' = [trees EXCEPT ![process[p].stage] = t]
         /\ FillTree(p) => trees'[process[p].stage] = "packed"
         /\ trees[process[p].stage] = "packed" => trees'[process[p].stage] = "packed"
         /\ trees'[process[p].stage] = "made" => MakeTree(p)
<1>1. trees[process[p].stage] \in TreeState /\ trees \in [Stage -> TreeState]
  BY DEF TypeOK, TreeState
<1> QED
  BY <1>1 DEF MakeTree, SpoilTree, FillTree, TreeState

LEMMA PageSteps ==
  ASSUME ConstantsAssumption, TypeOK, RunsInv, NEW p \in Process, NEW x \in Page,
         \/ ReusePage(p, x) \/ FailPage(p, x)
         \/ \E v \in Variant :
              \/ StageProbe(p, x, v) \/ StageTranscription(p, x, v)
              \/ InstallPackage(p, x, v) \/ SyncFails(p, x, v)
  PROVE  \E result : PageStep(p, x, result)
<1> USE PageStates DEF PageStep, PageIs, files, contents, TreeStep
<1>0. Working(p, x) => process[p].stage \in Stage
  BY PathIsThere
<1>1. CASE ReusePage(p, x)
  <2>1. packages[Path(p, x)] \in Variant
    BY <1>1, PathIsThere DEF ReusePage
  <2> QED
    BY <1>0, <1>1, <2>1 DEF ReusePage, PackageState
<1>2. CASE FailPage(p, x)
  <2>1. process[p].pages[x] \notin PackageState
    BY <1>2 DEF FailPage, StagedState
  <2>2. /\ Working(p, x) /\ End(p, x, Failed) /\ UNCHANGED <<contents, printed, mishap, concurrent, runs>>
        /\ SpoilTree(p) \/ (process[p].pages[x] = Todo /\ UNCHANGED trees)
    BY <1>2 DEF FailPage, Discard
  <2>3. TreeStep(p, x, Failed)
    <3>1. CASE SpoilTree(p)
      <4>1. trees'[process[p].stage] # "made"
        BY <1>0, <2>2, <3>1 DEF SpoilTree, TypeOK
      <4> QED
        BY <1>0, <2>2, <3>1, <4>1, TreesMove
    <3>2. CASE process[p].pages[x] = Todo /\ UNCHANGED trees
      BY <2>2, <3>2
    <3> QED
      BY <2>2, <3>1, <3>2
  <2> QED
    BY <2>1, <2>2, <2>3
<1>3. ASSUME NEW v \in Variant, StageProbe(p, x, v) \/ StageTranscription(p, x, v)
      PROVE  \E result : PageStep(p, x, result)
  <2>1. <<v>> \in StagedState /\ <<v>> \notin Variant
    BY DEF StagedState
  <2>2. packages[Path(p, x)] = None /\ process[p].pages[x] \notin PackageState
    BY <1>3 DEF StageProbe, StageTranscription
  <2>3. /\ Working(p, x) /\ End(p, x, <<v>>) /\ MakeTree(p)
        /\ UNCHANGED <<contents, printed, mishap, concurrent, runs>>
    BY <1>3 DEF StageProbe, StageTranscription
  <2>4. TreeStep(p, x, <<v>>)
    BY <1>0, <2>1, <2>3, TreesMove
  <2> QED
    BY <2>1, <2>2, <2>3, <2>4
<1>4. ASSUME NEW v \in Variant, InstallPackage(p, x, v)
      PROVE  \E result : PageStep(p, x, result)
  <2>1. /\ Working(p, x) /\ process[p].pages[x] = <<v>>
        /\ process[p].pages[x] \notin PackageState /\ process[p].pages[x] # Todo
    BY <1>4 DEF InstallPackage, IsStaged
  <2>2. CASE packages[Path(p, x)] = None
    <3>1. packages' = [packages EXCEPT ![Path(p, x)] = v] /\ End(p, x, v)
      BY <1>4, <2>2 DEF InstallPackage
    <3>2. packages'[Path(p, x)] = v
      BY <2>1, <3>1, PathIsThere DEF TypeOK
    <3>3. TreeStep(p, x, v)
      <4>1. FillTree(p)
        BY <1>4, <2>2 DEF InstallPackage
      <4> QED
        BY <1>0, <2>1, <4>1, TreesMove
    <3> QED
      BY <1>4, <2>1, <2>2, <3>1, <3>2, <3>3 DEF InstallPackage
  <2>3. CASE packages[Path(p, x)] # None
    <3>1. UNCHANGED <<packages, trees>>
      BY <1>4, <2>3 DEF InstallPackage
    <3>2. TreeStep(p, x, v) /\ TreeStep(p, x, Failed)
      BY <2>3, <3>1
    <3> QED
      BY <1>4, <2>1, <2>3, <3>1, <3>2 DEF InstallPackage, Adopted, Discard, PackageState
  <2> QED
    BY <2>2, <2>3
<1>5. ASSUME NEW v \in Variant, SyncFails(p, x, v)
      PROVE  \E result : PageStep(p, x, result)
  <2>1. Working(p, x) /\ process[p].pages[x] \notin PackageState
    BY <1>5 DEF SyncFails, IsStaged
  <2>2. TreeStep(p, x, Failed)
    <3>1. FillTree(p)
      BY <1>5 DEF SyncFails
    <3> QED
      BY <1>0, <2>1, <3>1, TreesMove
  <2> QED
    BY <1>5, <2>1, <2>2 DEF SyncFails
<1> QED
  BY <1>1, <1>2, <1>3, <1>4, <1>5

(* What such a step leaves: the run with that page changed. *)
LEMMA PageStepMoves ==
  ASSUME TypeOK, RunsInv, NEW p \in Process, NEW x, NEW result, PageStep(p, x, result)
  PROVE  /\ Live(p) /\ process[p].at = "pages" /\ process'[p] # Idle /\ process'[p].at = "pages"
         /\ process'[p].stage = process[p].stage /\ process'[p].of = process[p].of
         /\ DOMAIN process'[p].pages = DOMAIN process[p].pages
         /\ process'[p].pages[x] = result
         /\ \A y \in DOMAIN process[p].pages \ {x} : process'[p].pages[y] = process[p].pages[y]
         /\ process'[p].pages \in
              [DOMAIN process[p].pages -> PackageState \cup StagedState \cup {Todo}]
         /\ DOMAIN process' = Process
         /\ \A q \in Process \ {p} : process'[q] = process[q]
<1>1. Live(p) /\ process[p].at = "pages" /\ x \in DOMAIN process[p].pages
  BY Fields DEF PageStep, Working
<1> DEFINE r == Command("pages", process[p].stage, process[p].of, [process[p].pages EXCEPT ![x] = result])
<1>2. Become(p, r)
  BY DEF PageStep, End
<1>3. process'[p] = r /\ DOMAIN process' = Process /\ \A q \in Process \ {p} : process'[q] = process[q]
  BY <1>2, Moves
<1>4. r.at = "pages" /\ r.stage = process[p].stage /\ r.of = process[p].of /\ r # Idle
      /\ r.pages = [process[p].pages EXCEPT ![x] = result]
  BY RunFields
<1>5. result \in PackageState \cup StagedState \cup {Todo}
  BY DEF PageStep
<1> QED
  BY <1>1, <1>3, <1>4, <1>5, Fields

(* A run goes on from one place to the next. *)
LEMMA AdvanceMoves ==
  ASSUME TypeOK, NEW p \in Process, Live(p), NEW at, Advance(p, at),
         at \in {"bundles", "manifest", "index", "inventory"}
  PROVE  /\ process'[p] # Idle /\ process'[p].at = at
         /\ process'[p].stage = process[p].stage /\ process'[p].of = process[p].of
         /\ process'[p].pages = process[p].pages
         /\ ManifestOf(process'[p]) = ManifestOf(process[p])
         /\ DOMAIN process' = Process
         /\ \A q \in Process \ {p} : process'[q] = process[q]
<1> DEFINE r == Command(at, process[p].stage, process[p].of, process[p].pages)
<1>1. process'[p] = r /\ DOMAIN process' = Process /\ \A q \in Process \ {p} : process'[q] = process[q]
  BY Moves DEF Advance
<1>2. r.at = at /\ r.stage = process[p].stage /\ r.of = process[p].of /\ r # Idle
      /\ r.pages = process[p].pages
  BY RunFields
<1> QED
  BY <1>1, <1>2 DEF ManifestOf

\* The steps of a run beside those of its pages: where they lead.
Advances(p) == \/ PagesEnd(p) \/ BundlesEnd(p) \/ InstallManifest(p) \/ InstallIndex(p)
Ends(p) == InstallReport(p) \/ CheckInventory(p) \/ Crash(p)

LEMMA AdvancesMove ==
  ASSUME TypeOK, NEW p \in Process, Advances(p)
  PROVE  /\ Live(p) /\ process'[p] # Idle
         /\ process'[p].at \in {"bundles", "manifest", "index", "inventory"}
         /\ process'[p].stage = process[p].stage /\ process'[p].of = process[p].of
         /\ process'[p].pages = process[p].pages
         /\ ManifestOf(process'[p]) = ManifestOf(process[p])
         /\ DOMAIN process' = Process
         /\ \A q \in Process \ {p} : process'[q] = process[q]
<1>1. Live(p)
  BY Fields DEF Advances, PagesEnd, BundlesEnd, InstallManifest, InstallIndex
<1>2. \E at \in {"bundles", "manifest", "index", "inventory"} : Advance(p, at)
  BY DEF Advances, PagesEnd, BundlesEnd, InstallManifest, InstallIndex
<1> QED
  BY <1>1, <1>2, AdvanceMoves

LEMMA EndsMove ==
  ASSUME TypeOK, NEW p \in Process, Ends(p)
  PROVE  /\ Live(p) /\ process'[p] = Idle /\ DOMAIN process' = Process
         /\ \A q \in Process \ {p} : process'[q] = process[q]
<1>1. Live(p)
  BY Fields DEF Ends, InstallReport, CheckInventory, Crash, Live
<1>2. Become(p, Idle)
  BY DEF Ends, InstallReport, CheckInventory, Crash
<1> QED
  BY <1>1, <1>2, Moves

(* A run that begins: what it is about, and what its pages are. *)
Begins(p) ==
  \/ \E selection \in (SUBSET Page) \ {{}} : StartProbe(p, selection)
  \/ \E m \in printed : StartTranscribe(p, m) \/ StartCheck(p, m)

LEMMA BeginsMove ==
  ASSUME ConstantsAssumption, TypeOK, IndexesInv, NEW p \in Process, Begins(p)
  PROVE  /\ process[p] = Idle /\ process'[p] # Idle
         /\ process'[p].at \in {"pages", "manifest"}
         /\ process'[p].stage \in {"probe", "transcribe", "check"}
         /\ process'[p].at = "pages" <=> process'[p].stage # "check"
         /\ process'[p].pages \in [DOMAIN process'[p].pages -> {Todo, Failed}]
         /\ DOMAIN process' = Process
         /\ \A q \in Process \ {p} : process'[q] = process[q]
         /\ UNCHANGED <<packages, bundles, manifests, indexes, trees, litter, printed, mishap>>
         /\ concurrent' = (concurrent \/ ~Alone(p))
         /\ runs' \in 0..MaxRuns
         /\ process'[p].stage = "probe" =>
              process'[p].of = None /\ \A x \in DOMAIN process'[p].pages : process'[p].pages[x] = Todo
         /\ process'[p].stage = "transcribe" =>
              /\ process'[p].of \in printed
              /\ DOMAIN process'[p].pages = DOMAIN process'[p].of.pages
              /\ \A x \in DOMAIN process'[p].pages :
                   process'[p].pages[x] = IF x \in Ready(process'[p].of.pages) THEN Todo ELSE Failed
         /\ process'[p].stage = "check" =>
              /\ process'[p].of \in printed /\ process'[p].of.stage = "transcribe"
              /\ process'[p].pages = [x \in Blockers(process'[p].of) |-> Failed]
<1> USE DEF Start, files, contents
<1>0. runs' \in 0..MaxRuns
  <2>1. runs < MaxRuns /\ runs' = runs + 1
    BY DEF Begins, StartProbe, StartTranscribe, StartCheck
  <2> QED
    BY <2>1 DEF TypeOK, ConstantsAssumption
<1>1. ASSUME NEW selection \in SUBSET Page, StartProbe(p, selection)
      PROVE  /\ process'[p] = Command("pages", "probe", None, [x \in selection |-> Todo])
             /\ DOMAIN process' = Process /\ \A q \in Process \ {p} : process'[q] = process[q]
  BY <1>1, Moves DEF StartProbe
<1>2. ASSUME NEW m \in printed, StartTranscribe(p, m)
      PROVE  /\ process'[p] = Command("pages", "transcribe", m,
                  [x \in DOMAIN m.pages |-> IF x \in Ready(m.pages) THEN Todo ELSE Failed])
             /\ DOMAIN process' = Process /\ \A q \in Process \ {p} : process'[q] = process[q]
  BY <1>2, Moves DEF StartTranscribe
<1>3. ASSUME NEW m \in printed, StartCheck(p, m)
      PROVE  /\ process'[p] = Command("manifest", "check", m, [x \in Blockers(m) |-> Failed])
             /\ DOMAIN process' = Process /\ \A q \in Process \ {p} : process'[q] = process[q]
  BY <1>3, Moves DEF StartCheck
<1>4. CASE \E selection \in (SUBSET Page) \ {{}} : StartProbe(p, selection)
  <2>1. PICK selection \in SUBSET Page : StartProbe(p, selection)
    BY <1>4
  <2> DEFINE pages == [x \in selection |-> Todo]
  <2>2. /\ process'[p] # Idle /\ process'[p].at = "pages" /\ process'[p].stage = "probe"
        /\ process'[p].of = None /\ process'[p].pages = pages
    BY <1>1, <2>1, RunFields
  <2>3. pages \in [DOMAIN pages -> {Todo, Failed}] /\ \A x \in DOMAIN pages : pages[x] = Todo
    OBVIOUS
  <2> HIDE DEF pages
  <2> QED
    BY <1>0, <1>1, <2>1, <2>2, <2>3 DEF StartProbe
<1>5. CASE \E m \in printed : StartTranscribe(p, m)
  <2>1. PICK m \in printed : StartTranscribe(p, m)
    BY <1>5
  <2> DEFINE pages == [x \in DOMAIN m.pages |-> IF x \in Ready(m.pages) THEN Todo ELSE Failed]
  <2>2. /\ process'[p] # Idle /\ process'[p].at = "pages" /\ process'[p].stage = "transcribe"
        /\ process'[p].of = m /\ process'[p].pages = pages
    BY <1>2, <2>1, RunFields
  <2>3. DOMAIN pages = DOMAIN m.pages /\ pages \in [DOMAIN pages -> {Todo, Failed}]
        /\ \A x \in DOMAIN pages : pages[x] = IF x \in Ready(m.pages) THEN Todo ELSE Failed
    OBVIOUS
  <2> HIDE DEF pages
  <2> QED
    BY <1>0, <1>2, <2>1, <2>2, <2>3 DEF StartTranscribe
<1>6. CASE \E m \in printed : StartCheck(p, m)
  <2>1. PICK m \in printed : StartCheck(p, m)
    BY <1>6
  <2> DEFINE pages == [x \in Blockers(m) |-> Failed]
  <2>2. /\ process'[p] # Idle /\ process'[p].at = "manifest" /\ process'[p].stage = "check"
        /\ process'[p].of = m /\ process'[p].pages = pages
    BY <1>3, <2>1, RunFields
  <2>3. pages \in [DOMAIN pages -> {Todo, Failed}]
    OBVIOUS
  <2> QED
    BY <1>0, <1>3, <2>1, <2>2, <2>3 DEF StartCheck
<1> QED
  BY <1>4, <1>5, <1>6 DEF Begins

(* Each step is of one of these kinds. *)
LEMMA StepKinds ==
  ASSUME ConstantsAssumption, TypeOK, RunsInv, Next
  PROVE  \E p \in Process :
           \/ Begins(p) \/ Advances(p) \/ Ends(p) \/ InstallBundle(p)
           \/ \E x, result : PageStep(p, x, result)
<1>1. PICK p \in Process :
         \/ Begins(p) \/ Advances(p) \/ Ends(p) \/ InstallBundle(p)
         \/ \E x \in Page :
              \/ ReusePage(p, x) \/ FailPage(p, x)
              \/ \E v \in Variant :
                   \/ StageProbe(p, x, v) \/ StageTranscription(p, x, v)
                   \/ InstallPackage(p, x, v) \/ SyncFails(p, x, v)
  BY DEF Next, Begins, Advances, Ends
<1> QED
  BY <1>1, PageSteps

(* Files are added and never replaced. *)
Grows ==
  /\ \A k \in Stage \X Page : packages[k] # None => packages'[k] = packages[k]
  /\ bundles \subseteq bundles' /\ manifests \subseteq manifests'
  /\ indexes \subseteq indexes' /\ printed \subseteq printed'

LEMMA FilesGrow ==
  ASSUME ConstantsAssumption, TypeOK, RunsInv, IndexesInv, Next
  PROVE  Grows /\ packages' \in [Stage \X Page -> Variant \cup {None}]
<1>1. PICK p \in Process :
         \/ Begins(p) \/ Advances(p) \/ Ends(p) \/ InstallBundle(p)
         \/ \E x, result : PageStep(p, x, result)
  BY StepKinds
<1> USE DEF Grows, TypeOK
<1>2. CASE Begins(p)
  BY <1>2, BeginsMove
<1>3. CASE Advances(p)
  BY <1>3 DEF Advances, PagesEnd, BundlesEnd, InstallManifest, InstallIndex, files, contents
<1>4. CASE Ends(p) \/ InstallBundle(p)
  BY <1>4 DEF Ends, InstallReport, CheckInventory, Crash, InstallBundle, files, contents
<1>5. ASSUME NEW x, NEW result, PageStep(p, x, result)
      PROVE  Grows /\ packages' \in [Stage \X Page -> Variant \cup {None}]
  <2>1. Path(p, x) \in Stage \X Page
    BY <1>5, PathIsThere DEF PageStep
  <2>2. CASE packages' = packages
    BY <1>5, <2>2 DEF PageStep
  <2>3. ASSUME NEW v \in Variant, packages[Path(p, x)] = None,
               packages' = [packages EXCEPT ![Path(p, x)] = v]
        PROVE  Grows /\ packages' \in [Stage \X Page -> Variant \cup {None}]
    BY <1>5, <2>1, <2>3 DEF PageStep
  <2> QED
    BY <1>5, <2>2, <2>3 DEF PageStep
<1> QED
  BY <1>1, <1>2, <1>3, <1>4, <1>5

-----------------------------------------------------------------------------
(* Every step is of the right type. *)
TypedRun(r) ==
  /\ r.at \in {"pages", "bundles", "manifest", "index", "inventory"}
  /\ r.stage \in Stage \cup {"check"}
  /\ r.pages \in [DOMAIN r.pages -> PackageState \cup StagedState \cup {Todo}]
  /\ DOMAIN r.pages \subseteq Page

LEMMA TreesAreTyped ==
  ASSUME ConstantsAssumption, TypeOK, RunsInv, IndexesInv, Next
  PROVE  trees' \in [Stage -> {"none", "made", "spoilt", "packed"}]
<1>1. PICK p \in Process :
         \/ Begins(p) \/ Advances(p) \/ Ends(p) \/ InstallBundle(p)
         \/ \E x, result : PageStep(p, x, result)
  BY StepKinds
<1>2. \/ UNCHANGED trees
      \/ \E t \in TreeState : trees' = [trees EXCEPT ![process[p].stage] = t]
  <2>1. CASE Begins(p) \/ Advances(p) \/ InstallBundle(p)
    BY <2>1, BeginsMove
       DEF Advances, PagesEnd, BundlesEnd, InstallManifest, InstallIndex, InstallBundle, files
  <2>2. CASE Ends(p) /\ UNCHANGED trees
    BY <2>2
  <2>3. CASE Ends(p) /\ trees' # trees
    <3>1. process[p].at = "pages" /\ MakeTree(p)
      BY <2>3 DEF Ends, InstallReport, CheckInventory, Crash, files
    <3>2. Live(p) /\ process[p].stage # "check"
      BY <3>1, Fields DEF RunsInv, RunFollows
    <3> QED
      BY <3>1, <3>2, Fields, TreesMove DEF Stage
  <2>4. ASSUME NEW x, NEW result, PageStep(p, x, result)
        PROVE  \/ UNCHANGED trees
               \/ \E t \in TreeState : trees' = [trees EXCEPT ![process[p].stage] = t]
    BY <2>4 DEF PageStep, TreeStep
  <2> QED
    BY <1>1, <2>1, <2>2, <2>3, <2>4
<1> QED
  BY <1>2 DEF TypeOK, TreeState

LEMMA TypeInvariant ==
  ASSUME ConstantsAssumption, TypeOK, RunsInv, IndexesInv, Next
  PROVE  TypeOK'
<1>1. PICK p \in Process :
         \/ Begins(p) \/ Advances(p) \/ Ends(p) \/ InstallBundle(p)
         \/ \E x, result : PageStep(p, x, result)
  BY StepKinds
<1>2. \A q \in Process : Live(q) => TypedRun(process[q])
  BY DEF TypeOK, TypedRun, Live
<1>3. SUFFICES ASSUME TRUE
               PROVE  /\ DOMAIN process' = Process
                      /\ \A q \in Process : process'[q] # Idle => TypedRun(process'[q])
                      /\ litter' \in BOOLEAN /\ concurrent' \in BOOLEAN
                      /\ runs' \in 0..MaxRuns
  BY FilesGrow, TreesAreTyped DEF TypeOK, TypedRun
<1>4. CASE Begins(p)
  <2>1. TypedRun(process'[p])
    <3>1. process'[p].stage = "probe" => DOMAIN process'[p].pages \subseteq Page
      <4>1. ASSUME NEW selection \in SUBSET Page, StartProbe(p, selection)
            PROVE  DOMAIN process'[p].pages \subseteq Page
        <5>1. process'[p] = Command("pages", "probe", None, [x \in selection |-> Todo])
          BY <4>1, Moves DEF StartProbe, Start
        <5> QED
          BY <5>1, RunFields
      <4>2. ASSUME NEW m \in printed, StartTranscribe(p, m) \/ StartCheck(p, m)
            PROVE  process'[p].stage # "probe"
        <5>1. CASE StartTranscribe(p, m)
          BY <5>1, Moves, RunFields DEF StartTranscribe, Start
        <5>2. CASE StartCheck(p, m)
          BY <5>2, Moves, RunFields DEF StartCheck, Start
        <5> QED
          BY <4>2, <5>1, <5>2
      <4> QED
        BY <1>4, <4>1, <4>2 DEF Begins
    <3>2. process'[p].stage # "probe" => DOMAIN process'[p].pages \subseteq DOMAIN process'[p].of.pages
      BY <1>4, BeginsMove DEF Blockers, Ready
    <3>3. process'[p].stage # "probe" => process'[p].of \in indexes
      BY <1>4, BeginsMove DEF IndexesInv
    <3>4. DOMAIN process'[p].pages \subseteq Page
      BY <3>1, <3>2, <3>3 DEF IndexesInv
    <3>5. process'[p].pages \in [DOMAIN process'[p].pages -> PackageState \cup StagedState \cup {Todo}]
      <4>1. {Todo, Failed} \subseteq PackageState \cup StagedState \cup {Todo}
        BY DEF PackageState
      <4>2. process'[p].pages \in [DOMAIN process'[p].pages -> {Todo, Failed}]
        BY <1>4, BeginsMove
      <4> QED
        BY <4>1, <4>2
    <3> QED
      BY <1>4, <3>4, <3>5, BeginsMove DEF TypedRun, Stage
  <2>2. DOMAIN process' = Process /\ \A q \in Process \ {p} : process'[q] = process[q]
    BY <1>4, BeginsMove
  <2>3. litter' \in BOOLEAN /\ concurrent' \in BOOLEAN /\ runs' \in 0..MaxRuns
    BY <1>4, BeginsMove DEF TypeOK
  <2> QED
    BY <1>2, <2>1, <2>2, <2>3 DEF Live
<1>5. CASE Advances(p)
  <2>1. TypedRun(process'[p])
    BY <1>2, <1>5, AdvancesMove DEF TypedRun
  <2>2. UNCHANGED <<litter, concurrent, runs>>
    BY <1>5 DEF Advances, PagesEnd, BundlesEnd, InstallManifest, InstallIndex, files, contents
  <2> QED
    BY <1>2, <1>5, <2>1, <2>2, AdvancesMove DEF TypeOK, Live
<1>6. CASE Ends(p)
  <2>1. litter' \in BOOLEAN /\ UNCHANGED <<concurrent, runs>>
    BY <1>6 DEF Ends, InstallReport, CheckInventory, Crash, files, contents, TypeOK
  <2> QED
    BY <1>2, <1>6, <2>1, EndsMove DEF TypeOK, Live
<1>7. CASE InstallBundle(p)
  BY <1>2, <1>7 DEF InstallBundle, TypeOK, Live
<1>8. ASSUME NEW x, NEW result, PageStep(p, x, result)
      PROVE  /\ DOMAIN process' = Process
             /\ \A q \in Process : process'[q] # Idle => TypedRun(process'[q])
             /\ litter' \in BOOLEAN /\ concurrent' \in BOOLEAN
             /\ runs' \in 0..MaxRuns
  <2>1. TypedRun(process'[p])
    BY <1>2, <1>8, PageStepMoves DEF TypedRun
  <2>2. DOMAIN process' = Process /\ \A q \in Process \ {p} : process'[q] = process[q]
    BY <1>8, PageStepMoves
  <2>3. litter' \in BOOLEAN /\ concurrent' \in BOOLEAN /\ runs' \in 0..MaxRuns
    BY <1>8 DEF PageStep, TypeOK
  <2> QED
    BY <1>2, <2>1, <2>2, <2>3 DEF Live
<1> QED
  BY <1>1, <1>4, <1>5, <1>6, <1>7, <1>8

-----------------------------------------------------------------------------
(* The runs under way name what is there, and follow one that has returned. *)

LEMMA PackagesStand ==
  ASSUME ConstantsAssumption, Grows, NEW stage \in Stage, NEW x \in Page,
         packages[<<stage, x>>] \in Variant
  PROVE  packages'[<<stage, x>>] = packages[<<stage, x>>]
BY PageStates DEF Grows

(* What a run names stays there. *)
LEMMA NamedStands ==
  ASSUME ConstantsAssumption, TypeOK, RunsInv, IndexesInv, Grows, NEW q \in Process, Live(q)
  PROVE  /\ process[q].stage # "check" =>
              \A x \in Ready(process[q].pages) :
                packages'[<<process[q].stage, x>>] = process[q].pages[x]
         /\ process[q].stage = "check" /\ DOMAIN process[q].pages = {} =>
              \A x \in DOMAIN process[q].of.pages :
                packages'[<<"transcribe", x>>] = process[q].of.pages[x]
         /\ process[q].of \in printed => process[q].of \in printed'
<1>1. process[q].stage # "check" =>
        \A x \in Ready(process[q].pages) :
          packages'[<<process[q].stage, x>>] = process[q].pages[x]
  <2> SUFFICES ASSUME process[q].stage # "check", NEW x \in Ready(process[q].pages)
               PROVE  packages'[<<process[q].stage, x>>] = process[q].pages[x]
    OBVIOUS
  <2>1. process[q].stage \in Stage /\ DOMAIN process[q].pages \subseteq Page
    BY Fields DEF Stage
  <2>2. packages[<<process[q].stage, x>>] = process[q].pages[x]
    BY DEF RunsInv, RunIsTrue, MadeBy
  <2>3. process[q].pages[x] \in Variant /\ x \in Page
    BY <2>1 DEF Ready
  <2> QED
    BY <2>1, <2>2, <2>3, PackagesStand
<1>2. process[q].stage = "check" /\ DOMAIN process[q].pages = {} =>
        \A x \in DOMAIN process[q].of.pages :
          packages'[<<"transcribe", x>>] = process[q].of.pages[x]
  <2> SUFFICES ASSUME process[q].stage = "check", DOMAIN process[q].pages = {},
                      NEW x \in DOMAIN process[q].of.pages
               PROVE  packages'[<<"transcribe", x>>] = process[q].of.pages[x]
    OBVIOUS
  <2>1. process[q].of \in printed /\ process[q].of.pages[x] \in Variant
        /\ packages[<<"transcribe", x>>] = process[q].of.pages[x]
    BY DEF RunsInv, RunFollows
  <2>2. x \in Page
    BY <2>1 DEF IndexesInv
  <2> QED
    BY <2>1, <2>2, PackagesStand DEF Stage
<1> QED
  BY <1>1, <1>2 DEF Grows

LEMMA OthersStand ==
  ASSUME ConstantsAssumption, TypeOK, RunsInv, IndexesInv, Grows, NEW q \in Process, process'[q] = process[q]
  PROVE  RunIsTrue(q)' /\ RunFollows(q)'
<1>1. CASE ~Live(q)
  BY <1>1 DEF RunIsTrue, RunFollows, Live
<1>2. CASE Live(q)
  <2>1. RunIsTrue(q) /\ RunFollows(q)
    BY DEF RunsInv
  <2>2. RunIsTrue(q)'
    BY <1>2, <2>1, NamedStands DEF RunIsTrue, Live, MadeBy, Grows
  <2>3. RunFollows(q)'
    BY <1>2, <2>1, NamedStands DEF RunFollows, Live
  <2> QED
    BY <2>2, <2>3
<1> QED
  BY <1>1, <1>2

LEMMA RunsInvariant ==
  ASSUME ConstantsAssumption, TypeOK, RunsInv, IndexesInv, Next
  PROVE  RunsInv'
<1>1. PICK p \in Process :
         \/ Begins(p) \/ Advances(p) \/ Ends(p) \/ InstallBundle(p)
         \/ \E x, result : PageStep(p, x, result)
  BY StepKinds
<1>2. Grows
  BY FilesGrow
<1>3. SUFFICES ASSUME TRUE
               PROVE  RunIsTrue(p)' /\ RunFollows(p)'
                      /\ \A q \in Process \ {p} : process'[q] = process[q]
  BY <1>2, OthersStand DEF RunsInv
<1>4. CASE Begins(p)
  <2>1. RunFollows(p)'
    <3>1. process'[p].stage = "check" /\ DOMAIN process'[p].pages = {} =>
            \A x \in DOMAIN process'[p].of.pages :
              /\ process'[p].of.pages[x] \in Variant
              /\ packages'[<<"transcribe", x>>] = process'[p].of.pages[x]
      <4> SUFFICES ASSUME process'[p].stage = "check", DOMAIN process'[p].pages = {},
                          NEW x \in DOMAIN process'[p].of.pages
                   PROVE  /\ process'[p].of.pages[x] \in Variant
                          /\ packages'[<<"transcribe", x>>] = process'[p].of.pages[x]
        OBVIOUS
      <4>1. PICK m : m = process'[p].of
        OBVIOUS
      <4>2. m \in printed /\ m.stage = "transcribe" /\ Blockers(m) = {}
        <5>1. /\ process'[p].of \in printed /\ process'[p].of.stage = "transcribe"
              /\ process'[p].pages = [y \in Blockers(process'[p].of) |-> Failed]
          BY <1>4, BeginsMove
        <5>2. DOMAIN process'[p].pages = Blockers(process'[p].of)
          BY <5>1
        <5> QED
          BY <5>1, <5>2, <4>1
      <4>3. m.pages[x] \in PackageState /\ m.pages[x] # Failed
        BY <4>1, <4>2 DEF IndexesInv, Blockers
      <4>4. m.pages[x] \in Variant
        BY <4>3, PageStates
      <4>5. packages[<<"transcribe", x>>] = m.pages[x]
        BY <4>1, <4>2, <4>4 DEF Blockers, Ready
      <4> QED
        BY <1>4, <4>1, <4>4, <4>5, BeginsMove
    <3>2. process'[p].stage = "transcribe" =>
            \A x \in DOMAIN process'[p].pages :
              x \in Ready(process'[p].of.pages) \/ process'[p].pages[x] = Failed
      BY <1>4, BeginsMove
    <3> QED
      BY <1>4, <3>1, <3>2, BeginsMove DEF RunFollows, Live
  <2>2. RunIsTrue(p)'
    <3>1. \A x \in DOMAIN process'[p].pages : process'[p].pages[x] \notin Variant
      BY <1>4, BeginsMove, PageStates
    <3>2. process'[p].stage = "check" => \A x \in DOMAIN process'[p].pages : process'[p].pages[x] = Failed
      BY <1>4, BeginsMove
    <3> QED
      BY <1>4, <3>1, <3>2, BeginsMove, PageStates DEF RunIsTrue, Live, MadeBy, Ready
  <2> QED
    BY <1>4, <2>1, <2>2, BeginsMove
<1>5. CASE Advances(p)
  <2>1. RunIsTrue(p) /\ RunFollows(p) /\ Live(p)
    BY <1>5, AdvancesMove DEF RunsInv
  <2>2. RunFollows(p)'
    <3>1. process[p].stage # "transcribe" => process'[p].at # "bundles"
      BY <1>5, <2>1, Fields, AdvanceMoves
         DEF Advances, PagesEnd, BundlesEnd, InstallManifest, InstallIndex, RunFollows
    <3>2. process[p].stage = "check" => process'[p].at \in {"manifest", "index"}
      BY <1>5, <2>1, Fields, AdvanceMoves
         DEF Advances, PagesEnd, BundlesEnd, InstallManifest, InstallIndex, RunFollows
    <3> QED
      BY <1>2, <1>5, <2>1, <3>1, <3>2, NamedStands, AdvancesMove DEF RunFollows, Live
  <2>3. \A x \in DOMAIN process[p].pages : process[p].pages[x] \in PackageState
    BY <1>5, <2>1
       DEF Advances, PagesEnd, BundlesEnd, InstallManifest, InstallIndex, RunIsTrue
  <2>4. process[p].stage = "transcribe" /\ process'[p].at \in {"manifest", "index", "inventory"} =>
          BundlesOf(process[p].pages) \subseteq bundles
    BY <1>5, <2>1, Fields, AdvanceMoves
       DEF Advances, PagesEnd, BundlesEnd, InstallManifest, InstallIndex, RunIsTrue, Missing
  <2>5. /\ process'[p].at = "index" => ManifestOf(process[p]) \in manifests'
        /\ process'[p].at = "inventory" => ManifestOf(process[p]) \in indexes'
    BY <1>5, <2>1, Fields, AdvanceMoves
       DEF Advances, PagesEnd, BundlesEnd, InstallManifest, InstallIndex
  <2>6. RunIsTrue(p)'
    <3>1. process[p].stage # "check" =>
            \A x \in Ready(process[p].pages) :
              packages'[<<process[p].stage, x>>] = process[p].pages[x]
      BY <1>2, <2>1, NamedStands
    <3>2. process'[p].stage = process[p].stage /\ process'[p].pages = process[p].pages
          /\ ManifestOf(process'[p]) = ManifestOf(process[p]) /\ bundles \subseteq bundles'
      BY <1>2, <1>5, AdvancesMove DEF Grows
    <3> QED
      BY <2>3, <2>4, <2>5, <3>1, <3>2 DEF RunIsTrue, Live, MadeBy
  <2> QED
    BY <1>5, <2>2, <2>6, AdvancesMove
<1>6. CASE Ends(p)
  BY <1>6, EndsMove DEF RunIsTrue, RunFollows, Live
<1>7. CASE InstallBundle(p)
  BY <1>2, <1>7, OthersStand DEF InstallBundle
<1>8. ASSUME NEW x, NEW result, PageStep(p, x, result)
      PROVE  RunIsTrue(p)' /\ RunFollows(p)'
             /\ \A q \in Process \ {p} : process'[q] = process[q]
  <2>1. /\ RunIsTrue(p) /\ RunFollows(p) /\ Live(p) /\ process[p].at = "pages"
        /\ process[p].stage # "check" /\ Path(p, x) = <<process[p].stage, x>>
        /\ x \in DOMAIN process[p].pages
    BY <1>8, PageStepMoves DEF RunsInv, RunFollows, Path, PageStep, Working
  <2>2. RunIsTrue(p)'
    <3>1. ASSUME NEW y \in DOMAIN process[p].pages, process'[p].pages[y] \in Variant
          PROVE  packages'[<<process[p].stage, y>>] = process'[p].pages[y]
      <4>1. CASE y = x
        BY <1>8, <2>1, <3>1, <4>1, PageStepMoves DEF PageStep
      <4>2. CASE y # x
        BY <1>2, <1>8, <2>1, <3>1, <4>2, PageStepMoves, NamedStands DEF Ready
      <4> QED
        BY <4>1, <4>2
    <3> QED
      BY <1>8, <2>1, <3>1, PageStepMoves DEF RunIsTrue, Live, MadeBy, Ready
  <2>3. RunFollows(p)'
    <3>1. process[p].stage = "transcribe" => x \in Ready(process[p].of.pages)
      BY <1>8, <2>1, PageStates DEF RunFollows, PageStep
    <3> QED
      BY <1>2, <1>8, <2>1, <3>1, PageStepMoves, NamedStands DEF RunFollows, Live
  <2> QED
    BY <1>8, <2>2, <2>3, PageStepMoves
<1> QED
  BY <1>1, <1>4, <1>5, <1>6, <1>7, <1>8

-----------------------------------------------------------------------------
(* What the indexes name is there and true. *)

\* What IndexesInv says of one manifest.
IndexIsTrue(m) ==
  /\ m \in manifests
  /\ m.stage \in Stage \cup {"check"} /\ DOMAIN m.pages \subseteq Page
  /\ m.stage # "check" =>
       /\ MadeBy(m.stage, m.pages)
       /\ \A x \in DOMAIN m.pages : m.pages[x] \in PackageState
  /\ m.stage = "transcribe" => BundlesOf(m.pages) \subseteq bundles
  /\ m.of # None \/ m.stage = "check" => m.of \in indexes
  /\ m.of # None /\ m.stage = "transcribe" => Ready(m.pages) \subseteq Ready(m.of.pages)
  /\ m.stage = "check" /\ DOMAIN m.pages = {} =>
       \A x \in DOMAIN m.of.pages :
         m.of.pages[x] \in Variant /\ packages[<<"transcribe", x>>] = m.of.pages[x]

LEMMA IndexesInvIs == IndexesInv <=> printed \subseteq indexes /\ \A m \in indexes : IndexIsTrue(m)
BY DEF IndexesInv, IndexIsTrue, IndexedIsTrue, TranscriptionFollowsProbe, CleanReportIsTrue, MadeBy

LEMMA IndexStands ==
  ASSUME ConstantsAssumption, IndexesInv, Grows, NEW m \in indexes
  PROVE  IndexIsTrue(m)'
<1>1. IndexIsTrue(m)
  BY IndexesInvIs
<1>2. m.stage # "check" => \A x \in Ready(m.pages) : packages'[<<m.stage, x>>] = m.pages[x]
  <2> SUFFICES ASSUME m.stage # "check", NEW x \in Ready(m.pages)
               PROVE  packages'[<<m.stage, x>>] = m.pages[x]
    OBVIOUS
  <2>1. m.stage \in Stage /\ x \in Page /\ packages[<<m.stage, x>>] \in Variant
        /\ packages[<<m.stage, x>>] = m.pages[x]
    BY <1>1 DEF IndexIsTrue, MadeBy, Ready
  <2> QED
    BY <2>1, PackagesStand
<1>3. m.stage = "check" /\ DOMAIN m.pages = {} =>
        \A x \in DOMAIN m.of.pages : packages'[<<"transcribe", x>>] = m.of.pages[x]
  <2> SUFFICES ASSUME m.stage = "check", DOMAIN m.pages = {}, NEW x \in DOMAIN m.of.pages
               PROVE  packages'[<<"transcribe", x>>] = m.of.pages[x]
    OBVIOUS
  <2>1. m.of \in indexes /\ packages[<<"transcribe", x>>] \in Variant
        /\ packages[<<"transcribe", x>>] = m.of.pages[x]
    BY <1>1 DEF IndexIsTrue
  <2>2. x \in Page
    BY <2>1 DEF IndexesInv
  <2> QED
    BY <2>1, <2>2, PackagesStand DEF Stage
<1> QED
  BY <1>1, <1>2, <1>3 DEF IndexIsTrue, MadeBy, Grows

LEMMA IndexesInvariant ==
  ASSUME ConstantsAssumption, TypeOK, RunsInv, IndexesInv, Next
  PROVE  IndexesInv'
<1>1. PICK p \in Process :
         \/ Begins(p) \/ Advances(p) \/ Ends(p) \/ InstallBundle(p)
         \/ \E x, result : PageStep(p, x, result)
  BY StepKinds
<1>2. Grows
  BY FilesGrow
<1>3. SUFFICES ASSUME TRUE
               PROVE  /\ \A m \in indexes' \ indexes : IndexIsTrue(m)'
                      /\ printed' \subseteq indexes'
  BY <1>2, IndexStands, IndexesInvIs DEF IndexesInv, IndexIsTrue, IndexedIsTrue,
     TranscriptionFollowsProbe, CleanReportIsTrue, MadeBy
<1>4. CASE indexes' = indexes /\ printed' = printed
  BY <1>4 DEF IndexesInv
<1>5. CASE InstallIndex(p) \/ InstallReport(p)
  <2>1. PICK m : m = ManifestOf(process[p])
    OBVIOUS
  <2>2. /\ process[p].at = "index" /\ indexes' = indexes \cup {m} /\ Live(p)
        /\ UNCHANGED <<packages, bundles, manifests, printed>>
    BY <1>5, <2>1, Fields DEF InstallIndex, InstallReport
  <2>3. m.stage = process[p].stage /\ m.of = process[p].of /\ m.pages = process[p].pages
    BY <2>1 DEF ManifestOf
  <2>4. /\ m.stage \in Stage \cup {"check"} /\ DOMAIN m.pages \subseteq Page
        /\ RunIsTrue(p) /\ RunFollows(p)
    BY <2>2, <2>3, Fields DEF RunsInv, Stage
  <2>5. m.of # None \/ m.stage = "check" => m.of \in indexes
    BY <2>2, <2>3, <2>4 DEF RunFollows, IndexesInv, Stage
  <2>6. m.stage = "transcribe" => Ready(m.pages) \subseteq Ready(m.of.pages)
    BY <2>2, <2>3, <2>4, PageStates DEF RunFollows, Ready
  <2>7. m \in manifests
    BY <2>1, <2>2, <2>4 DEF RunIsTrue
  <2>8. m.stage # "check" => MadeBy(m.stage, m.pages) /\ \A x \in DOMAIN m.pages : m.pages[x] \in PackageState
    BY <2>2, <2>3, <2>4 DEF RunIsTrue
  <2>9. m.stage = "transcribe" => BundlesOf(m.pages) \subseteq bundles
    BY <2>2, <2>3, <2>4 DEF RunIsTrue
  <2>10. m.stage = "check" /\ DOMAIN m.pages = {} =>
          \A x \in DOMAIN m.of.pages :
            m.of.pages[x] \in Variant /\ packages[<<"transcribe", x>>] = m.of.pages[x]
    BY <2>2, <2>3, <2>4 DEF RunFollows
  <2>11. IndexIsTrue(m)'
    BY <2>2, <2>4, <2>5, <2>6, <2>7, <2>8, <2>9, <2>10 DEF IndexIsTrue, MadeBy
  <2> QED
    BY <2>2, <2>11 DEF IndexesInv
<1>6. CASE CheckInventory(p)
  <2>1. ManifestOf(process[p]) \in indexes
    BY <1>6, Fields DEF CheckInventory, RunsInv, RunIsTrue
  <2> QED
    BY <1>6, <2>1 DEF CheckInventory, files, contents, IndexesInv
<1> QED
  BY <1>1, <1>4, <1>5, <1>6, BeginsMove
     DEF Advances, PagesEnd, BundlesEnd, InstallManifest, Ends, Crash, InstallBundle, PageStep, files, contents

-----------------------------------------------------------------------------
(* Packages that no index names, and whose they are. *)

LEMMA OrphanIs ==
  ASSUME NEW k
  PROVE  k \in OrphanPackages <=>
           /\ k \in Stage \X Page /\ packages[k] # None
           /\ ~ \E m \in indexes : m.stage = k[1] /\ k[2] \in Ready(m.pages)
<1>1. k \in Stage \X Page => k = <<k[1], k[2]>>
  OBVIOUS
<1> QED
  BY <1>1, Indexed DEF OrphanPackages

(* A step of one run leaves the others where they are, and only an idle command  *)
(* begins a run.                                                                *)
LEMMA OthersStay ==
  ASSUME ConstantsAssumption, TypeOK, RunsInv, IndexesInv, NEW p \in Process,
         \/ Begins(p) \/ Advances(p) \/ Ends(p) \/ InstallBundle(p)
         \/ \E x, result : PageStep(p, x, result),
         NEW q \in Process, q # p
  PROVE  process'[q] = process[q]
<1>1. CASE Begins(p)
  BY <1>1, BeginsMove
<1>2. CASE Advances(p)
  BY <1>2, AdvancesMove
<1>3. CASE Ends(p)
  BY <1>3, EndsMove
<1>4. ASSUME NEW x, NEW result, PageStep(p, x, result) PROVE process'[q] = process[q]
  BY <1>4, PageStepMoves
<1>5. CASE InstallBundle(p)
  BY <1>5 DEF InstallBundle
<1> QED
  BY <1>1, <1>2, <1>3, <1>4, <1>5

LEMMA OnlyIdleBegins ==
  ASSUME ConstantsAssumption, TypeOK, IndexesInv, NEW p \in Process, Live(p)
  PROVE  ~Begins(p)
BY BeginsMove DEF Live

(* No run but one that dies lets go of a package before an index names it. *)
LEMMA OwnersStand ==
  ASSUME ConstantsAssumption, TypeOK, RunsInv, IndexesInv, Grows, NEW p \in Process, ~Crash(p),
         \/ Begins(p) \/ Advances(p) \/ Ends(p) \/ InstallBundle(p)
         \/ \E x, result : PageStep(p, x, result),
         NEW q \in Process, NEW k \in Stage \X Page, OwnsPackage(q, k)
  PROVE  \/ OwnsPackage(q, k)'
         \/ \E m \in indexes : m.stage = k[1] /\ k[2] \in Ready(m.pages)
<1>1. Live(q) /\ process[q].stage = k[1] /\ k[2] \in Ready(process[q].pages)
      /\ process[q].stage # "check"
  BY DEF OwnsPackage, Stage
<1>2. CASE process'[q] = process[q]
  BY <1>1, <1>2 DEF OwnsPackage, Live
<1>3. CASE q = p /\ Begins(p)
  BY <1>1, <1>3, BeginsMove DEF Live
<1>4. CASE q = p /\ Advances(p)
  BY <1>1, <1>4, AdvancesMove DEF OwnsPackage, Live
<1>5. CASE q = p /\ Ends(p)
  <2>1. CheckInventory(p)
    BY <1>1, <1>5 DEF Ends, InstallReport
  <2>2. ManifestOf(process[q]) \in indexes
    BY <1>1, <1>5, <2>1 DEF CheckInventory, RunsInv, RunIsTrue
  <2> QED
    BY <1>1, <2>2 DEF ManifestOf
<1>6. ASSUME q = p, NEW x, NEW result, PageStep(p, x, result) PROVE OwnsPackage(q, k)'
  <2>1. process[p].pages[x] \notin Variant
    BY <1>6 DEF PageStep, PackageState
  <2> QED
    BY <1>1, <1>6, <2>1, PageStepMoves DEF OwnsPackage, Live, Ready
<1>7. CASE InstallBundle(p)
  BY <1>2, <1>7 DEF InstallBundle
<1>8. CASE q # p
  <2>1. process'[q] = process[q]
    BY <1>8, OthersStay
  <2> QED
    BY <1>2, <2>1
<1> QED
  BY <1>3, <1>4, <1>5, <1>6, <1>7, <1>8

(* A new package is the page of the run that has made it. *)
LEMMA NewPackageIsOwned ==
  ASSUME TypeOK, RunsInv, NEW p \in Process, NEW x, NEW result, PageStep(p, x, result),
         mishap'.kind # "sync", NEW k \in Stage \X Page, packages'[k] # packages[k]
  PROVE  OwnsPackage(p, k)' /\ k = Path(p, x)
<1>1. PICK v \in Variant : /\ packages[Path(p, x)] = None
                           /\ packages' = [packages EXCEPT ![Path(p, x)] = v]
                           /\ result = v
  BY DEF PageStep
<1>2. k = Path(p, x)
  BY <1>1 DEF TypeOK
<1>3. k[1] = process[p].stage /\ k[2] = x
  BY <1>2 DEF Path
<1>4. x \in DOMAIN process[p].pages
  BY DEF PageStep, Working
<1> QED
  BY <1>1, <1>2, <1>3, <1>4, PageStepMoves DEF OwnsPackage, Live, Ready

(* So a package that is not indexed was there before, and has the owner it had,  *)
(* or has one now.                                                               *)
LEMMA OrphansAreOwned ==
  ASSUME ConstantsAssumption, TypeOK, RunsInv, IndexesInv, Next, \A p \in Process : ~Crash(p),
         mishap'.kind # "sync", NEW k, k \in OrphanPackages'
  PROVE  \/ \E q \in Process : OwnsPackage(q, k)'
         \/ k \in OrphanPackages /\ \A q \in Process : ~OwnsPackage(q, k)
<1>1. PICK p \in Process :
         \/ Begins(p) \/ Advances(p) \/ Ends(p) \/ InstallBundle(p)
         \/ \E x, result : PageStep(p, x, result)
  BY StepKinds
<1>2. Grows
  BY FilesGrow
<1>3. /\ k \in Stage \X Page /\ packages'[k] # None
      /\ ~ \E m \in indexes' : m.stage = k[1] /\ k[2] \in Ready(m.pages)
  <2>1. k = <<k[1], k[2]>> /\ k \in Stage \X Page /\ packages'[k] # None /\ k \notin IndexedPackages'
    BY DEF OrphanPackages
  <2> QED
    BY <2>1 DEF IndexedPackages
<1>4. CASE packages'[k] # packages[k]
  <2>1. packages' # packages
    BY <1>4
  <2>2. \E x, result : PageStep(p, x, result)
    BY <1>1, <2>1, BeginsMove
       DEF Advances, PagesEnd, BundlesEnd, InstallManifest, InstallIndex, Ends, InstallReport,
           CheckInventory, Crash, InstallBundle, files, contents
  <2> QED
    BY <1>3, <1>4, <2>2, NewPackageIsOwned
<1>5. CASE packages'[k] = packages[k]
  <2>1. k \in OrphanPackages
    BY <1>2, <1>3, <1>5, OrphanIs DEF Grows
  <2> QED
    BY <1>1, <1>2, <1>3, <2>1, OwnersStand DEF Grows
<1> QED
  BY <1>4, <1>5

-----------------------------------------------------------------------------
(* As long as nothing goes wrong, every file is an index's or will be.          *)

LEMMA IndexedGrow ==
  ASSUME Grows
  PROVE  IndexedBundles \subseteq IndexedBundles'
BY DEF Grows, IndexedBundles

OwnsBundle(p, b) ==
  /\ Live(p) /\ process[p].stage = "transcribe"
  /\ process[p].at \in {"bundles", "manifest", "index"}
  /\ b \in BundlesOf(process[p].pages)

(* An empty directory was made for a page that is being packed, unless one      *)
(* failed there.                                                                *)
LEMMA TreesInvariant ==
  ASSUME ConstantsAssumption, TypeOK, RunsInv, IndexesInv, TreesInv, Next,
         \A p \in Process : ~Crash(p)
  PROVE  TreesInv'
<1>1. PICK p \in Process :
         \/ Begins(p) \/ Advances(p) \/ Ends(p) \/ InstallBundle(p)
         \/ \E x, result : PageStep(p, x, result)
  BY StepKinds
<1>2. CASE Begins(p) \/ Advances(p) \/ Ends(p) \/ InstallBundle(p)
  <2>1. UNCHANGED <<packages, trees>>
    BY <1>2, BeginsMove
       DEF Advances, PagesEnd, BundlesEnd, InstallManifest, InstallIndex, Ends, InstallReport,
           CheckInventory, InstallBundle, files, contents
  <2>2. ASSUME NEW q \in Process, Staged(q) PROVE process'[q] = process[q]
    <3>1. process[q].at = "pages" /\ Live(q) /\ Packing(q) # {}
      BY <2>2, Fields DEF Staged
    <3>2. CASE q = p /\ ~InstallBundle(p)
      <4>1. ~Begins(p)
        BY <3>1, <3>2, OnlyIdleBegins
      <4>2. ~PagesEnd(p)
        BY <3>1, <3>2, PageStates DEF PagesEnd, Packing
      <4>3. ~Ends(p) /\ ~BundlesEnd(p) /\ ~InstallManifest(p) /\ ~InstallIndex(p)
        BY <3>1, <3>2 DEF Ends, InstallReport, CheckInventory, BundlesEnd, InstallManifest,
                          InstallIndex
      <4> QED
        BY <1>2, <3>2, <4>1, <4>2, <4>3 DEF Advances
    <3>3. CASE InstallBundle(p)
      BY <3>3 DEF InstallBundle
    <3> QED
      BY <1>2, <3>2, <3>3, OthersStay
  <2>3. \A q \in Process : Staged(q) => Staged(q)' /\ process'[q].stage = process[q].stage
    BY <2>2 DEF Staged, Packing
  <2> QED
    BY <2>1, <2>3 DEF TreesInv
<1>3. ASSUME NEW x, NEW result, PageStep(p, x, result) PROVE TreesInv'
  <2>1. /\ process[p].stage \in Stage /\ x \in Page /\ Path(p, x) = <<process[p].stage, x>>
        /\ TreeStep(p, x, result) /\ x \in DOMAIN process[p].pages
    BY <1>3, PathIsThere DEF PageStep, Working
  <2>2. \A s \in Stage : s # process[p].stage => trees'[s] = trees[s]
    BY <2>1 DEF TreeStep, TypeOK
  <2>3. ASSUME NEW s \in Stage, NEW y \in Page, packages'[<<s, y>>] # None
        PROVE  trees'[s] = "packed"
    <3>1. CASE packages[<<s, y>>] # None
      BY <2>1, <2>2, <3>1 DEF TreesInv, TreeStep
    <3>2. CASE packages[<<s, y>>] = None
      <4>1. packages' # packages
        BY <2>3, <3>2
      <4>2. <<s, y>> = Path(p, x)
        BY <1>3, <2>3, <3>2 DEF PageStep, TypeOK
      <4> QED
        BY <2>1, <4>1, <4>2 DEF TreeStep
    <3> QED
      BY <3>1, <3>2
  <2>4. ASSUME NEW q \in Process \ {p}, Staged(q)
        PROVE  Staged(q)' /\ process'[q].stage = process[q].stage
    BY <1>3, <2>4, PageStepMoves DEF Staged, Packing
  <2>5. ASSUME NEW y \in Packing(p)', y \in DOMAIN process'[p].pages
        PROVE  Staged(p)' /\ process'[p].stage = process[p].stage
    BY <1>3, <2>5, PageStepMoves DEF Staged
  <2>6. ASSUME NEW s \in Stage, trees'[s] = "made"
        PROVE  \E q \in Process : Staged(q)' /\ process'[q].stage = s
    <3>1. CASE s # process[p].stage
      <4>1. PICK q \in Process : Staged(q) /\ process[q].stage = s
        BY <2>2, <2>6, <3>1 DEF TreesInv
      <4> QED
        BY <2>4, <3>1, <4>1
    <3>2. CASE s = process[p].stage /\ result \in StagedState
      <4>1. x \in Packing(p)'
        BY <1>3, <2>1, <3>2, PageStepMoves DEF Packing, StagedState
      <4> QED
        BY <2>5, <3>2, <4>1 DEF Packing
    <3>3. CASE s = process[p].stage /\ packages[Path(p, x)] # None
      BY <2>1, <2>6, <3>3 DEF TreesInv, TreeStep
    <3>4. CASE /\ s = process[p].stage /\ process[p].pages[x] = Todo
               /\ trees[process[p].stage] = "made"
      <4>1. PICK q \in Process : Staged(q) /\ process[q].stage = s
        BY <3>4 DEF TreesInv
      <4>2. CASE q # p
        BY <2>4, <4>1, <4>2
      <4>3. CASE q = p
        <5>1. PICK y \in Packing(p) : TRUE
          BY <4>1, <4>3 DEF Staged
        <5>2. y # x
          BY <3>4, <5>1, PageStates DEF Packing
        <5>3. y \in Packing(p)'
          BY <1>3, <5>1, <5>2, PageStepMoves DEF Packing
        <5> QED
          BY <2>5, <3>4, <5>3 DEF Packing
      <4> QED
        BY <4>2, <4>3
    <3> QED
      BY <2>1, <2>6, <3>1, <3>2, <3>3, <3>4 DEF TreeStep
  <2> QED
    BY <2>3, <2>6 DEF TreesInv
<1> QED
  BY <1>1, <1>2, <1>3

LEMMA UndisturbedInvariant ==
  ASSUME ConstantsAssumption, TypeOK, RunsInv, IndexesInv, UndisturbedInv, Next
  PROVE  UndisturbedInv'
<1> SUFFICES ASSUME mishap' = NoMishap PROVE UndisturbedInv'
  BY DEF UndisturbedInv
<1>1. PICK p \in Process :
         \/ Begins(p) \/ Advances(p) \/ Ends(p) \/ InstallBundle(p)
         \/ \E x, result : PageStep(p, x, result)
  BY StepKinds
<1>2. Grows
  BY FilesGrow
<1>3. mishap'.kind # "sync" /\ \A q \in Process : ~Crash(q)
  BY DEF Crash, NoMishap
<1>4. mishap = NoMishap /\ UNCHANGED litter
  BY <1>1, <1>3, BeginsMove
     DEF Advances, PagesEnd, BundlesEnd, InstallManifest, InstallIndex, Ends, InstallReport,
         CheckInventory, InstallBundle, PageStep, files, contents
<1>5. \A k \in OrphanPackages' : \E q \in Process : OwnsPackage(q, k)'
  BY <1>3, <1>4, OrphansAreOwned DEF UndisturbedInv
<1>6. ASSUME NEW b \in bundles', b \notin IndexedBundles'
      PROVE  \E q \in Process : OwnsBundle(q, b)'
  <2>1. CASE InstallBundle(p)
    <3>1. Live(p) /\ process[p].at = "bundles" /\ process[p].stage = "transcribe" /\ process' = process
      BY <2>1, Fields DEF InstallBundle, RunsInv, RunFollows
    <3>2. CASE b \in bundles
      <4>1. b \notin IndexedBundles
        BY <1>2, <1>6, IndexedGrow
      <4>2. PICK q \in Process : OwnsBundle(q, b)
        BY <1>4, <3>2, <4>1 DEF UndisturbedInv, OwnsBundle
      <4> QED
        BY <3>1, <4>2 DEF OwnsBundle, Live
    <3>3. CASE b \notin bundles
      BY <1>6, <2>1, <3>1, <3>3 DEF InstallBundle, Missing, OwnsBundle, Live
    <3> QED
      BY <3>2, <3>3
  <2>2. CASE ~InstallBundle(p)
    <3>1. b \in bundles
      BY <1>1, <1>6, <2>2, BeginsMove
         DEF Advances, PagesEnd, BundlesEnd, InstallManifest, InstallIndex, Ends, InstallReport,
             CheckInventory, Crash, PageStep, files, contents
    <3>2. b \notin IndexedBundles
      BY <1>2, <1>6, IndexedGrow
    <3>3. PICK q \in Process : OwnsBundle(q, b)
      BY <1>4, <3>1, <3>2 DEF UndisturbedInv, OwnsBundle
    <3>4. CASE process'[q] = process[q]
      BY <3>3, <3>4 DEF OwnsBundle, Live
    <3>5. CASE q = p /\ Advances(p)
      <4>1. CASE InstallIndex(p)
        <5>1. ManifestOf(process[q]) \in indexes'
          BY <3>5, <4>1 DEF InstallIndex
        <5>2. ManifestOf(process[q]).stage = "transcribe"
              /\ ManifestOf(process[q]).pages = process[q].pages
          BY <3>3 DEF ManifestOf, OwnsBundle
        <5>3. b \in IndexedBundles'
          BY <3>3, <5>1, <5>2 DEF IndexedBundles, OwnsBundle
        <5> QED
          BY <1>6, <5>3
      <4>2. CASE PagesEnd(p)
        BY <3>3, <3>5, <4>2 DEF PagesEnd, OwnsBundle
      <4>3. CASE BundlesEnd(p) \/ InstallManifest(p)
        <5>1. process'[p].at \in {"manifest", "index"}
          BY <3>3, <3>5, <4>3, AdvanceMoves DEF BundlesEnd, InstallManifest, OwnsBundle
        <5> QED
          BY <3>3, <3>5, <5>1, AdvancesMove DEF OwnsBundle, Live
      <4> QED
        BY <3>5, <4>1, <4>2, <4>3 DEF Advances
    <3>6. CASE q = p /\ ~Advances(p)
      <4>1. Ends(p) \/ Begins(p) \/ \E x, result : PageStep(p, x, result)
        BY <1>1, <2>2, <3>6
      <4>2. process[p].stage = "transcribe" /\ process[p].at \in {"bundles", "manifest", "index"}
        BY <3>3, <3>6 DEF OwnsBundle
      <4>3. ~Begins(p)
        BY <3>3, <3>6, OnlyIdleBegins DEF OwnsBundle
      <4>4. ~Ends(p)
        BY <1>3, <4>2 DEF Ends, InstallReport, CheckInventory
      <4>5. ASSUME NEW x, NEW result, PageStep(p, x, result) PROVE FALSE
        BY <4>2, <4>5, PageStepMoves
      <4> QED
        BY <4>1, <4>3, <4>4, <4>5
    <3>7. CASE q # p
      <4>1. process'[q] = process[q]
        BY <1>1, <3>7, OthersStay
      <4> QED
        BY <3>4, <4>1
    <3> QED
      BY <3>5, <3>6, <3>7
  <2> QED
    BY <2>1, <2>2
<1>7. ASSUME NEW m \in manifests', m \notin indexes'
      PROVE  \E q \in Process : (process[q].at = "index" /\ m = ManifestOf(process[q]))'
  <2>1. CASE InstallManifest(p)
    <3>1. Live(p) /\ Advance(p, "index") /\ manifests' = manifests \cup {ManifestOf(process[p])}
          /\ process[p].at # "index"
      BY <2>1, Fields DEF InstallManifest
    <3>2. process'[p].at = "index" /\ ManifestOf(process'[p]) = ManifestOf(process[p])
          /\ \A q \in Process \ {p} : process'[q] = process[q]
      BY <3>1, AdvanceMoves
    <3>3. CASE m = ManifestOf(process[p])
      BY <3>2, <3>3
    <3>4. CASE m \in manifests
      <4>1. PICK q \in Process : process[q].at = "index" /\ m = ManifestOf(process[q])
        BY <1>2, <1>4, <1>7, <3>4 DEF UndisturbedInv, Grows
      <4> QED
        BY <3>1, <3>2, <4>1
    <3> QED
      BY <1>7, <3>1, <3>3, <3>4
  <2>2. CASE ~InstallManifest(p)
    <3>1. m \in manifests
      BY <1>1, <1>7, <2>2, BeginsMove
         DEF Advances, PagesEnd, BundlesEnd, InstallIndex, Ends, InstallReport,
             CheckInventory, Crash, InstallBundle, PageStep, files, contents
    <3>2. PICK q \in Process : process[q].at = "index" /\ m = ManifestOf(process[q])
      BY <1>2, <1>4, <1>7, <3>1 DEF UndisturbedInv, Grows
    <3>3. q # p \/ InstallBundle(p)
      <4> SUFFICES ASSUME q = p PROVE InstallBundle(p)
        OBVIOUS
      <4>1. ~Begins(p)
        BY <3>2, Fields, OnlyIdleBegins
      <4>2. ~Advances(p)
        BY <1>7, <2>2, <3>2 DEF Advances, PagesEnd, BundlesEnd, InstallIndex
      <4>3. ~Ends(p)
        BY <1>3, <1>7, <3>2 DEF Ends, InstallReport, CheckInventory
      <4>4. ASSUME NEW x, NEW result, PageStep(p, x, result) PROVE FALSE
        BY <3>2, <4>4, PageStepMoves
      <4> QED
        BY <1>1, <4>1, <4>2, <4>3, <4>4
    <3>4. process'[q] = process[q]
      <4>1. CASE InstallBundle(p)
        BY <4>1 DEF InstallBundle
      <4>2. CASE q # p
        BY <1>1, <4>2, OthersStay
      <4> QED
        BY <3>3, <4>1, <4>2
    <3> QED
      BY <3>2, <3>4
  <2> QED
    BY <2>1, <2>2
<1>8. TreesInv'
  BY <1>3, <1>4, TreesInvariant DEF UndisturbedInv
<1> QED
  BY <1>4, <1>5, <1>6, <1>7, <1>8 DEF UndisturbedInv, OwnsBundle

-----------------------------------------------------------------------------
(* When commands do not overlap, what is not indexed is the living run's or was *)
(* left by the one that died, and the run that repeats it takes it up.          *)

LEMMA SoleInvariant ==
  ASSUME ConstantsAssumption, TypeOK, RunsInv, IndexesInv, UndisturbedInv, SoleInv, Next
  PROVE  SoleInv'
<1> SUFFICES ASSUME ~concurrent' PROVE (OneAtATime /\ OrphansInv /\ \A p \in Process : TakesUp(p))'
  BY DEF SoleInv
<1>1. PICK p \in Process :
         /\ \/ Begins(p) \/ Advances(p) \/ Ends(p) \/ InstallBundle(p)
            \/ \E x, result : PageStep(p, x, result)
         /\ Crash(p) \/ \A q \in Process : ~Crash(q)
  <2>1. CASE \E q \in Process : Crash(q)
    BY <2>1 DEF Ends
  <2>2. CASE \A q \in Process : ~Crash(q)
    BY <2>2, StepKinds
  <2> QED
    BY <2>1, <2>2
<1>2. Grows
  BY FilesGrow
<1>3. ~concurrent /\ (Begins(p) => Alone(p))
  <2>1. CASE Begins(p)
    BY <2>1, BeginsMove
  <2>2. CASE ~Begins(p)
    <3>1. ASSUME NEW x, NEW result, PageStep(p, x, result) PROVE UNCHANGED concurrent
      BY <3>1 DEF PageStep
    <3>2. Advances(p) \/ Ends(p) \/ InstallBundle(p) => UNCHANGED concurrent
      BY DEF Advances, PagesEnd, BundlesEnd, InstallManifest, InstallIndex, Ends, InstallReport,
             CheckInventory, Crash, InstallBundle
    <3> QED
      BY <1>1, <2>2, <3>1, <3>2
  <2> QED
    BY <2>1, <2>2
<1>4. OneAtATime /\ OrphansInv /\ TakesUp(p)
  BY <1>3 DEF SoleInv
<1>5. \A q \in Process \ {p} : process[q] = Idle /\ process'[q] = Idle
  <2>1. \A q \in Process \ {p} : process'[q] = process[q]
    BY <1>1, OthersStay
  <2>2. CASE Begins(p)
    BY <1>3, <2>1, <2>2 DEF Alone
  <2>3. CASE ~Begins(p)
    <3>1. Advances(p) => Live(p)
      BY AdvancesMove
    <3>2. Ends(p) => Live(p)
      BY EndsMove
    <3>3. InstallBundle(p) => Live(p)
      BY Fields DEF InstallBundle
    <3>4. ASSUME NEW x, NEW result, PageStep(p, x, result) PROVE Live(p)
      BY <3>4, PageStepMoves
    <3>5. Live(p)
      BY <1>1, <2>3, <3>1, <3>2, <3>3, <3>4
    <3> QED
      BY <1>4, <2>1, <3>5 DEF OneAtATime, Live
  <2> QED
    BY <2>2, <2>3
<1>6. OneAtATime'
  BY <1>5 DEF OneAtATime
<1>7. ASSUME ~Crash(p), mishap'.kind = "crash" PROVE mishap' = mishap
  <2>1. Begins(p) => mishap' = mishap
    BY BeginsMove
  <2>2. Advances(p) \/ Ends(p) \/ InstallBundle(p) => mishap' = mishap
    BY <1>7 DEF Advances, PagesEnd, BundlesEnd, InstallManifest, InstallIndex, Ends, InstallReport,
                CheckInventory, InstallBundle
  <2>3. ASSUME NEW x, NEW result, PageStep(p, x, result) PROVE mishap' = mishap
    BY <1>7, <2>3 DEF PageStep
  <2> QED
    BY <1>1, <2>1, <2>2, <2>3
<1>8. ASSUME mishap'.kind = "crash", NEW k \in OrphanPackages'
      PROVE  Left(k)' \/ \E q \in Process : OwnsPackage(q, k)'
  <2>1. CASE Crash(p)
    <3>1. mishap = NoMishap /\ UNCHANGED <<packages, indexes>>
          /\ mishap' = [kind |-> "crash", run |-> Identity(process[p])]
      BY <2>1 DEF Crash
    <3>2. k \in OrphanPackages /\ k \in Stage \X Page
      BY <3>1 DEF OrphanPackages, IndexedPackages
    <3>3. PICK q \in Process : OwnsPackage(q, k)
      BY <3>1, <3>2 DEF UndisturbedInv
    <3>4. OwnsPackage(p, k)
      BY <1>5, <3>3 DEF OwnsPackage, Live
    <3>5. /\ mishap'.run.stage = process[p].stage /\ mishap'.run.of = process[p].of
          /\ mishap'.run.selection = DOMAIN process[p].pages
      BY <3>1 DEF Identity
    <3>6. k[2] \in DOMAIN process[p].pages /\ process[p].pages[k[2]] \in Variant
          /\ k[1] = process[p].stage
      BY <3>4 DEF OwnsPackage, Ready
    <3>7. k[1] = "transcribe" => k[2] \in Ready(process[p].of.pages)
      BY <3>4, <3>6, PageStates DEF OwnsPackage, RunsInv, RunFollows
    <3> QED
      BY <3>5, <3>6, <3>7 DEF Left
  <2>2. CASE ~Crash(p)
    <3>1. mishap' = mishap
      BY <1>7, <1>8, <2>2
    <3>2. \/ \E q \in Process : OwnsPackage(q, k)'
          \/ k \in OrphanPackages /\ \A q \in Process : ~OwnsPackage(q, k)
      BY <1>1, <1>8, <2>2, OrphansAreOwned
    <3> QED
      BY <1>4, <1>8, <3>1, <3>2 DEF OrphansInv, Left
  <2> QED
    BY <2>1, <2>2
<1>9. ASSUME process'[p] # Idle, mishap'.kind = "crash", mishap'.run = Identity(process'[p]),
             NEW x \in DOMAIN process'[p].pages, <<process'[p].stage, x>> \in OrphanPackages'
      PROVE  process'[p].pages[x] \in PackageState \cup {Todo}
  <2>0. PICK k : k = <<process'[p].stage, x>>
    OBVIOUS
  <2>1. ~Ends(p)
    BY <1>9, EndsMove
  <2>2. mishap' = mishap
    BY <1>7, <1>9, <2>1 DEF Ends
  <2>3. k \in Stage \X Page /\ packages'[k] # None /\ k[1] = process'[p].stage /\ k[2] = x
    BY <1>9, <2>0 DEF OrphanPackages
  <2>4. packages'[k] = packages[k] => k \in OrphanPackages
    <3>1. ~ \E m \in indexes' : m.stage = process'[p].stage /\ x \in Ready(m.pages)
      BY <1>9 DEF OrphanPackages, IndexedPackages
    <3> QED
      BY <1>2, <2>0, <2>3, <3>1, OrphanIs DEF Grows
  <2>5. mishap.run.stage = process'[p].stage /\ mishap.run.of = process'[p].of
        /\ mishap.run.selection = DOMAIN process'[p].pages
    BY <1>9, <2>2 DEF Identity
  <2>6. CASE Begins(p)
    <3>1. process[p] = Idle /\ packages' = packages
      BY <2>6, BeginsMove
    <3>2. \A q \in Process : ~OwnsPackage(q, k)
      BY <1>5, <3>1 DEF OwnsPackage, Live
    <3>3. Left(k)
      BY <1>4, <1>9, <2>0, <2>2, <2>4, <3>1, <3>2 DEF OrphansInv
    <3>4. k[1] \in {"probe", "transcribe"}
      BY <2>3 DEF Stage
    <3>5. CASE k[1] = "probe"
      BY <2>3, <2>6, <3>5, BeginsMove
    <3>6. CASE k[1] = "transcribe"
      <4>1. x \in Ready(process'[p].of.pages)
        BY <2>3, <2>5, <3>3, <3>6 DEF Left
      <4> QED
        BY <1>9, <2>3, <2>6, <3>6, <4>1, BeginsMove
    <3> QED
      BY <3>4, <3>5, <3>6
  <2>7. ASSUME Live(p), process'[p].stage = process[p].stage, process'[p].of = process[p].of,
               DOMAIN process'[p].pages = DOMAIN process[p].pages, packages'[k] = packages[k]
        PROVE  process[p].pages[x] \in PackageState \cup {Todo}
    <3>1. Repeats(p)
      BY <1>9, <2>2, <2>7 DEF Repeats, Identity
    <3> QED
      BY <1>4, <1>9, <2>0, <2>4, <2>7, <3>1 DEF TakesUp
  <2>8. CASE Advances(p)
    <3>1. packages' = packages
      BY <2>8 DEF Advances, PagesEnd, BundlesEnd, InstallManifest, InstallIndex, files, contents
    <3> QED
      BY <2>7, <2>8, <3>1, AdvancesMove
  <2>9. CASE InstallBundle(p)
    <3>1. packages' = packages /\ process' = process
      BY <2>9 DEF InstallBundle
    <3> QED
      BY <1>9, <2>7, <3>1 DEF Live
  <2>10. ASSUME NEW y, NEW result, PageStep(p, y, result)
         PROVE  process'[p].pages[x] \in PackageState \cup {Todo}
    <3>1. CASE packages'[k] # packages[k]
      <4>1. OwnsPackage(p, k)'
        BY <1>9, <2>2, <2>3, <2>10, <3>1, NewPackageIsOwned
      <4> QED
        BY <2>3, <4>1 DEF OwnsPackage, Ready, PackageState
    <3>2. CASE packages'[k] = packages[k]
      <4>1. process[p].pages[x] \in PackageState \cup {Todo}
        BY <2>7, <2>10, <3>2, PageStepMoves
      <4>2. CASE x # y
        BY <1>9, <2>10, <4>1, <4>2, PageStepMoves
      <4>3. CASE x = y
        <5>1. process[p].pages[x] = Todo
          BY <2>10, <4>1, <4>3 DEF PageStep, PackageState
        <5>2. Path(p, x) = k
          BY <2>0, <2>10, <4>3, PageStepMoves DEF Path
        <5>3. packages[k] # None
          BY <2>3, <3>2
        <5>4. result \in PackageState
          BY <2>10, <4>3, <5>1, <5>2, <5>3 DEF PageStep
        <5> QED
          BY <2>10, <4>3, <5>4, PageStepMoves
      <4> QED
        BY <4>2, <4>3
    <3> QED
      BY <3>1, <3>2
  <2> QED
    BY <1>1, <2>1, <2>6, <2>8, <2>9, <2>10
<1>10. \A q \in Process : TakesUp(q)'
  <2>1. TakesUp(p)'
    BY <1>9 DEF TakesUp, Repeats, Live
  <2> QED
    BY <1>5, <2>1 DEF TakesUp, Live
<1>11. OrphansInv'
  BY <1>8 DEF OrphansInv
<1> QED
  BY <1>6, <1>10, <1>11

-----------------------------------------------------------------------------
(* The invariant holds from the empty root on. *)

LEMMA InitInvariant ==
  ASSUME ConstantsAssumption, Init
  PROVE  Inv
<1> USE DEF Init
<1>1. \A p \in Process : process[p] = Idle
  OBVIOUS
<1>2. TypeOK
  <2>1. runs \in 0..MaxRuns
    BY DEF ConstantsAssumption
  <2> QED
    BY <1>1, <2>1 DEF TypeOK
<1>3. RunsInv
  BY <1>1 DEF RunsInv, RunIsTrue, RunFollows, Live
<1>4. IndexesInv
  BY DEF IndexesInv, IndexedIsTrue, TranscriptionFollowsProbe, CleanReportIsTrue
<1>5. OrphanPackages = {}
  BY DEF OrphanPackages
<1>6. UndisturbedInv
  BY <1>5 DEF UndisturbedInv, TreesInv
<1>7. SoleInv
  BY <1>1, <1>5 DEF SoleInv, OneAtATime, OrphansInv, TakesUp, Live
<1> QED
  BY <1>2, <1>3, <1>4, <1>6, <1>7 DEF Inv

LEMMA NextInvariant ==
  ASSUME ConstantsAssumption, Inv, [Next]_vars
  PROVE  Inv'
<1>1. CASE Next
  BY <1>1, TypeInvariant, RunsInvariant, IndexesInvariant, UndisturbedInvariant, SoleInvariant DEF Inv
<1>2. CASE UNCHANGED vars
  <2> USE <1>2 DEF Inv, vars, root
  <2>1. TypeOK'
    BY DEF TypeOK
  <2>2. RunsInv'
    BY DEF RunsInv, RunIsTrue, RunFollows, Live, MadeBy
  <2>3. IndexesInv'
    BY DEF IndexesInv, IndexedIsTrue, TranscriptionFollowsProbe, CleanReportIsTrue
  <2>4. UndisturbedInv'
    <3>1. TreesInv' <=> TreesInv
      BY DEF TreesInv, Staged, Packing
    <3> QED
      BY <3>1 DEF UndisturbedInv, OrphanPackages, IndexedPackages, IndexedBundles, OwnsPackage, Live
  <2>5. SoleInv'
    BY DEF SoleInv, OneAtATime, OrphansInv, TakesUp, Live, Left, Repeats, OwnsPackage,
           OrphanPackages, IndexedPackages
  <2> QED
    BY <2>1, <2>2, <2>3, <2>4, <2>5
<1> QED
  BY <1>1, <1>2

(* What is installed is named before it is accounted for, and what a run that   *)
(* died has left is its own: the invariant holds in every state of the root.    *)
THEOREM InvariantHolds == ASSUME ConstantsAssumption PROVE Spec => []Inv
<1>1. Init => Inv
  BY InitInvariant
<1>2. Inv /\ [Next]_vars => Inv'
  BY NextInvariant
<1> QED
  BY <1>1, <1>2, PTL DEF Spec

(* A package of the run at its inventory is indexed. *)
LEMMA OwnIsIndexed ==
  ASSUME Inv, NEW p \in Process, AtInventory(p), NEW k \in OrphanPackages
  PROVE  ~OwnsPackage(p, k)
<1>1. Live(p)
  BY Fields DEF Inv, AtInventory
<1>2. ManifestOf(process[p]) \in indexes
  BY <1>1 DEF Inv, RunsInv, RunIsTrue, AtInventory
<1> QED
  BY <1>2, OrphanIs DEF ManifestOf, OwnsPackage

(* Whatever an index names is there and true, whoever races, fails or dies; a   *)
(* page is transcribed from the probe its run names; a report without blockers  *)
(* is right; a run in a root where nothing went wrong is accepted; and the      *)
(* packages of a run that died are adopted when it is started again.            *)
THEOREM EvidenceStaysTrue == ASSUME ConstantsAssumption PROVE Spec => []EvidenceIsTrue
<1>1. ASSUME Inv PROVE EvidenceIsTrue
  <2> USE <1>1
  <2>1. IndexedIsTrue /\ TranscriptionFollowsProbe /\ CleanReportIsTrue
    BY DEF Inv, IndexesInv
  <2>2. ASSUME NEW p \in Process, AtInventory(p), Alone(p), mishap = NoMishap
        PROVE  FilesAccounted /\ \A s \in EmptyTrees : trees[s] = "spoilt"
    <3>1. \A q \in Process \ {p} : process[q].at = "idle" /\ ~Live(q)
      BY <2>2 DEF Alone, Idle, Live
    <3>2. \A q \in Process : ~Staged(q)
      BY <2>2, <3>1 DEF Staged, AtInventory
    <3>3. OrphanPackages = {}
      BY <2>2, <3>1, OwnIsIndexed DEF Inv, UndisturbedInv, OwnsPackage
    <3>4. bundles \subseteq IndexedBundles
      BY <2>2, <3>1 DEF Inv, UndisturbedInv, AtInventory
    <3>5. manifests \subseteq indexes
      BY <2>2, <3>1 DEF Inv, UndisturbedInv, AtInventory
    <3>6. ~litter
      BY <2>2 DEF Inv, UndisturbedInv
    <3>7. \A s \in EmptyTrees : trees[s] = "spoilt"
      BY <2>2, <3>2 DEF Inv, UndisturbedInv, TreesInv, EmptyTrees
    <3> QED
      BY <3>2, <3>3, <3>4, <3>5, <3>6, <3>7 DEF FilesAccounted
  <2>3. ASSUME NEW p \in Process, Live(p), Repeats(p), ~concurrent, NEW k \in OrphanPackages
        PROVE  k[1] = process[p].stage /\ k[2] \in DOMAIN process[p].pages \ Packing(p)
    <3>1. k = <<k[1], k[2]>>
      BY DEF OrphanPackages
    <3>2. k[1] = process[p].stage /\ k[2] \in DOMAIN process[p].pages
      <4>1. CASE Left(k)
        BY <2>3, <4>1 DEF Left, Repeats, Identity
      <4>2. CASE \E q \in Process : OwnsPackage(q, k)
        BY <2>3, <4>2 DEF Inv, SoleInv, OneAtATime, OwnsPackage, Live, Ready
      <4> QED
        BY <2>3, <4>1, <4>2 DEF Inv, SoleInv, OrphansInv, Repeats
    <3>3. process[p].pages[k[2]] \in PackageState \cup {Todo}
      BY <2>3, <3>1, <3>2 DEF Inv, SoleInv, TakesUp
    <3> QED
      BY <3>2, <3>3, PageStates DEF Packing, ConstantsAssumption, StagedState
  <2> QED
    BY <2>1, <2>2, <2>3 DEF EvidenceIsTrue, UndisturbedRunReturns, RerunAdoptsPackages, Live
<1> QED
  BY <1>1, InvariantHolds, PTL

-----------------------------------------------------------------------------
\* The bundles of a document.
Chunks == [from : Nat, to : Nat, bytes : Nat]
Moments == {"between", "cutting", "writing", "built"}

BundlingTypeOK ==
  /\ sheets \in Transcripts
  /\ index \in Nat /\ index >= 1 /\ index <= Len(sheets) + 1
  /\ chunk \in Chunks /\ chunks \in Seq(Chunks)
  /\ written \in Nat /\ records \in Seq(Chunks)
  /\ outcome \in Moments

Legible(c) == \A i \in c.from..c.to : ~Unread(i)
WithinLimits(c) ==
  /\ Size(c) <= MaxPages
  /\ c.from <= c.to => c.bytes > 0
  /\ c.from < c.to => c.bytes <= MaxBytes

ChunksAreLegal ==
  \A k \in 1..Len(chunks) :
    /\ 1 <= chunks[k].from /\ chunks[k].from <= chunks[k].to /\ chunks[k].to < index
    /\ Legible(chunks[k]) /\ WithinLimits(chunks[k])

MeetAtMost(c, d) == c.to < d.to /\ c.to <= d.from /\ (c.to = d.from => Joined(d.from))
ChunksInOrder ==
  \A j, k \in 1..Len(chunks) :
    j < k => /\ MeetAtMost(chunks[j], chunks[k])
             /\ j + 1 < k => chunks[j].to < chunks[k].from

Covered(i) == Unread(i) \/ \E k \in 1..Len(chunks) : i \in chunks[k].from..chunks[k].to
Together(i) == \E k \in 1..Len(chunks) : {i, i + 1} \subseteq chunks[k].from..chunks[k].to

CutSoFar ==
  /\ outcome # "cutting" => \A i \in 1..(index - 1) : /\ Covered(i)
                                                      /\ i + 1 < index /\ Joined(i) => Together(i)
  /\ outcome \in {"writing", "built"} => index = Len(sheets) + 1

ChunkUnderWay ==
  outcome = "cutting" =>
    /\ chunk.to + 1 = index /\ 1 <= chunk.from /\ chunk.from <= index
    /\ Legible(chunk) /\ WithinLimits(chunk)
    /\ chunk.from = index => ~Joined(index - 1)
    /\ \A k \in 1..Len(chunks) :
         /\ chunks[k].to <= chunk.from /\ (chunks[k].to = chunk.from => Joined(chunk.from))
         /\ k < Len(chunks) => chunks[k].to < chunk.from
    /\ \/ chunk.from <= chunk.to /\ \A k \in 1..Len(chunks) : chunks[k].to < chunk.to
       \/ Fits(index)
    /\ \A i \in 1..(chunk.from - 1) : Covered(i)
    /\ \A i \in 1..(index - 1) : i + 1 < index /\ Joined(i) => Together(i) \/ i >= chunk.from

WrittenSoFar ==
  /\ written = Len(records) /\ written <= Len(chunks)
  /\ outcome \in {"between", "cutting"} => written = 0
  /\ outcome = "built" => written = Len(chunks)
  /\ \A k \in 1..written : records[k] = chunks[k]

BundlesInvariant ==
  /\ BundlingTypeOK /\ ChunksAreLegal /\ ChunksInOrder /\ CutSoFar /\ ChunkUnderWay /\ WrittenSoFar

LEMMA PagesOfDocument ==
  ASSUME BundlesAssumption, sheets \in Transcripts
  PROVE  /\ Len(sheets) \in Nat
         /\ \A i \in 1..Len(sheets) :
              /\ sheets[i].number \in Nat /\ sheets[i].bytes \in Nat
              /\ sheets[i].number = (sheets[1].number + i) - 1
              /\ ~Unread(i) => sheets[i].bytes > 0
<1>1. sheets \in Seq(Sheet) /\ OneRange(sheets)
  BY DEF BundlesAssumption
<1>2. Len(sheets) \in Nat /\ DOMAIN sheets = 1..Len(sheets)
  BY <1>1
<1>3. \A i \in 1..Len(sheets) : sheets[i] \in Sheet
  BY <1>1
<1> QED
  BY <1>1, <1>2, <1>3 DEF OneRange, Sheet, Unread

LEMMA LimitsOfBundles ==
  ASSUME BundlesAssumption
  PROVE  MaxPages \in Nat /\ MaxPages >= 1 /\ MaxPages <= 10 /\ MaxBytes \in Nat /\ MaxBytes > 0
BY DEF BundlesAssumption

LEMMA JoinedIsRead ==
  ASSUME NEW i \in Int, Joined(i), sheets \in Seq(Sheet)
  PROVE  /\ i \in 1..Len(sheets) - 1 /\ ~Unread(i) /\ ~Unread(i + 1)
         /\ MaxPages >= 2 /\ sheets[i].bytes + sheets[i + 1].bytes <= MaxBytes
BY DEF Joined, Continues, Unread

LEMMA ChunkBounds ==
  ASSUME chunks \in Seq(Chunks)
  PROVE  \A k \in 1..Len(chunks) :
           chunks[k].from \in Nat /\ chunks[k].to \in Nat /\ chunks[k].bytes \in Nat
<1>1. \A k \in 1..Len(chunks) : chunks[k] \in Chunks
  OBVIOUS
<1> QED
  BY <1>1 DEF Chunks

LEMMA OneChunkMore ==
  ASSUME NEW s \in Seq(Chunks), NEW c \in Chunks
  PROVE  /\ Append(s, c) \in Seq(Chunks) /\ Len(Append(s, c)) = Len(s) + 1
         /\ \A k \in 1..Len(s) : Append(s, c)[k] = s[k]
         /\ Append(s, c)[Len(s) + 1] = c
OBVIOUS

LEMMA SheetsStay ==
  ASSUME sheets' = sheets
  PROVE  /\ \A i : Unread(i)' <=> Unread(i)
         /\ \A i : Joined(i)' <=> Joined(i)
         /\ \A c : Legible(c)' <=> Legible(c)
BY DEF Unread, Joined, Continues, Legible

LEMMA ChunksStay ==
  ASSUME sheets' = sheets, chunks' = chunks
  PROVE  /\ \A i : Covered(i)' <=> Covered(i)
         /\ \A i : Together(i)' <=> Together(i)
         /\ ChunksInOrder => ChunksInOrder'
         /\ \A c, d : MeetAtMost(c, d)' <=> MeetAtMost(c, d)
BY SheetsStay DEF Covered, Together, ChunksInOrder, MeetAtMost

LEMMA LegalChunksStay ==
  ASSUME ChunksAreLegal, BundlingTypeOK, sheets' = sheets, chunks' = chunks,
         index' \in Nat, index' >= index
  PROVE  ChunksAreLegal'
<1>1. \A k \in 1..Len(chunks) : chunks[k].to \in Nat
  BY ChunkBounds DEF BundlingTypeOK
<1> QED
  BY <1>1, SheetsStay DEF ChunksAreLegal, BundlingTypeOK, WithinLimits, Size

LEMMA BundlesInitInvariant == BundlesAssumption /\ BundlesInit => BundlesInvariant
<1> SUFFICES ASSUME BundlesAssumption, BundlesInit PROVE BundlesInvariant
  OBVIOUS
<1>1. Len(sheets) \in Nat
  BY PagesOfDocument DEF BundlesInit
<1>2. BundlingTypeOK
  BY <1>1 DEF BundlesInit, BundlingTypeOK, NoChunk, Chunks, Moments
<1> QED
  BY <1>1, <1>2 DEF BundlesInit, BundlesInvariant, ChunksAreLegal, ChunksInOrder, CutSoFar, ChunkUnderWay, WrittenSoFar

LEMMA SkipFailedKeeps ==
  ASSUME BundlesAssumption, BundlesInvariant, SkipFailed PROVE BundlesInvariant'
<1> USE DEF SkipFailed
<1>1. BundlingTypeOK /\ BundlingTypeOK'
  BY PagesOfDocument DEF BundlesInvariant, BundlingTypeOK
<1>2. ChunksAreLegal'
  BY <1>1, LegalChunksStay DEF BundlesInvariant, BundlingTypeOK
<1>3. ChunksInOrder'
  BY ChunksStay DEF BundlesInvariant
<1>4. CutSoFar'
  <2>1. \A i \in 1..(index - 1) : Covered(i) /\ (i + 1 < index /\ Joined(i) => Together(i))
    BY DEF BundlesInvariant, CutSoFar
  <2>2. ~Joined(index - 1)
    BY <1>1 DEF Joined, Continues, Unread, BundlingTypeOK
  <2>3. \A i \in 1..index : Covered(i) /\ (i + 1 < index + 1 /\ Joined(i) => Together(i))
    BY <2>1, <2>2, <1>1 DEF Covered, BundlingTypeOK
  <2>4. \A i \in 1..index : Covered(i)' /\ (i + 1 < index + 1 /\ Joined(i)' => Together(i)')
    BY <2>3, ChunksStay, SheetsStay
  <2> QED
    BY <2>4, <1>1 DEF CutSoFar, BundlingTypeOK
<1> QED
  BY <1>1, <1>2, <1>3, <1>4 DEF BundlesInvariant, ChunkUnderWay, WrittenSoFar

LEMMA OpenChunkKeeps ==
  ASSUME BundlesAssumption, BundlesInvariant, OpenChunk PROVE BundlesInvariant'
<1> USE DEF OpenChunk
<1>d. /\ Len(sheets) \in Nat
      /\ \A i \in 1..Len(sheets) : sheets[i].bytes \in Nat /\ (~Unread(i) => sheets[i].bytes > 0)
  BY PagesOfDocument DEF BundlesInvariant, BundlingTypeOK
<1>t. index \in Nat /\ index >= 1 /\ index <= Len(sheets) /\ chunks \in Seq(Chunks)
  BY DEF BundlesInvariant, BundlingTypeOK
<1>j. Joined(index - 1) => /\ index - 1 \in 1..(Len(sheets) - 1) /\ ~Unread(index - 1) /\ MaxPages >= 2
                           /\ sheets[index - 1].bytes + sheets[index].bytes <= MaxBytes
  BY <1>t, JoinedIsRead DEF BundlesAssumption, BundlesInvariant, BundlingTypeOK
<1>c. chunk' \in Chunks
  <2>1. CASE Joined(index - 1)
    BY <2>1, <1>j, <1>d, <1>t DEF Chunks
  <2>2. CASE ~Joined(index - 1)
    BY <2>2, <1>t DEF Chunks
  <2> QED
    BY <2>1, <2>2
<1>1. BundlingTypeOK'
  BY <1>c, <1>t DEF BundlesInvariant, BundlingTypeOK, Moments
<1>2. ChunksAreLegal'
  BY <1>t, LegalChunksStay DEF BundlesInvariant
<1>3. ChunksInOrder'
  BY ChunksStay DEF BundlesInvariant
<1>4. CutSoFar'
  BY DEF CutSoFar
<1>5. ChunkUnderWay'
  <2>1. \A k \in 1..Len(chunks) : /\ chunks[k].from \in Nat /\ chunks[k].to \in Nat /\ chunks[k].to < index
    BY <1>t, ChunkBounds DEF BundlesInvariant, ChunksAreLegal
  <2>2. \A k \in 1..Len(chunks) : k < Len(chunks) => chunks[k].to < index - 1
    <3> SUFFICES ASSUME NEW k \in 1..Len(chunks), k < Len(chunks) PROVE chunks[k].to < index - 1
      OBVIOUS
    <3>1. Len(chunks) \in 1..Len(chunks)
      BY <1>t
    <3>2. chunks[k].to < chunks[Len(chunks)].to
      BY <3>1 DEF BundlesInvariant, ChunksInOrder, MeetAtMost
    <3> QED
      BY <3>1, <3>2, <2>1, <1>t
  <2>3. \A i \in 1..(index - 1) : Covered(i) /\ (i + 1 < index /\ Joined(i) => Together(i))
    BY DEF BundlesInvariant, CutSoFar
  <2>4. \A i \in 1..(index - 1) : Covered(i)' /\ (i + 1 < index /\ Joined(i)' => Together(i)')
    BY <2>3, ChunksStay, SheetsStay
  <2>5. /\ chunk'.to + 1 = index /\ 1 <= chunk'.from /\ chunk'.from <= index
        /\ chunk'.from >= index - 1
        /\ chunk'.from = index => ~Joined(index - 1)
        /\ chunk'.from = index - 1 => Joined(index - 1)
    BY <1>j, <1>t
  <2>6. Legible(chunk') /\ WithinLimits(chunk')
    <3>1. CASE Joined(index - 1)
      <4>1. sheets[index - 1].bytes > 0
        BY <3>1, <1>j, <1>d, <1>t
      <4> QED
        BY <4>1, <3>1, <1>j, <1>t, LimitsOfBundles DEF Legible, WithinLimits, Size
    <3>2. CASE ~Joined(index - 1)
      BY <3>2, <1>t, LimitsOfBundles DEF Legible, WithinLimits, Size
    <3> QED
      BY <3>1, <3>2
  <2>7. Fits(index)'
    <3>1. CASE Joined(index - 1)
      <4>1. Size(chunk') = 1 /\ chunk'.bytes = sheets[index - 1].bytes
        BY <3>1, <1>t DEF Size
      <4> QED
        BY <4>1, <3>1, <1>j, <1>t, LimitsOfBundles DEF Fits, Unread
    <3>2. CASE ~Joined(index - 1)
      <4>1. Size(chunk') = 0
        BY <3>2, <1>t DEF Size
      <4> QED
        BY <4>1, <1>t, LimitsOfBundles DEF Fits, Unread
    <3> QED
      BY <3>1, <3>2
  <2>8. Legible(chunk)' /\ WithinLimits(chunk)'
    BY <2>6 DEF Legible, WithinLimits, Unread, Size
  <2>9. \A k \in 1..Len(chunks) :
          /\ chunks[k].to <= chunk'.from /\ (chunks[k].to = chunk'.from => Joined(chunk'.from))
          /\ k < Len(chunks) => chunks[k].to < chunk'.from
    <3>1. chunk'.from = index - 1 \/ chunk'.from = index
      BY <2>5, <1>t
    <3>2. \A k \in 1..Len(chunks) : chunks[k].to <= index - 1
      BY <2>1, <1>t
    <3>3. CASE chunk'.from = index - 1
      <4>1. Joined(chunk'.from)
        BY <3>3, <2>5
      <4> QED
        BY <4>1, <3>2, <3>3, <2>2
    <3>4. CASE chunk'.from = index
      <4>1. \A k \in 1..Len(chunks) : chunks[k].to < index
        BY <2>1
      <4>2. \A k \in 1..Len(chunks) : chunks[k].to <= index /\ chunks[k].to # index
        BY <2>1, <1>t
      <4> QED
        BY <4>1, <4>2, <3>4
    <3> QED
      BY <3>1, <3>3, <3>4
  <2>10. \A i \in 1..(chunk'.from - 1) : Covered(i)'
    <3>1. chunk'.from \in Nat /\ index \in Nat
      BY <1>t, <1>c DEF Chunks
    <3>2. \A i \in 1..(chunk'.from - 1) : i \in 1..(index - 1)
      BY <2>5, <3>1
    <3> QED
      BY <2>4, <3>2
  <2>11. \A i : Joined(i)' <=> Joined(i)
    BY SheetsStay
  <2> QED
    BY <2>4, <2>5, <2>7, <2>8, <2>9, <2>10, <2>11 DEF ChunkUnderWay
<1>6. WrittenSoFar'
  BY DEF BundlesInvariant, WrittenSoFar
<1> QED
  BY <1>1, <1>2, <1>3, <1>4, <1>5, <1>6 DEF BundlesInvariant

LEMMA TakePageKeeps ==
  ASSUME BundlesAssumption, BundlesInvariant, TakePage PROVE BundlesInvariant'
<1> USE DEF TakePage
<1>d. /\ Len(sheets) \in Nat
      /\ \A i \in 1..Len(sheets) : sheets[i].bytes \in Nat /\ (~Unread(i) => sheets[i].bytes > 0)
  BY PagesOfDocument DEF BundlesInvariant, BundlingTypeOK
<1>t. index \in Nat /\ index >= 1 /\ index <= Len(sheets) /\ chunks \in Seq(Chunks)
  BY <1>d DEF BundlesInvariant, BundlingTypeOK, Fits
<1>f. chunk.from \in Nat /\ chunk.to \in Nat /\ chunk.bytes \in Nat
  BY DEF BundlesInvariant, BundlingTypeOK, Chunks
<1>b. sheets[index].bytes \in Nat /\ sheets[index].bytes > 0 /\ ~Unread(index)
  BY <1>d, <1>t DEF Fits
<1>c. chunk' \in Chunks
  BY <1>b, <1>f, <1>t DEF Chunks
<1>u. /\ chunk.to + 1 = index /\ 1 <= chunk.from /\ chunk.from <= index
      /\ Legible(chunk) /\ WithinLimits(chunk)
      /\ chunk.from = index => ~Joined(index - 1)
      /\ \A k \in 1..Len(chunks) :
           /\ chunks[k].to <= chunk.from /\ (chunks[k].to = chunk.from => Joined(chunk.from))
           /\ k < Len(chunks) => chunks[k].to < chunk.from
      /\ \A i \in 1..(chunk.from - 1) : Covered(i)
      /\ \A i \in 1..(index - 1) : i + 1 < index /\ Joined(i) => Together(i) \/ i >= chunk.from
  BY DEF BundlesInvariant, ChunkUnderWay
<1>1. BundlingTypeOK'
  BY <1>c, <1>t, <1>d DEF BundlesInvariant, BundlingTypeOK, Moments
<1>2. ChunksAreLegal'
  BY <1>t, LegalChunksStay DEF BundlesInvariant
<1>3. ChunksInOrder'
  BY ChunksStay DEF BundlesInvariant
<1>4. CutSoFar'
  BY DEF CutSoFar
<1>5. ChunkUnderWay'
  <2>1. \A k \in 1..Len(chunks) : chunks[k].to \in Nat /\ chunks[k].to < index
    BY <1>t, ChunkBounds DEF BundlesInvariant, ChunksAreLegal
  <2>2. chunk' = [from |-> chunk.from, to |-> index, bytes |-> chunk.bytes + sheets[index].bytes]
    OBVIOUS
  <2>3. Legible(chunk')
    BY <2>2, <1>u, <1>b, <1>f, <1>t DEF Legible
  <2>4. WithinLimits(chunk')
    <3>1. Size(chunk') <= MaxPages
      BY <2>2, <1>u, <1>f, <1>t, LimitsOfBundles DEF Fits, Size
    <3>2. chunk.from < index => chunk.bytes + sheets[index].bytes <= MaxBytes
      BY <1>u, <1>f, <1>t DEF Fits, Size
    <3>3. chunk.bytes + sheets[index].bytes > 0
      BY <1>b, <1>f
    <3> QED
      BY <3>1, <3>2, <3>3, <2>2 DEF WithinLimits
  <2>5. Legible(chunk)' /\ WithinLimits(chunk)'
    BY <2>3, <2>4 DEF Legible, WithinLimits, Unread, Size
  <2>6. \A k \in 1..Len(chunks) : chunks[k].to < index
    BY <2>1
  <2>7. \A i \in 1..index : i + 1 < index + 1 /\ Joined(i) => Together(i) \/ i >= chunk.from
    <3> SUFFICES ASSUME NEW i \in 1..index, i + 1 < index + 1, Joined(i), ~(i >= chunk.from)
                 PROVE  Together(i)
      OBVIOUS
    <3>1. CASE i = index - 1
      <4>1. chunk.from = index
        BY <3>1, <1>u, <1>f, <1>t
      <4> QED
        BY <4>1, <3>1, <1>u
    <3>2. CASE i # index - 1
      BY <3>2, <1>u, <1>f, <1>t
    <3> QED
      BY <3>1, <3>2
  <2>8. \A i \in 1..index : i + 1 < index + 1 /\ Joined(i)' => Together(i)' \/ i >= chunk.from
    BY <2>7, ChunksStay, SheetsStay
  <2>9. \A i \in 1..(chunk.from - 1) : Covered(i)'
    BY <1>u, ChunksStay
  <2>10. \A k \in 1..Len(chunks) :
           /\ chunks[k].to <= chunk.from /\ (chunks[k].to = chunk.from => Joined(chunk.from)')
           /\ k < Len(chunks) => chunks[k].to < chunk.from
    BY <1>u, SheetsStay
  <2>11. /\ index + 1 = index' /\ chunk.from <= index /\ 1 <= chunk.from
    BY <1>u, <1>t, <1>f
  <2> QED
    BY <2>2, <2>5, <2>6, <2>8, <2>9, <2>10, <2>11, <1>t, <1>f DEF ChunkUnderWay
<1>6. WrittenSoFar'
  BY DEF BundlesInvariant, WrittenSoFar
<1> QED
  BY <1>1, <1>2, <1>3, <1>4, <1>5, <1>6 DEF BundlesInvariant

LEMMA EndChunkKeeps ==
  ASSUME BundlesAssumption, BundlesInvariant, EndChunk PROVE BundlesInvariant'
<1> USE DEF EndChunk
<1>d. Len(sheets) \in Nat
  BY PagesOfDocument DEF BundlesInvariant, BundlingTypeOK
<1>t. /\ index \in Nat /\ index >= 1 /\ index <= Len(sheets) + 1
      /\ chunks \in Seq(Chunks) /\ Len(chunks) \in Nat /\ chunk \in Chunks
  BY <1>d DEF BundlesInvariant, BundlingTypeOK
<1>f. chunk.from \in Nat /\ chunk.to \in Nat /\ chunk.bytes \in Nat
  BY DEF BundlesInvariant, BundlingTypeOK, Chunks
<1>u. /\ chunk.to + 1 = index /\ 1 <= chunk.from /\ chunk.from <= chunk.to
      /\ Legible(chunk) /\ WithinLimits(chunk)
      /\ \A k \in 1..Len(chunks) :
           /\ chunks[k].to <= chunk.from /\ (chunks[k].to = chunk.from => Joined(chunk.from))
           /\ k < Len(chunks) => chunks[k].to < chunk.from
           /\ chunks[k].to < chunk.to
      /\ \A i \in 1..(chunk.from - 1) : Covered(i)
      /\ \A i \in 1..(index - 1) : i + 1 < index /\ Joined(i) => Together(i) \/ i >= chunk.from
  BY DEF BundlesInvariant, ChunkUnderWay
<1>n. index' \in Nat /\ (index' = index \/ (index' = index + 1 /\ index <= Len(sheets) /\ Unread(index)))
  <2>1. index' = index \/ (index' = index + 1 /\ index <= Len(sheets) /\ Unread(index))
    OBVIOUS
  <2> QED
    BY <2>1, <1>t
<1>a. /\ chunks' \in Seq(Chunks) /\ Len(chunks') = Len(chunks) + 1
      /\ \A k \in 1..Len(chunks) : chunks'[k] = chunks[k]
      /\ chunks'[Len(chunks) + 1] = chunk
  <2>1. chunks' = Append(chunks, chunk)
    OBVIOUS
  <2> QED
    BY <2>1, <1>t, OneChunkMore
<1>b. \A k \in 1..Len(chunks) : chunks[k].from \in Nat /\ chunks[k].to \in Nat
  BY <1>t, ChunkBounds
<1>s. \A k \in 1..Len(chunks') : k \in 1..Len(chunks) \/ k = Len(chunks) + 1
  BY <1>a, <1>t
<1>1. BundlingTypeOK'
  <2>1. chunk' \in Chunks
    BY DEF NoChunk, Chunks
  <2> QED
    BY <1>a, <1>n, <1>t, <1>d, <2>1 DEF BundlesInvariant, BundlingTypeOK, Moments
<1>2. ChunksAreLegal'
  <2> SUFFICES ASSUME NEW k \in 1..Len(chunks')
               PROVE  /\ 1 <= chunks'[k].from /\ chunks'[k].from <= chunks'[k].to /\ chunks'[k].to < index'
                      /\ Legible(chunks'[k]) /\ WithinLimits(chunks'[k])
    BY SheetsStay DEF ChunksAreLegal, WithinLimits, Size
  <2>1. CASE k \in 1..Len(chunks)
    <3>1. /\ 1 <= chunks[k].from /\ chunks[k].from <= chunks[k].to /\ chunks[k].to < index
          /\ Legible(chunks[k]) /\ WithinLimits(chunks[k])
      BY <2>1 DEF BundlesInvariant, ChunksAreLegal
    <3>2. chunks[k].to < index'
      BY <3>1, <1>b, <1>n, <1>t, <2>1
    <3> QED
      BY <3>1, <3>2, <1>a, <2>1
  <2>2. CASE k = Len(chunks) + 1
    <3>1. chunk.to < index'
      BY <1>u, <1>f, <1>n, <1>t
    <3> QED
      BY <3>1, <2>2, <1>a, <1>u
  <2> QED
    BY <2>1, <2>2, <1>s
<1>3. ChunksInOrder'
  <2> SUFFICES ASSUME NEW j \in 1..Len(chunks'), NEW k \in 1..Len(chunks'), j < k
               PROVE  /\ MeetAtMost(chunks'[j], chunks'[k])
                      /\ j + 1 < k => chunks'[j].to < chunks'[k].from
    BY SheetsStay DEF ChunksInOrder, MeetAtMost
  <2>0. j \in 1..Len(chunks)
    BY <1>a, <1>t
  <2>1. CASE k \in 1..Len(chunks)
    BY <2>1, <2>0, <1>a DEF BundlesInvariant, ChunksInOrder
  <2>2. CASE k = Len(chunks) + 1
    <3>1. MeetAtMost(chunks[j], chunk)
      BY <2>0, <1>u DEF MeetAtMost
    <3>2. j + 1 < k => chunks[j].to < chunk.from
      BY <2>0, <2>2, <1>u, <1>t
    <3> QED
      BY <3>1, <3>2, <2>0, <2>2, <1>a
  <2> QED
    BY <2>1, <2>2, <1>s
<1>4. CutSoFar'
  <2>1. \A i : Covered(i) => Covered(i)'
    BY <1>a, <1>t, SheetsStay DEF Covered
  <2>2. \A i : Together(i) => Together(i)'
    BY <1>a, <1>t DEF Together
  <2>3. \A i \in chunk.from..chunk.to : Covered(i)'
    BY <1>a, <1>t DEF Covered
  <2>4. \A i \in chunk.from..(chunk.to - 1) : Together(i)'
    <3> SUFFICES ASSUME NEW i \in chunk.from..(chunk.to - 1) PROVE Together(i)'
      OBVIOUS
    <3>1. {i, i + 1} \subseteq chunk.from..chunk.to
      BY <1>f
    <3>2. Len(chunks) + 1 \in 1..Len(chunks')
      BY <1>a, <1>t
    <3> QED
      BY <3>1, <3>2, <1>a DEF Together
  <2>5. \A i \in 1..(index - 1) : Covered(i)'
    <3> SUFFICES ASSUME NEW i \in 1..(index - 1) PROVE Covered(i)'
      OBVIOUS
    <3>1. i \in 1..(chunk.from - 1) \/ i \in chunk.from..chunk.to
      BY <1>u, <1>f, <1>t
    <3> QED
      BY <3>1, <2>1, <2>3, <1>u
  <2>6. \A i \in 1..(index - 1) : i + 1 < index /\ Joined(i) => Together(i)'
    <3> SUFFICES ASSUME NEW i \in 1..(index - 1), i + 1 < index, Joined(i) PROVE Together(i)'
      OBVIOUS
    <3>1. Together(i) \/ i >= chunk.from
      BY <1>u
    <3>2. i >= chunk.from => i \in chunk.from..(chunk.to - 1)
      BY <1>u, <1>f, <1>t
    <3> QED
      BY <3>1, <3>2, <2>2, <2>4
  <2>7. CASE index' = index
    BY <2>7, <2>5, <2>6, SheetsStay DEF CutSoFar
  <2>8. CASE index' # index
    <3>1. index' = index + 1 /\ index <= Len(sheets) /\ Unread(index)
      BY <2>8, <1>n
    <3>2. \A i \in {index} : Covered(i)'
      BY <3>1, SheetsStay DEF Covered
    <3>3. ~Joined(index - 1)
      BY <3>1, <1>t DEF Joined, Continues, Unread
    <3>4. \A i \in 1..index : /\ Covered(i)'
                              /\ i + 1 < index + 1 /\ Joined(i) => Together(i)'
      <4> SUFFICES ASSUME NEW i \in 1..index
                   PROVE  Covered(i)' /\ (i + 1 < index + 1 /\ Joined(i) => Together(i)')
        OBVIOUS
      <4>1. CASE i = index
        BY <4>1, <3>2, <1>t
      <4>2. CASE i = index - 1
        <5>1. i \in 1..(index - 1)
          BY <4>2, <1>t
        <5> QED
          BY <5>1, <4>2, <3>3, <2>5
      <4>3. CASE i < index - 1
        BY <4>3, <2>5, <2>6, <1>t
      <4> QED
        BY <4>1, <4>2, <4>3, <1>t
    <3>5. index' - 1 = index
      BY <3>1, <1>t
    <3> QED
      BY <3>1, <3>4, <3>5, SheetsStay DEF CutSoFar
  <2> QED
    BY <2>7, <2>8
<1>5. ChunkUnderWay'
  BY DEF ChunkUnderWay
<1>6. WrittenSoFar'
  <2>1. /\ written = Len(records) /\ written = 0
    BY DEF BundlesInvariant, WrittenSoFar
  <2> QED
    BY <2>1, <1>a, <1>t DEF WrittenSoFar
<1> QED
  BY <1>1, <1>2, <1>3, <1>4, <1>5, <1>6 DEF BundlesInvariant

LEMMA EndCuttingKeeps ==
  ASSUME BundlesAssumption, BundlesInvariant, EndCutting PROVE BundlesInvariant'
<1> USE DEF EndCutting
<1>1. BundlingTypeOK'
  BY DEF BundlesInvariant, BundlingTypeOK, Moments
<1>2. ChunksAreLegal'
  BY LegalChunksStay DEF BundlesInvariant, BundlingTypeOK
<1>3. ChunksInOrder'
  BY ChunksStay DEF BundlesInvariant
<1>4. CutSoFar'
  <2>1. index = Len(sheets) + 1
    BY PagesOfDocument DEF BundlesInvariant, BundlingTypeOK
  <2>2. \A i \in 1..(index - 1) : Covered(i) /\ (i + 1 < index /\ Joined(i) => Together(i))
    BY DEF BundlesInvariant, CutSoFar
  <2> QED
    BY <2>1, <2>2, ChunksStay, SheetsStay DEF CutSoFar
<1> QED
  BY <1>1, <1>2, <1>3, <1>4 DEF BundlesInvariant, ChunkUnderWay, WrittenSoFar

LEMMA WrittenChunkIsValid ==
  ASSUME BundlesAssumption, BundlesInvariant, NEW k \in 1..Len(chunks), index = Len(sheets) + 1
  PROVE  chunks[k].bytes > 0 /\ ValidBundle(chunks[k])
<1>d. /\ Len(sheets) \in Nat
      /\ \A i \in 1..Len(sheets) : /\ sheets[i].number \in Nat
                                   /\ sheets[i].number = (sheets[1].number + i) - 1
  BY PagesOfDocument DEF BundlesInvariant, BundlingTypeOK
<1>f. chunks[k].from \in Nat /\ chunks[k].to \in Nat /\ chunks[k].bytes \in Nat
  BY ChunkBounds DEF BundlesInvariant, BundlingTypeOK
<1>u. /\ 1 <= chunks[k].from /\ chunks[k].from <= chunks[k].to /\ chunks[k].to < index
      /\ WithinLimits(chunks[k])
  BY DEF BundlesInvariant, ChunksAreLegal
<1>1. \A i \in chunks[k].from..chunks[k].to : sheets[i].number = (FirstNumber(chunks[k]) + i) - chunks[k].from
  <2>1. chunks[k].from \in 1..Len(sheets)
    BY <1>d, <1>f, <1>u
  <2>2. \A i \in chunks[k].from..chunks[k].to : i \in 1..Len(sheets)
    BY <1>d, <1>f, <1>u
  <2>3. sheets[1].number \in Nat
    BY <1>d, <2>1
  <2>4. FirstNumber(chunks[k]) = (sheets[1].number + chunks[k].from) - 1
    BY <2>1, <1>d DEF FirstNumber
  <2> TAKE i \in chunks[k].from..chunks[k].to
  <2>5. sheets[i].number = (sheets[1].number + i) - 1
    BY <2>2, <1>d
  <2>6. i \in Nat
    BY <2>2, <1>d
  <2>7. (sheets[1].number + i) - 1 = (((sheets[1].number + chunks[k].from) - 1) + i) - chunks[k].from
    <3>1. \A n, a, m \in Nat : (n + m) - 1 = (((n + a) - 1) + m) - a
      OBVIOUS
    <3> QED
      BY <3>1, <2>3, <2>6, <1>f
  <2> QED
    BY <2>4, <2>5, <2>7
<1>2. Size(chunks[k]) <= 10
  BY <1>u, <1>f, LimitsOfBundles DEF WithinLimits, Size
<1>3. chunks[k].bytes > MaxBytes => Size(chunks[k]) = 1
  BY <1>u, <1>f, LimitsOfBundles DEF WithinLimits, Size
<1> QED
  BY <1>1, <1>2, <1>3, <1>u DEF ValidBundle, WithinLimits

LEMMA WriteBundleKeeps ==
  ASSUME BundlesAssumption, BundlesInvariant, WriteBundle PROVE BundlesInvariant'
<1>a. /\ outcome = "writing" /\ written < Len(chunks) /\ written' = written + 1
      /\ UNCHANGED <<sheets, index, chunk, chunks>>
  BY DEF WriteBundle
<1>t. /\ chunks \in Seq(Chunks) /\ Len(chunks) \in Nat /\ written \in Nat /\ records \in Seq(Chunks)
      /\ written = Len(records) /\ \A k \in 1..written : records[k] = chunks[k]
  BY DEF BundlesInvariant, BundlingTypeOK, WrittenSoFar
<1>k. written + 1 \in 1..Len(chunks) /\ chunks[written + 1] \in Chunks
  BY <1>a, <1>t
<1>v. chunks[written + 1].bytes > 0 /\ ValidBundle(chunks[written + 1])
  BY <1>a, <1>k, WrittenChunkIsValid DEF BundlesInvariant, CutSoFar
<1>b. records' = Append(records, chunks[written + 1]) /\ outcome' = outcome
  BY <1>v DEF WriteBundle
<1>c. /\ records' \in Seq(Chunks) /\ Len(records') = Len(records) + 1
      /\ \A k \in 1..Len(records) : records'[k] = records[k]
      /\ records'[Len(records) + 1] = chunks[written + 1]
  BY <1>b, <1>t, <1>k, OneChunkMore
<1>1. BundlingTypeOK'
  BY <1>a, <1>b, <1>c, <1>t DEF BundlesInvariant, BundlingTypeOK
<1>2. ChunksAreLegal'
  BY <1>a, LegalChunksStay DEF BundlesInvariant, BundlingTypeOK
<1>3. ChunksInOrder'
  BY <1>a, ChunksStay DEF BundlesInvariant
<1>4. CutSoFar'
  BY <1>a, <1>b, ChunksStay, SheetsStay DEF BundlesInvariant, CutSoFar
<1>5. ChunkUnderWay'
  BY <1>a, <1>b DEF ChunkUnderWay
<1>6. WrittenSoFar'
  <2>1. \A k \in 1..written' : records'[k] = chunks'[k]
    <3> SUFFICES ASSUME NEW k \in 1..written' PROVE records'[k] = chunks[k]
      BY <1>a
    <3>1. CASE k = written + 1
      BY <3>1, <1>c, <1>t
    <3>2. CASE k # written + 1
      BY <3>2, <1>c, <1>t, <1>a
    <3> QED
      BY <3>1, <3>2
  <2> QED
    BY <2>1, <1>a, <1>b, <1>c, <1>t DEF WrittenSoFar
<1> QED
  BY <1>1, <1>2, <1>3, <1>4, <1>5, <1>6 DEF BundlesInvariant

LEMMA Follows ==
  ASSUME NEW x \in Nat, NEW y \in Nat, NEW z \in Nat, x <= y, y <= z PROVE x <= z
OBVIOUS

LEMMA OutsideRange ==
  ASSUME NEW a \in Nat, NEW b \in Nat, NEW from \in Nat, NEW to \in Nat, NEW i \in from..to,
         to <= a \/ b <= from
  PROVE  ~(a < i /\ i < b)
OBVIOUS

LEMMA InsideRange ==
  ASSUME NEW n \in Nat, NEW a \in Nat, NEW b \in Nat, NEW i \in Nat, a <= i, i <= b
  PROVE  (n + i) - 1 \in ((n + a) - 1)..((n + b) - 1)
OBVIOUS

LEMMA PageNumbers ==
  ASSUME BundlesAssumption, BundlesInvariant, index = Len(sheets) + 1,
         NEW k \in 1..Len(chunks)
  PROVE  /\ \A i \in 1..Len(sheets) : sheets[i].number = (sheets[1].number + i) - 1
         /\ sheets[1].number \in Nat
         /\ FirstNumber(chunks[k]) = (sheets[1].number + chunks[k].from) - 1
         /\ LastNumber(chunks[k]) = (sheets[1].number + chunks[k].to) - 1
         /\ chunks[k].from \in 1..Len(sheets) /\ chunks[k].to \in 1..Len(sheets)
<1>d. /\ Len(sheets) \in Nat
      /\ \A n \in 1..Len(sheets) : /\ sheets[n].number \in Nat
                                   /\ sheets[n].number = (sheets[1].number + n) - 1
  BY PagesOfDocument DEF BundlesInvariant, BundlingTypeOK
<1>f. chunks[k].from \in Nat /\ chunks[k].to \in Nat
  BY ChunkBounds DEF BundlesInvariant, BundlingTypeOK
<1>u. 1 <= chunks[k].from /\ chunks[k].from <= chunks[k].to /\ chunks[k].to < index
  BY DEF BundlesInvariant, ChunksAreLegal
<1>1. chunks[k].from \in 1..Len(sheets) /\ chunks[k].to \in 1..Len(sheets)
  BY <1>d, <1>f, <1>u
<1>2. 1 \in 1..Len(sheets)
  BY <1>1, <1>d
<1> QED
  BY <1>1, <1>2, <1>d DEF FirstNumber, LastNumber

LEMMA ChunksMeetTheValidators ==
  ASSUME BundlesAssumption, BundlesInvariant, index = Len(sheets) + 1, outcome = "writing",
         written = Len(chunks)
  PROVE  ValidBundles
<1>d. Len(sheets) \in Nat
  BY PagesOfDocument DEF BundlesInvariant, BundlingTypeOK
<1>t. chunks \in Seq(Chunks) /\ Len(chunks) \in Nat
  BY DEF BundlesInvariant, BundlingTypeOK
<1>b. Len(records) = Len(chunks) /\ \A k \in 1..Len(chunks) : records[k] = chunks[k]
  BY DEF BundlesInvariant, WrittenSoFar
<1>f. \A k \in 1..Len(chunks) : chunks[k].from \in Nat /\ chunks[k].to \in Nat /\ chunks[k].from <= chunks[k].to
  BY ChunkBounds DEF BundlesInvariant, BundlingTypeOK, ChunksAreLegal
<1>o. \A j, k \in 1..Len(chunks) : j < k => chunks[j].to <= chunks[k].from
  BY DEF BundlesInvariant, ChunksInOrder, MeetAtMost
<1>c. \A i \in 1..Len(sheets) : Covered(i)
  BY <1>d DEF BundlesInvariant, CutSoFar
<1>1. ASSUME NEW k \in 2..Len(records)
      PROVE  \/ FirstNumber(records[k]) \in {LastNumber(records[k - 1]), LastNumber(records[k - 1]) + 1}
             \/ /\ FirstNumber(records[k]) >= LastNumber(records[k - 1])
                /\ (LastNumber(records[k - 1]) + 1)..(FirstNumber(records[k]) - 1) \subseteq FailedNumbers
  <2>1. k \in 1..Len(chunks) /\ k - 1 \in 1..Len(chunks) /\ k - 1 < k
    BY <1>b, <1>t
  <2> DEFINE a == chunks[k - 1].to
             b == chunks[k].from
             n == sheets[1].number
  <2>2. a \in 1..Len(sheets) /\ b \in 1..Len(sheets) /\ n \in Nat
    BY <2>1, PageNumbers
  <2>3. a <= b
    BY <2>1, <1>o
  <2>a. a \in Nat /\ b \in Nat /\ n \in Nat
    BY <2>2, <1>d
  <2>b. a >= 1 /\ b <= Len(sheets)
    BY <2>2, <1>d
  <2>4. LastNumber(records[k - 1]) = (n + a) - 1 /\ FirstNumber(records[k]) = (n + b) - 1
    BY <2>1, <2>2, <1>b, PageNumbers
  <2>5. \A i \in (a + 1)..(b - 1) : Unread(i)
    <3> SUFFICES ASSUME NEW i \in (a + 1)..(b - 1), ~Unread(i) PROVE FALSE
      OBVIOUS
    <3>i. i \in 1..Len(sheets) /\ a < i /\ i < b
      <4> HIDE DEF a, b
      <4> QED
        BY <2>a, <2>b, <1>d
    <3>j. PICK j \in 1..Len(chunks) : i \in chunks[j].from..chunks[j].to
      BY <3>i, <1>c DEF Covered
    <3>1. chunks[j].from \in Nat /\ chunks[j].to \in Nat
      BY <1>f
    <3>2. j \in Nat /\ k \in Nat
      BY <1>t, <2>1
    <3>3. CASE j = k - 1
      BY <3>i, <3>j, <3>1, <3>3, <2>a, OutsideRange
    <3>4. CASE j < k - 1
      <4>1. chunks[j].to <= chunks[k - 1].from
        BY <3>4, <2>1, <1>o
      <4>2. chunks[k - 1].from <= a /\ chunks[k - 1].from \in Nat
        BY <2>1, <1>f
      <4>3. chunks[j].to <= a
        BY <4>1, <4>2, <3>1, <2>a, Follows
      <4> QED
        BY <4>3, <3>i, <3>j, <3>1, <2>a, OutsideRange
    <3>5. CASE j = k
      BY <3>i, <3>j, <3>1, <3>5, <2>a, OutsideRange
    <3>6. CASE j > k
      <4>1. chunks[k].to <= chunks[j].from
        BY <3>6, <2>1, <1>o
      <4>2. b <= chunks[k].to /\ chunks[k].to \in Nat
        BY <2>1, <1>f
      <4>3. b <= chunks[j].from
        BY <4>1, <4>2, <3>1, <2>a, Follows
      <4> QED
        BY <4>3, <3>i, <3>j, <3>1, <2>a, OutsideRange
    <3> QED
      BY <3>2, <3>3, <3>4, <3>5, <3>6
  <2>n. \A l \in 1..Len(sheets) : sheets[l].number = (n + l) - 1
    BY <2>1, PageNumbers
  <2> HIDE DEF a, b, n
  <2>6. ((n + a) - 1 + 1)..((n + b) - 1 - 1) \subseteq FailedNumbers
    <3> SUFFICES ASSUME NEW m \in ((n + a) - 1 + 1)..((n + b) - 1 - 1) PROVE m \in FailedNumbers
      OBVIOUS
    <3> DEFINE i == (m - n) + 1
    <3>1. i \in (a + 1)..(b - 1) /\ i \in 1..Len(sheets) /\ m = (n + i) - 1
      <4>1. m \in Int /\ (n + a) <= m /\ m <= (n + b) - 2
        BY <2>a
      <4>2. i \in Int /\ m = (n + i) - 1 /\ a + 1 <= i /\ i <= b - 1
        BY <4>1, <2>a
      <4> HIDE DEF i
      <4> QED
        BY <4>2, <2>b, <2>a, <1>d
    <3> HIDE DEF i
    <3>2. sheets[i].number = m
      BY <3>1, <2>n
    <3> QED
      BY <3>1, <3>2, <2>5 DEF FailedNumbers
  <2>7. (n + b) - 1 >= (n + a) - 1
    BY <2>a, <2>3
  <2> QED
    BY <2>4, <2>6, <2>7
<1>2. ASSUME NEW i \in 1..Len(sheets)
      PROVE  \/ sheets[i].number \in FailedNumbers
             \/ \E k \in 1..Len(records) : sheets[i].number \in FirstNumber(records[k])..LastNumber(records[k])
  <2>1. CASE Unread(i)
    BY <2>1 DEF FailedNumbers
  <2>2. CASE ~Unread(i)
    <3>1. PICK k \in 1..Len(chunks) : i \in chunks[k].from..chunks[k].to
      BY <2>2, <1>c DEF Covered
    <3>2. /\ sheets[i].number = (sheets[1].number + i) - 1 /\ sheets[1].number \in Nat
          /\ FirstNumber(chunks[k]) = (sheets[1].number + chunks[k].from) - 1
          /\ LastNumber(chunks[k]) = (sheets[1].number + chunks[k].to) - 1
      BY PageNumbers
    <3>3. sheets[i].number \in FirstNumber(chunks[k])..LastNumber(chunks[k])
      <4>1. /\ chunks[k].from \in Nat /\ chunks[k].to \in Nat
            /\ chunks[k].from <= i /\ i <= chunks[k].to
        BY <3>1, <1>f
      <4>2. i \in Nat
        BY <1>d
      <4>3. (sheets[1].number + i) - 1
              \in ((sheets[1].number + chunks[k].from) - 1)..((sheets[1].number + chunks[k].to) - 1)
        BY <4>1, <4>2, <3>2, InsideRange
      <4> QED
        BY <4>3, <3>2
    <3> QED
      BY <3>3, <1>b
  <2> QED
    BY <2>1, <2>2
<1> QED
  BY <1>1, <1>2 DEF ValidBundles

LEMMA ValidateDocumentKeeps ==
  ASSUME BundlesAssumption, BundlesInvariant, ValidateDocument PROVE BundlesInvariant'
<1>a. /\ outcome = "writing" /\ written = Len(chunks)
      /\ UNCHANGED <<sheets, index, chunk, chunks, written, records>>
  BY DEF ValidateDocument
<1>b. outcome' = "built"
  BY <1>a, ChunksMeetTheValidators DEF ValidateDocument, BundlesInvariant, CutSoFar
<1>1. BundlingTypeOK'
  BY <1>a, <1>b DEF BundlesInvariant, BundlingTypeOK, Moments
<1>2. ChunksAreLegal'
  BY <1>a, LegalChunksStay DEF BundlesInvariant, BundlingTypeOK
<1>3. ChunksInOrder'
  BY <1>a, ChunksStay DEF BundlesInvariant
<1>4. CutSoFar'
  BY <1>a, <1>b, ChunksStay, SheetsStay DEF BundlesInvariant, CutSoFar
<1> QED
  BY <1>1, <1>2, <1>3, <1>4, <1>a, <1>b DEF BundlesInvariant, ChunkUnderWay, WrittenSoFar

LEMMA BundlesNextKeeps ==
  ASSUME BundlesAssumption, BundlesInvariant, [BundlesNext]_bundling PROVE BundlesInvariant'
<1>1. CASE UNCHANGED bundling
  <2> USE <1>1 DEF bundling
  <2>1. ChunksAreLegal'
    BY LegalChunksStay DEF BundlesInvariant, BundlingTypeOK
  <2>2. ChunksInOrder' /\ CutSoFar'
    BY ChunksStay, SheetsStay DEF BundlesInvariant, CutSoFar
  <2>3. ChunkUnderWay'
    <3>1. outcome = "cutting" => (Fits(index)' <=> Fits(index))
      BY DEF Fits, Size, Unread
    <3>2. outcome = "cutting" => (WithinLimits(chunk)' <=> WithinLimits(chunk))
      BY DEF WithinLimits, Size
    <3> QED
      BY <3>1, <3>2, ChunksStay, SheetsStay DEF BundlesInvariant, ChunkUnderWay
  <2> QED
    BY <2>1, <2>2, <2>3 DEF BundlesInvariant, BundlingTypeOK, WrittenSoFar
<1> QED
  BY <1>1, SkipFailedKeeps, OpenChunkKeeps, TakePageKeeps, EndChunkKeeps, EndCuttingKeeps,
     WriteBundleKeeps, ValidateDocumentKeeps DEF BundlesNext

LEMMA PagesInBundles ==
  ASSUME BundlesAssumption, BundlesInvariant, outcome = "built", NEW i \in 1..Len(sheets)
  PROVE  /\ Unread(i) => Holding(i) = {}
         /\ ~Unread(i) => Holding(i) # {}
         /\ Cardinality(Holding(i)) > 1 => Joined(i) /\ Cardinality(Holding(i)) = 2
<1>d. Len(sheets) \in Nat /\ index = Len(sheets) + 1
  BY PagesOfDocument DEF BundlesInvariant, BundlingTypeOK, CutSoFar
<1>t. chunks \in Seq(Chunks) /\ Len(chunks) \in Nat
  BY DEF BundlesInvariant, BundlingTypeOK
<1>b. Len(records) = Len(chunks) /\ \A k \in 1..Len(chunks) : records[k] = chunks[k]
  BY DEF BundlesInvariant, WrittenSoFar
<1>f. \A k \in 1..Len(chunks) : chunks[k].from \in Nat /\ chunks[k].to \in Nat /\ Legible(chunks[k])
  BY <1>t, ChunkBounds DEF BundlesInvariant, ChunksAreLegal
<1>h. \A k : k \in Holding(i) <=> k \in 1..Len(chunks) /\ i \in chunks[k].from..chunks[k].to
  BY <1>b DEF Holding
<1>m. \A j, k \in Holding(i) : j < k => k = j + 1 /\ Joined(i)
  <2> SUFFICES ASSUME NEW j \in Holding(i), NEW k \in Holding(i), j < k PROVE k = j + 1 /\ Joined(i)
    OBVIOUS
  <2>1. /\ chunks[j].to <= chunks[k].from /\ (chunks[j].to = chunks[k].from => Joined(chunks[k].from))
        /\ j + 1 < k => chunks[j].to < chunks[k].from
    BY <1>h DEF BundlesInvariant, ChunksInOrder, MeetAtMost
  <2>2. i <= chunks[j].to /\ chunks[k].from <= i /\ j \in Nat /\ k \in Nat
    BY <1>h, <1>f
  <2>3. i = chunks[j].to /\ i = chunks[k].from
    BY <2>1, <2>2, <1>h, <1>f
  <2> QED
    BY <2>1, <2>2, <2>3, <1>f, <1>h
<1>1. Unread(i) => Holding(i) = {}
  BY <1>h, <1>f DEF Legible
<1>2. ~Unread(i) => Holding(i) # {}
  <2>1. Covered(i)
    BY <1>d DEF BundlesInvariant, CutSoFar
  <2> QED
    BY <2>1, <1>h DEF Covered
<1>3. ASSUME Cardinality(Holding(i)) > 1 PROVE Joined(i) /\ Cardinality(Holding(i)) = 2
  <2>1. Holding(i) \subseteq Nat
    BY <1>h, <1>t
  <2>2. Holding(i) # {} /\ \A j : Holding(i) # {j}
    <3>1. ASSUME Holding(i) = {} PROVE FALSE
      <4>1. Cardinality(Holding(i)) = 0
        BY <3>1, FS_EmptySet
      <4> QED
        BY <4>1, <1>3
    <3>2. ASSUME NEW j, Holding(i) = {j} PROVE FALSE
      <4>1. Cardinality(Holding(i)) = 1
        BY <3>2, FS_Singleton
      <4> QED
        BY <4>1, <1>3
    <3> QED
      BY <3>1, <3>2
  <2>3. PICK j \in Holding(i), k \in Holding(i) : j < k
    <3>1. PICK j \in Holding(i) : TRUE
      BY <2>2
    <3>2. PICK k \in Holding(i) : k # j
      BY <2>2, <3>1
    <3> QED
      BY <3>1, <3>2, <2>1
  <2>4. k = j + 1 /\ Joined(i)
    BY <2>3, <1>m
  <2>5. Holding(i) = {j, k}
    <3>1. ASSUME NEW l \in Holding(i) PROVE l \in {j, k}
      <4>1. l < j \/ l = j \/ l = k \/ l > k
        BY <2>1, <2>4
      <4>2. ~(l < j)
        BY <2>1, <2>3, <2>4, <1>m
      <4>3. ~(l > k)
        BY <2>1, <2>3, <2>4, <1>m
      <4> QED
        BY <4>1, <4>2, <4>3
    <3> QED
      BY <3>1
  <2>6. Cardinality({j, k}) = 2
    <3>1. j # k
      BY <2>3, <2>1
    <3>2. IsFiniteSet({j}) /\ Cardinality({j}) = 1
      BY FS_Singleton
    <3>3. {j, k} = {j} \cup {k} /\ k \notin {j}
      BY <3>1
    <3>4. Cardinality({j} \cup {k}) = Cardinality({j}) + 1
      BY <3>2, <3>3, FS_AddElement
    <3>5. Cardinality({j} \cup {k}) = 1 + 1
      BY <3>2, <3>4, Zenon
    <3>6. Cardinality({j, k}) = Cardinality({j} \cup {k})
      BY <3>3
    <3>7. Cardinality({j, k}) = 1 + 1
      BY <3>5, <3>6, Zenon
    <3> QED
      BY <3>7
  <2> QED
    BY <2>4, <2>5, <2>6
<1> QED
  BY <1>1, <1>2, <1>3

LEMMA InvariantMakesBundlesWhole ==
  ASSUME BundlesAssumption, BundlesInvariant PROVE BundlesAreWhole
<1>1. NeverRefused
  BY DEF NeverRefused, BundlesInvariant, BundlingTypeOK, Moments
<1>2. EveryPageIsBundled
  BY PagesInBundles DEF EveryPageIsBundled
<1>3. ContinuationStaysTogether
  <2> SUFFICES ASSUME outcome = "built", NEW i \in 1..Len(sheets) - 1, Joined(i)
               PROVE  \E k \in 1..Len(records) : {i, i + 1} \subseteq records[k].from..records[k].to
    BY DEF ContinuationStaysTogether
  <2>1. Len(sheets) \in Nat /\ index = Len(sheets) + 1
    BY PagesOfDocument DEF BundlesInvariant, BundlingTypeOK, CutSoFar
  <2>2. Together(i)
    BY <2>1 DEF BundlesInvariant, CutSoFar
  <2>3. Len(records) = Len(chunks) /\ \A k \in 1..Len(chunks) : records[k] = chunks[k]
    BY DEF BundlesInvariant, WrittenSoFar
  <2> QED
    BY <2>2, <2>3 DEF Together
<1> QED
  BY <1>1, <1>2, <1>3 DEF BundlesAreWhole

THEOREM BundlesHold == ASSUME BundlesAssumption PROVE BundlesSpec => []BundlesAreWhole
<1>1. BundlesInit => BundlesInvariant
  BY BundlesInitInvariant
<1>2. BundlesInvariant /\ [BundlesNext]_bundling => BundlesInvariant'
  BY BundlesNextKeeps
<1>3. BundlesInvariant => BundlesAreWhole
  BY InvariantMakesBundlesWhole
<1> QED
  BY <1>1, <1>2, <1>3, PTL DEF BundlesSpec

-----------------------------------------------------------------------------
(***************************************************************************)
(* The graph of a document.  The nodes are the lines that were kept of     *)
(* those behind the builder, in their order, each text has as many as the  *)
(* readings so far ask for, and of the headings before a line each is open *)
(* or hidden by one that is.                                               *)
(***************************************************************************)
Readings == {"native", "ocr"}
Spot == [page : Nat, reading : Readings, line : Nat]
Node == [span : Spot, depth : Nat, parent : Nat, alternate : Nat, ready : BOOLEAN]

GraphTypeOK ==
  /\ document \in SourceDocuments
  /\ pageNo \in Nat /\ pageNo >= 1 /\ pageNo <= Len(document) + 1
  /\ reading \in Readings
  /\ lineNo \in Nat /\ lineNo >= 1
  /\ pageNo <= Len(document) => lineNo <= Len(Lines(pageNo, reading)) + 1
  /\ pageNo > Len(document) => reading = "native" /\ lineNo = 1
  /\ cursor \in Nat /\ cursor >= 1
  /\ nodes \in Seq(Node)
  /\ fate \in {"building", "accepted", "published", "refused"}

\* How many lines of a reading the builder has behind it.
LinesPassed(n, r) ==
  IF n < pageNo \/ (n = pageNo /\ r = "native" /\ reading = "ocr") THEN Len(Lines(n, r))
  ELSE IF n = pageNo /\ r = reading THEN lineNo - 1 ELSE 0
Passed(s) == s.line <= LinesPassed(s.page, s.reading)

NodesAreLines ==
  \A i \in 1..Len(nodes) :
    /\ nodes[i].span.page \in 1..Len(document) /\ nodes[i].span \in Canonical(nodes[i].span.page)
    /\ ~Blank(LineOf(nodes[i].span)) /\ Passed(nodes[i].span)
LinesAreNodes ==
  \A n \in 1..Len(document) : \A s \in Canonical(n) :
    ~Blank(LineOf(s)) /\ Passed(s) => \E i \in 1..Len(nodes) : nodes[i].span = s
NodesAreInOrder ==
  \A i, j \in 1..Len(nodes) :
    i < j => /\ nodes[i].span.page <= nodes[j].span.page
             /\ nodes[i].span.page = nodes[j].span.page => Precedes(nodes[i].span, nodes[j].span)

AlternatesSoFar ==
  \A i \in 1..Len(nodes) :
    nodes[i].alternate # 0 =>
      /\ document[nodes[i].span.page].route = "suspect"
      /\ nodes[i].alternate <= Len(document[nodes[i].span.page].native)
      /\ nodes[i].span.page = pageNo => nodes[i].alternate < cursor

\* The headings under which the next line may stand: of those before a line each is
\* there or is followed by a heading of no greater depth that is.
OpenHeadings ==
  /\ \E b \in Nat : \A d \in DOMAIN stack : d \in Nat /\ d > 0 /\ d <= b
  /\ \A d \in DOMAIN stack : stack[d] \in 1..Len(nodes) /\ nodes[stack[d]].depth = d
  /\ \A d, e \in DOMAIN stack : d < e => stack[d] < stack[e]
  /\ \A j \in 1..Len(nodes) :
       nodes[j].depth > 0 => \E d \in DOMAIN stack : d <= nodes[j].depth /\ j <= stack[d]
ParentsAreEarlier == \A i \in 1..Len(nodes) : nodes[i].parent < i

\* How many nodes a text should have after so many lines of either reading.
Excess(a, b) == IF a > b THEN a - b ELSE 0
TextsOf(n, text, a, b) ==
  LET native == document[n].native
      ocr == document[n].ocr
  IN  IF FromOcr(n) THEN Copies(text, ocr, b)
      ELSE IF document[n].route = "mixed"
      THEN Copies(text, native, a) + Excess(Copies(text, ocr, b), Copies(text, native, Len(native)))
      ELSE Copies(text, native, a)
TextsAreCounted ==
  \A n \in 1..Len(document) : \A text \in STRING :
    Cardinality(NodesOf(n, text)) =
      IF text = "blank" THEN 0
      ELSE TextsOf(n, text, LinesPassed(n, "native"), LinesPassed(n, "ocr"))

SemanticsSoFar ==
  /\ IsFiniteSet(semantics)
  /\ \A x \in semantics : x.page \in 1..(pageNo - 1)
  /\ \A n \in 1..(pageNo - 1) : {x \in semantics : x.page = n} = Symbols(n) \cup Tables(n)

FateSoFar ==
  /\ fate # "building" => pageNo = Len(document) + 1
  /\ OnlyEmptyTablesAreRefused

GraphInvariant ==
  /\ GraphTypeOK /\ NodesAreLines /\ LinesAreNodes /\ NodesAreInOrder
  /\ AlternatesSoFar /\ AlternatesAreInOrder
  /\ OpenHeadings /\ ParentsAreEarlier /\ HeadingsNest
  /\ TextsAreCounted /\ SemanticsSoFar /\ FateSoFar

\* Every non-empty finite set of natural numbers has a least.
LEMMA LeastOf ==
  ASSUME NEW T, IsFiniteSet(T), T # {}, T \subseteq Nat
  PROVE  \E n \in T : \A m \in T : n <= m
<1> DEFINE UpTo(m) == {k \in T : k <= m}
           Family == {UpTo(m) : m \in T}
           R == StrictSubsetOrdering(T)
<1>1. IsWellFoundedOn(R, FiniteSubsetsOf(T))
  BY FS_StrictSubsetOrderingWellFounded
<1>2. Family \subseteq FiniteSubsetsOf(T)
  <2>1. \A m \in T : UpTo(m) \subseteq T /\ IsFiniteSet(UpTo(m))
    BY FS_Subset
  <2> QED  BY <2>1 DEF FiniteSubsetsOf
<1>3. Family # {}
  OBVIOUS
<1> HIDE DEF R, Family
<1>4. PICK X \in Family : \A Y \in Family : ~(<<Y, X>> \in R)
  BY <1>1, <1>2, <1>3, WFMin
<1>5. PICK n \in T : X = UpTo(n)
  BY <1>4 DEF Family
<1>6. ASSUME NEW m \in T, ~(n <= m) PROVE FALSE
  <2>1. UpTo(m) \in Family
    BY DEF Family
  <2>2. UpTo(m) \subseteq UpTo(n) /\ n \in UpTo(n) /\ n \notin UpTo(m)
    <3>1. m \in Nat /\ n \in Nat /\ m < n
      BY <1>6
    <3>2. \A k \in T : k <= m => k <= n
      BY <3>1
    <3>3. UpTo(m) \subseteq UpTo(n)
      BY <3>2
    <3>4. n \in UpTo(n) /\ n \notin UpTo(m)
      BY <3>1
    <3> QED  BY <3>3, <3>4
  <2>3. UpTo(m) \subseteq T /\ UpTo(n) \subseteq T
    OBVIOUS
  <2> HIDE DEF UpTo
  <2>4. <<UpTo(m), UpTo(n)>> \in R
    BY <2>2, <2>3 DEF R, StrictSubsetOrdering
  <2> QED  BY <1>4, <1>5, <2>1, <2>4
<1> QED  BY <1>6

LEMMA LargestOf ==
  ASSUME NEW T, T # {}, T \subseteq Nat, NEW b \in Nat, \A n \in T : n <= b
  PROVE  /\ Largest(T) \in T /\ \A n \in T : n <= Largest(T)
<1> DEFINE U == {b - n : n \in T}
<1>1. U # {} /\ U \subseteq 0..b
  <2>1. \A n \in T : b - n \in 0..b
    OBVIOUS
  <2> QED
    BY <2>1
<1>2. IsFiniteSet(U)
  <2>1. IsFiniteSet(0..b)
    BY FS_Interval
  <2> QED
    BY <1>1, <2>1, FS_Subset
<1>3. U \subseteq Nat
  BY <1>1
<1>4. PICK u \in U : \A v \in U : u <= v
  <2> HIDE DEF U
  <2> QED
    BY <1>1, <1>2, <1>3, LeastOf
<1>5. PICK n \in T : u = b - n
  BY <1>4
<1>6. \A m \in T : m <= n
  <2> SUFFICES ASSUME NEW m \in T PROVE m <= n
    OBVIOUS
  <2>1. b - m \in U
    OBVIOUS
  <2>2. b - n <= b - m
    <3> HIDE DEF U
    <3> QED
      BY <1>4, <1>5, <2>1
  <2>3. b \in Nat /\ n \in Nat /\ m \in Nat
    OBVIOUS
  <2> HIDE DEF U
  <2> QED
    BY <2>2, <2>3
<1> QED
  BY <1>6 DEF Largest

LEMMA LeastIs ==
  ASSUME NEW T, T # {}, T \subseteq Nat, IsFiniteSet(T)
  PROVE  Least(T) \in T /\ \A n \in T : Least(T) <= n
BY LeastOf DEF Least

LEMMA OneMore ==
  ASSUME NEW S, NEW s \in Seq(S), NEW e \in S
  PROVE  /\ Append(s, e) \in Seq(S) /\ Len(Append(s, e)) = Len(s) + 1
         /\ \A k \in 1..Len(s) : Append(s, e)[k] = s[k]
         /\ Append(s, e)[Len(s) + 1] = e
OBVIOUS

LEMMA CopiesAre ==
  ASSUME NEW text, NEW lines, NEW k \in Nat
  PROVE  /\ Copies(text, lines, k) \in Nat
         /\ Copies(text, lines, 0) = 0
         /\ Copies(text, lines, k + 1)
              = IF lines[k + 1].text = text THEN Copies(text, lines, k) + 1 ELSE Copies(text, lines, k)
<1> DEFINE C(m) == {i \in 1..m : lines[i].text = text}
<1>1. IsFiniteSet(C(k))
  <2>1. IsFiniteSet(1..k)
    BY FS_Interval
  <2> QED
    BY <2>1, FS_Subset
<1>2. Cardinality(C(k)) \in Nat
  BY <1>1, FS_CardinalityType
<1>3. C(0) = {}
  OBVIOUS
<1>4. Cardinality(C(0)) = 0
  BY <1>3, FS_EmptySet
<1>5. CASE lines[k + 1].text = text
  <2>1. C(k + 1) = C(k) \cup {k + 1} /\ k + 1 \notin C(k)
    BY <1>5
  <2>2. Cardinality(C(k) \cup {k + 1}) = Cardinality(C(k)) + 1
    <3> HIDE DEF C
    <3> QED
      BY <1>1, <2>1, FS_AddElement
  <2> QED
    BY <1>2, <1>4, <1>5, <2>1, <2>2 DEF Copies
<1>6. CASE lines[k + 1].text # text
  <2>1. C(k + 1) = C(k)
    BY <1>6
  <2> QED
    BY <1>2, <1>4, <1>6, <2>1 DEF Copies
<1> QED
  BY <1>5, <1>6

LEMMA DocumentIs ==
  ASSUME StructureAssumption, document \in SourceDocuments
  PROVE  /\ Len(document) \in Nat /\ DOMAIN document = 1..Len(document)
         /\ \A n \in 1..Len(document) :
              /\ document[n] \in SourcePage /\ Routed(document[n])
              /\ document[n].native \in Seq(SourceLine) /\ document[n].ocr \in Seq(SourceLine)
              /\ \A r : Lines(n, r) \in Seq(SourceLine) /\ Len(Lines(n, r)) \in Nat
<1>1. document \in Seq(SourcePage) /\ \A n \in DOMAIN document : Routed(document[n])
  BY DEF StructureAssumption
<1>2. \A n \in 1..Len(document) : document[n] \in SourcePage
  BY <1>1
<1>3. \A n \in 1..Len(document) :
        document[n].native \in Seq(SourceLine) /\ document[n].ocr \in Seq(SourceLine)
  BY <1>2 DEF SourcePage
<1>4. \A n \in 1..Len(document) : \A r : Lines(n, r) \in Seq(SourceLine)
  BY <1>3 DEF Lines
<1> QED
  BY <1>1, <1>2, <1>3, <1>4

LEMMA LineIs ==
  ASSUME StructureAssumption, document \in SourceDocuments, NEW n \in 1..Len(document),
         NEW r, NEW i \in 1..Len(Lines(n, r))
  PROVE  /\ Lines(n, r)[i] \in SourceLine /\ Lines(n, r)[i].depth \in Nat
         /\ Lines(n, r)[i].text \in STRING /\ Lines(n, r)[i].symbols \subseteq Kinds
<1>1. Lines(n, r) \in Seq(SourceLine)
  BY DocumentIs
<1>2. Lines(n, r)[i] \in SourceLine
  BY <1>1
<1> QED
  BY <1>2 DEF SourceLine

LEMMA SpanIs ==
  ASSUME NEW n, NEW s \in Canonical(n)
  PROVE  /\ s.page = n /\ s.reading \in Readings /\ s.line \in 1..Len(Lines(n, s.reading))
         /\ s = Span(n, s.reading, s.line) /\ Kept(s) /\ LineOf(s) = Lines(n, s.reading)[s.line]
BY DEF Canonical, Spans, Span, Readings, LineOf

LEMMA CanonicalSpan ==
  ASSUME NEW n, NEW r \in Readings, NEW i \in 1..Len(Lines(n, r)), Kept(Span(n, r, i))
  PROVE  /\ Span(n, r, i) \in Canonical(n)
         /\ Span(n, r, i).page = n /\ Span(n, r, i).reading = r /\ Span(n, r, i).line = i
BY DEF Canonical, Spans, Span, Readings

LEMMA DocumentStays ==
  ASSUME document' = document
  PROVE  /\ \A n, r : Lines(n, r)' = Lines(n, r) /\ Spans(n, r)' = Spans(n, r)
         /\ \A s : LineOf(s)' = LineOf(s) /\ (Kept(s)' <=> Kept(s))
         /\ \A n : FromOcr(n)' <=> FromOcr(n)
         /\ \A n : Canonical(n)' = Canonical(n) /\ Alternate(n)' = Alternate(n)
         /\ \A n : Symbols(n)' = Symbols(n) /\ Tables(n)' = Tables(n)
         /\ \A n, text, a, b : TextsOf(n, text, a, b)' = TextsOf(n, text, a, b)
<1>1. \A n, r : Lines(n, r)' = Lines(n, r)
  BY DEF Lines
<1>2. \A n, r : Spans(n, r)' = Spans(n, r)
  BY <1>1 DEF Spans
<1>3. \A s : LineOf(s)' = LineOf(s)
  BY <1>1 DEF LineOf
<1>4. \A n : FromOcr(n)' <=> FromOcr(n)
  BY DEF FromOcr
<1>5. \A s : Kept(s)' <=> Kept(s)
  BY <1>3, <1>4 DEF Kept
<1>6. \A n : Canonical(n)' = Canonical(n)
  BY <1>2, <1>5 DEF Canonical
<1>7. \A n : Alternate(n)' = Alternate(n)
  BY <1>2 DEF Alternate
<1>8. \A n : Symbols(n)' = Symbols(n)
  BY <1>2, <1>3 DEF Symbols
<1>9. \A n : Tables(n)' = Tables(n)
  BY <1>6 DEF Tables
<1>10. \A n, text, a, b : TextsOf(n, text, a, b)' = TextsOf(n, text, a, b)
  BY <1>4 DEF TextsOf
<1> QED
  BY <1>1, <1>2, <1>3, <1>4, <1>5, <1>6, <1>7, <1>8, <1>9, <1>10

LEMMA PassedIsNat ==
  ASSUME StructureAssumption, GraphTypeOK, NEW n \in 1..Len(document), NEW r \in Readings
  PROVE  LinesPassed(n, r) \in Nat /\ LinesPassed(n, r) <= Len(Lines(n, r))
<1>1. Len(Lines(n, r)) \in Nat
  BY DocumentIs DEF GraphTypeOK
<1>2. n = pageNo /\ r = reading => lineNo - 1 <= Len(Lines(n, r))
  BY DocumentIs DEF GraphTypeOK
<1> QED
  BY <1>1, <1>2 DEF LinesPassed, GraphTypeOK

LEMMA OneLinePasses ==
  ASSUME StructureAssumption, GraphTypeOK, AtLine, lineNo' = lineNo + 1,
         UNCHANGED <<document, pageNo, reading>>,
         NEW n \in 1..Len(document), NEW r \in Readings
  PROVE  LinesPassed(n, r)'
           = IF n = pageNo /\ r = reading THEN LinesPassed(n, r) + 1 ELSE LinesPassed(n, r)
<1>1. pageNo \in Nat /\ lineNo \in Nat
  BY DEF GraphTypeOK
<1> QED
  BY <1>1, DocumentStays DEF LinesPassed, Readings

\* Steps that leave the nodes and what has passed alone.
LEMMA GraphStays ==
  ASSUME document' = document, nodes' = nodes, stack' = stack,
         \A n \in 1..Len(document) : \A r \in Readings : LinesPassed(n, r)' = LinesPassed(n, r),
         StructureAssumption, GraphInvariant
  PROVE  /\ NodesAreLines' /\ LinesAreNodes' /\ NodesAreInOrder' /\ AlternatesAreInOrder'
         /\ OpenHeadings' /\ ParentsAreEarlier' /\ HeadingsNest' /\ TextsAreCounted'
<1> USE DEF GraphInvariant
<1>1. \A n \in 1..Len(document) : \A s \in Canonical(n) : Passed(s)' <=> Passed(s)
  <2> SUFFICES ASSUME NEW n \in 1..Len(document), NEW s \in Canonical(n) PROVE Passed(s)' <=> Passed(s)
    OBVIOUS
  <2>1. s.page = n /\ s.reading \in Readings
    BY SpanIs
  <2> QED
    BY <2>1 DEF Passed
<1>2. NodesAreLines'
  BY <1>1, DocumentStays DEF NodesAreLines, Blank
<1>3. LinesAreNodes'
  BY <1>1, DocumentStays DEF LinesAreNodes, Blank
<1>4. NodesAreInOrder' /\ AlternatesAreInOrder' /\ ParentsAreEarlier' /\ HeadingsNest'
  BY DEF NodesAreInOrder, AlternatesAreInOrder, ParentsAreEarlier, HeadingsNest, HeadingsBefore
<1>5. OpenHeadings'
  BY DEF OpenHeadings
<1>6. TextsAreCounted'
  <2>1. \A n, text : NodesOf(n, text)' = NodesOf(n, text)
    BY DocumentStays DEF NodesOf
  <2>2. \A n \in 1..Len(document) : \A text :
          TextsOf(n, text, LinesPassed(n, "native"), LinesPassed(n, "ocr"))'
            = TextsOf(n, text, LinesPassed(n, "native"), LinesPassed(n, "ocr"))
    BY DocumentStays DEF TextsOf, FromOcr, Readings
  <2> QED
    BY <2>1, <2>2 DEF TextsAreCounted
<1> QED
  BY <1>2, <1>3, <1>4, <1>5, <1>6

LEMMA GraphInit == StructureAssumption /\ StructureInit => GraphInvariant
<1> SUFFICES ASSUME StructureAssumption, StructureInit PROVE GraphInvariant
  OBVIOUS
<1> USE DEF StructureInit
<1>1. Len(document) \in Nat /\ \A n \in 1..Len(document) : \A r : Len(Lines(n, r)) \in Nat
  BY DocumentIs
<1>2. GraphTypeOK
  <2>1. nodes \in Seq(Node)
    OBVIOUS
  <2> QED
    BY <1>1, <2>1 DEF GraphTypeOK, Readings
<1>3. Len(nodes) = 0
  OBVIOUS
<1>4. NodesAreLines /\ NodesAreInOrder /\ AlternatesSoFar /\ ParentsAreEarlier
  BY <1>3 DEF NodesAreLines, NodesAreInOrder, AlternatesSoFar, ParentsAreEarlier
<1>5. AlternatesAreInOrder /\ HeadingsNest
  BY DEF AlternatesAreInOrder, HeadingsNest
<1>6. OpenHeadings
  BY <1>3 DEF OpenHeadings
<1>7. \A n \in 1..Len(document) : \A r \in Readings : LinesPassed(n, r) = 0
  BY <1>1 DEF LinesPassed, Readings
<1>8. LinesAreNodes
  <2> SUFFICES ASSUME NEW n \in 1..Len(document), NEW s \in Canonical(n), Passed(s) PROVE FALSE
    BY DEF LinesAreNodes
  <2>1. s.page = n /\ s.reading \in Readings /\ s.line \in Nat /\ s.line >= 1
    BY <1>1, SpanIs
  <2> QED
    BY <2>1, <1>7 DEF Passed
<1>9. TextsAreCounted
  <2> SUFFICES ASSUME NEW n \in 1..Len(document), NEW text \in STRING
               PROVE  /\ Cardinality(NodesOf(n, text)) = 0
                      /\ TextsOf(n, text, LinesPassed(n, "native"), LinesPassed(n, "ocr")) = 0
    BY DEF TextsAreCounted
  <2>1. NodesOf(n, text) = {}
    BY DEF NodesOf
  <2>2. Cardinality(NodesOf(n, text)) = 0
    BY <2>1, FS_EmptySet
  <2>3. LinesPassed(n, "native") = 0 /\ LinesPassed(n, "ocr") = 0
    BY <1>7 DEF Readings
  <2>4. \A lines : Copies(text, lines, 0) = 0
    BY CopiesAre
  <2>5. Len(document[n].native) \in Nat
    BY DocumentIs
  <2>6. Copies(text, document[n].native, Len(document[n].native)) \in Nat
    BY <2>5, CopiesAre
  <2>7. TextsOf(n, text, 0, 0) = 0
    BY <2>4, <2>6 DEF TextsOf, Excess
  <2> QED
    BY <2>2, <2>3, <2>7
<1>10. SemanticsSoFar
  BY FS_EmptySet DEF SemanticsSoFar
<1>11. FateSoFar
  BY DEF FateSoFar, OnlyEmptyTablesAreRefused
<1> QED
  BY <1>2, <1>4, <1>5, <1>6, <1>8, <1>9, <1>10, <1>11 DEF GraphInvariant

LEMMA CopiesStep ==
  ASSUME NEW text, NEW lines, NEW k \in Nat, k >= 1
  PROVE  /\ Copies(text, lines, k) \in Nat /\ Copies(text, lines, k - 1) \in Nat
         /\ Copies(text, lines, k)
              = IF lines[k].text = text THEN Copies(text, lines, k - 1) + 1
                ELSE Copies(text, lines, k - 1)
<1>1. PICK m \in Nat : k = m + 1 /\ k - 1 = m
  <2>1. k - 1 \in Nat /\ k = (k - 1) + 1
    OBVIOUS
  <2> QED
    BY <2>1
<1>2. Copies(text, lines, m) \in Nat /\ Copies(text, lines, m + 1) \in Nat
  BY CopiesAre
<1>3. Copies(text, lines, m + 1)
        = IF lines[m + 1].text = text THEN Copies(text, lines, m) + 1 ELSE Copies(text, lines, m)
  BY CopiesAre
<1> QED
  BY <1>1, <1>2, <1>3

LEMMA AtLineIs ==
  ASSUME StructureAssumption, GraphTypeOK, AtLine
  PROVE  /\ pageNo \in 1..Len(document) /\ reading \in Readings
         /\ lineNo \in 1..Len(Lines(pageNo, reading)) /\ Lines(pageNo, reading) \in Seq(SourceLine)
         /\ LinesPassed(pageNo, reading) = lineNo - 1
         /\ reading = "native" => LinesPassed(pageNo, "ocr") = 0
         /\ Here = Span(pageNo, reading, lineNo) /\ LineOf(Here) = Lines(pageNo, reading)[lineNo]
         /\ Here.page = pageNo /\ Here.reading = reading /\ Here.line = lineNo
BY DocumentIs DEF AtLine, GraphTypeOK, LinesPassed, Here, Readings, LineOf, Span

\* One line passes: the one at hand.
LEMMA PassedMoves ==
  ASSUME StructureAssumption, GraphTypeOK, AtLine, lineNo' = lineNo + 1,
         UNCHANGED <<document, pageNo, reading>>,
         NEW n \in 1..Len(document), NEW s \in Canonical(n)
  PROVE  (Passed(s)' <=> (Passed(s) \/ s = Here)) /\ (s = Here => ~Passed(s))
<1>1. /\ s.page = n /\ s.reading \in Readings /\ s.line \in Nat /\ s = Span(n, s.reading, s.line)
  BY SpanIs, DocumentIs DEF GraphTypeOK
<1>2. s = Here <=> n = pageNo /\ s.reading = reading /\ s.line = lineNo
  BY <1>1, AtLineIs
<1>3. Passed(s) <=> s.line <= LinesPassed(n, s.reading)
  BY <1>1 DEF Passed
<1>4. Passed(s)' <=> s.line <= LinesPassed(n, s.reading)'
  BY <1>1 DEF Passed
<1>5. LinesPassed(n, s.reading)
        = IF n = pageNo /\ s.reading = reading THEN lineNo - 1 ELSE LinesPassed(n, s.reading)
  BY AtLineIs
<1>6. LinesPassed(n, s.reading)'
        = IF n = pageNo /\ s.reading = reading THEN LinesPassed(n, s.reading) + 1
          ELSE LinesPassed(n, s.reading)
  BY <1>1, OneLinePasses
<1>7. LinesPassed(n, s.reading) \in Nat
  BY <1>1, PassedIsNat
<1>8. lineNo \in Nat
  BY DEF GraphTypeOK
<1> QED
  BY <1>1, <1>2, <1>3, <1>4, <1>5, <1>6, <1>7, <1>8

LEMMA ExcessIs ==
  ASSUME NEW a \in Nat, NEW b \in Nat PROVE Excess(a, b) \in Nat
BY DEF Excess

\* It is one node more of its text, and of no other, where it is kept.
LEMMA TextsMove ==
  ASSUME StructureAssumption, GraphTypeOK, AtLine, lineNo' = lineNo + 1,
         UNCHANGED <<document, pageNo, reading>>,
         NEW n \in 1..Len(document), NEW text
  PROVE  /\ TextsOf(n, text, LinesPassed(n, "native"), LinesPassed(n, "ocr")) \in Nat
         /\ TextsOf(n, text, LinesPassed(n, "native")', LinesPassed(n, "ocr")')
              = IF n = pageNo /\ LineOf(Here).text = text /\ Kept(Here)
                THEN TextsOf(n, text, LinesPassed(n, "native"), LinesPassed(n, "ocr")) + 1
                ELSE TextsOf(n, text, LinesPassed(n, "native"), LinesPassed(n, "ocr"))
<1> DEFINE native == document[n].native
           ocr == document[n].ocr
           a == LinesPassed(n, "native")
           b == LinesPassed(n, "ocr")
           most == Copies(text, native, Len(native))
<1>1. a \in Nat /\ b \in Nat
  BY PassedIsNat DEF Readings
<1>2. /\ \A k \in Nat : Copies(text, native, k) \in Nat /\ Copies(text, ocr, k) \in Nat
      /\ most \in Nat
  <2>1. \A k \in Nat : Copies(text, native, k) \in Nat /\ Copies(text, ocr, k) \in Nat
    BY CopiesAre
  <2>2. Len(native) \in Nat
    BY DocumentIs DEF GraphTypeOK
  <2> QED
    BY <2>1, <2>2
<1>3. TextsOf(n, text, a, b) \in Nat
  <2>1. Copies(text, native, a) \in Nat /\ Copies(text, ocr, b) \in Nat
    BY <1>1, <1>2
  <2>2. Excess(Copies(text, ocr, b), most) \in Nat
    BY <1>2, <2>1, ExcessIs
  <2>3. Copies(text, native, a) + Excess(Copies(text, ocr, b), most) \in Nat
    <3> HIDE DEF most, ocr, native, a, b
    <3> QED
      BY <2>1, <2>2
  <2> QED
    BY <2>1, <2>3 DEF TextsOf
<1>4. CASE n # pageNo
  <2>1. LinesPassed(n, "native")' = a /\ LinesPassed(n, "ocr")' = b
    BY <1>4, OneLinePasses DEF Readings
  <2> QED
    BY <1>3, <1>4, <2>1
<1>5. CASE n = pageNo /\ reading = "native"
  <2>1. LinesPassed(n, "native")' = lineNo /\ a = lineNo - 1 /\ LinesPassed(n, "ocr")' = b
    <3>1. LinesPassed(n, "native")' = a + 1 /\ LinesPassed(n, "ocr")' = b
      BY <1>5, OneLinePasses DEF Readings
    <3>2. a = lineNo - 1 /\ lineNo \in Nat
      BY <1>5, AtLineIs DEF GraphTypeOK
    <3> QED
      BY <3>1, <3>2
  <2>2. /\ LineOf(Here) = native[lineNo] /\ lineNo \in Nat /\ lineNo >= 1
        /\ (Kept(Here) <=> ~FromOcr(n))
    BY <1>5, AtLineIs DEF Lines, Kept, GraphTypeOK
  <2>3. /\ Copies(text, native, a) \in Nat
        /\ Copies(text, native, lineNo)
             = IF native[lineNo].text = text THEN Copies(text, native, a) + 1
               ELSE Copies(text, native, a)
    BY <2>1, <2>2, CopiesStep
  <2>4. CASE FromOcr(n)
    BY <1>3, <2>1, <2>2, <2>4 DEF TextsOf
  <2>5. CASE ~FromOcr(n) /\ document[n].route = "mixed"
    <3> DEFINE more == Excess(Copies(text, ocr, b), most)
    <3>1. more \in Nat
      <4>1. Copies(text, ocr, b) \in Nat
        BY <1>1, <1>2
      <4> QED
        BY <1>2, <4>1, ExcessIs
    <3>2. /\ TextsOf(n, text, a, b) = Copies(text, native, a) + more
          /\ TextsOf(n, text, lineNo, b) = Copies(text, native, lineNo) + more
      BY <2>5 DEF TextsOf
    <3>3. Copies(text, native, lineNo) + more
            = IF native[lineNo].text = text THEN (Copies(text, native, a) + more) + 1
              ELSE Copies(text, native, a) + more
      <4> HIDE DEF more, native, a
      <4> QED
        BY <2>3, <3>1
    <3> QED
      BY <1>3, <1>5, <2>1, <2>2, <2>5, <3>2, <3>3
  <2>6. CASE ~FromOcr(n) /\ document[n].route # "mixed"
    <3>1. /\ TextsOf(n, text, a, b) = Copies(text, native, a)
          /\ TextsOf(n, text, lineNo, b) = Copies(text, native, lineNo)
      BY <2>6 DEF TextsOf
    <3> QED
      BY <1>3, <1>5, <2>1, <2>2, <2>3, <2>6, <3>1
  <2> QED
    BY <2>4, <2>5, <2>6
<1>6. CASE n = pageNo /\ reading = "ocr"
  <2>1. LinesPassed(n, "ocr")' = lineNo /\ b = lineNo - 1 /\ LinesPassed(n, "native")' = a
    <3>1. LinesPassed(n, "ocr")' = b + 1 /\ LinesPassed(n, "native")' = a
      BY <1>6, OneLinePasses DEF Readings
    <3>2. b = lineNo - 1 /\ lineNo \in Nat
      BY <1>6, AtLineIs DEF GraphTypeOK
    <3> QED
      BY <3>1, <3>2
  <2>2. /\ LineOf(Here) = ocr[lineNo] /\ lineNo \in Nat /\ lineNo >= 1
        /\ Here.line = lineNo /\ Here.page = n /\ Here.reading = "ocr"
    BY <1>6, AtLineIs DEF Lines, GraphTypeOK
  <2>3. /\ Copies(text, ocr, b) \in Nat
        /\ Copies(text, ocr, lineNo)
             = IF ocr[lineNo].text = text THEN Copies(text, ocr, b) + 1 ELSE Copies(text, ocr, b)
    BY <2>1, <2>2, CopiesStep
  <2>4. CASE FromOcr(n)
    <3>1. Kept(Here)
      BY <2>2, <2>4 DEF Kept
    <3>2. /\ TextsOf(n, text, a, b) = Copies(text, ocr, b)
          /\ TextsOf(n, text, a, lineNo) = Copies(text, ocr, lineNo)
      BY <2>4 DEF TextsOf
    <3> QED
      BY <1>3, <1>6, <2>1, <2>2, <2>3, <3>1, <3>2
  <2>5. CASE ~FromOcr(n) /\ document[n].route = "mixed"
    <3> DEFINE all == Copies(text, native, a)
               before == Copies(text, ocr, b)
               after == Copies(text, ocr, lineNo)
    <3>1. all \in Nat
      BY <1>1, <1>2
    <3>2. ocr[lineNo].text = text => (Kept(Here) <=> after > most)
      BY <2>2, <2>5 DEF Kept
    <3>3. /\ TextsOf(n, text, a, b) = all + Excess(before, most)
          /\ TextsOf(n, text, a, lineNo) = all + Excess(after, most)
      BY <2>5 DEF TextsOf
    <3>4. before \in Nat /\ after = IF ocr[lineNo].text = text THEN before + 1 ELSE before
      BY <2>3
    <3>5. most \in Nat
      BY <1>2
    <3> HIDE DEF all, before, after, most
    <3>6. CASE ocr[lineNo].text # text
      BY <1>3, <1>6, <2>1, <2>2, <3>3, <3>4, <3>6
    <3>7. CASE ocr[lineNo].text = text /\ after > most
      <4>1. Excess(after, most) = Excess(before, most) + 1 /\ Excess(before, most) \in Nat
        BY <3>4, <3>5, <3>7 DEF Excess
      <4>2. all + Excess(after, most) = (all + Excess(before, most)) + 1
        BY <3>1, <4>1
      <4> QED
        BY <1>3, <1>6, <2>1, <2>2, <3>2, <3>3, <3>7, <4>2
    <3>8. CASE ocr[lineNo].text = text /\ ~(after > most)
      <4>1. Excess(after, most) = Excess(before, most)
        BY <3>4, <3>5, <3>8 DEF Excess
      <4> QED
        BY <1>3, <1>6, <2>1, <2>2, <3>2, <3>3, <3>8, <4>1
    <3> QED
      BY <3>6, <3>7, <3>8
  <2>6. CASE ~FromOcr(n) /\ document[n].route # "mixed"
    <3>1. ~Kept(Here)
      BY <2>2, <2>6 DEF Kept
    <3>2. TextsOf(n, text, a, b) = TextsOf(n, text, a, lineNo)
      BY <2>6 DEF TextsOf
    <3> QED
      BY <1>3, <1>6, <2>1, <3>1, <3>2
  <2> QED
    BY <2>4, <2>5, <2>6
<1> QED
  BY <1>4, <1>5, <1>6, AtLineIs DEF Readings

LEMMA PassLineKeeps ==
  ASSUME StructureAssumption, GraphInvariant, PassLine PROVE GraphInvariant'
<1> USE DEF PassLine
<1>1. GraphTypeOK /\ GraphTypeOK'
  <2>1. pageNo <= Len(document) => lineNo + 1 <= Len(Lines(pageNo, reading)) + 1
    BY DocumentIs DEF AtLine, GraphInvariant, GraphTypeOK
  <2> QED
    BY <2>1, DocumentIs DEF AtLine, GraphInvariant, GraphTypeOK, Lines
<1>s. \A n \in 1..Len(document) : \A s \in Canonical(n) : Passed(s)' <=> Passed(s)
  BY <1>1, PassedMoves, SpanIs
<1>2. NodesAreLines'
  BY <1>s, DocumentStays DEF GraphInvariant, NodesAreLines, Blank
<1>3. LinesAreNodes'
  BY <1>s, DocumentStays DEF GraphInvariant, LinesAreNodes, Blank
<1>4. NodesAreInOrder' /\ AlternatesAreInOrder' /\ ParentsAreEarlier' /\ HeadingsNest'
  BY DEF GraphInvariant, NodesAreInOrder, AlternatesAreInOrder, ParentsAreEarlier, HeadingsNest,
     HeadingsBefore
<1>5. OpenHeadings' /\ AlternatesSoFar'
  BY DEF GraphInvariant, OpenHeadings, AlternatesSoFar
<1>6. TextsAreCounted'
  <2>1. \A n, text : NodesOf(n, text)' = NodesOf(n, text)
    BY DocumentStays DEF NodesOf
  <2>2. \A n \in 1..Len(document) : \A text :
          TextsOf(n, text, LinesPassed(n, "native"), LinesPassed(n, "ocr"))'
            = TextsOf(n, text, LinesPassed(n, "native"), LinesPassed(n, "ocr"))
    <3> SUFFICES ASSUME NEW n \in 1..Len(document), NEW text
                 PROVE TextsOf(n, text, LinesPassed(n, "native"), LinesPassed(n, "ocr"))'
                         = TextsOf(n, text, LinesPassed(n, "native"), LinesPassed(n, "ocr"))
      OBVIOUS
    <3>1. TextsOf(n, text, LinesPassed(n, "native")', LinesPassed(n, "ocr")')
            = TextsOf(n, text, LinesPassed(n, "native"), LinesPassed(n, "ocr"))
      BY <1>1, TextsMove
    <3> QED
      BY <3>1 DEF TextsOf, FromOcr
  <2> QED
    BY <2>1, <2>2 DEF GraphInvariant, TextsAreCounted
<1>7. SemanticsSoFar' /\ FateSoFar'
  BY DocumentStays DEF GraphInvariant, SemanticsSoFar, FateSoFar, OnlyEmptyTablesAreRefused, AtLine
<1> QED
  BY <1>1, <1>2, <1>3, <1>4, <1>5, <1>6, <1>7 DEF GraphInvariant

LEMMA ParentIs ==
  ASSUME GraphTypeOK, OpenHeadings, NEW depth \in Nat
  PROVE  LET above == HeadingsBefore(Len(nodes) + 1, depth)
         IN  /\ Parent(depth) = IF above = {} THEN 0 ELSE Largest(above)
             /\ Parent(depth) \in 0..Len(nodes)
<1> DEFINE above == HeadingsBefore(Len(nodes) + 1, depth)
           open == {d \in DOMAIN stack : depth = 0 \/ d < depth}
<1>0. Len(nodes) \in Nat /\ \A j \in 1..Len(nodes) : nodes[j].depth \in Nat
  <2>1. \A j \in 1..Len(nodes) : nodes[j] \in Node
    BY DEF GraphTypeOK
  <2> QED
    BY <2>1 DEF GraphTypeOK, Node
<1>a. above = {j \in 1..Len(nodes) : nodes[j].depth > 0 /\ (depth > 0 => nodes[j].depth < depth)}
  BY <1>0 DEF HeadingsBefore
<1> HIDE DEF above
<1>1. CASE open = {}
  <2>1. above = {}
    <3> SUFFICES ASSUME NEW j \in above PROVE FALSE
      OBVIOUS
    <3>1. j \in 1..Len(nodes) /\ nodes[j].depth > 0 /\ (depth > 0 => nodes[j].depth < depth)
      BY <1>a
    <3>2. PICK d \in DOMAIN stack : d <= nodes[j].depth
      BY <3>1 DEF OpenHeadings
    <3>3. d \in Nat /\ nodes[j].depth \in Nat
      BY <1>0, <3>1 DEF OpenHeadings
    <3>4. depth = 0 \/ d < depth
      BY <3>1, <3>2, <3>3
    <3> QED
      BY <1>1, <3>4
  <2> QED
    BY <1>0, <1>1, <2>1 DEF Parent, above
<1>2. CASE open # {}
  <2>1. Largest(open) \in open /\ \A d \in open : d <= Largest(open)
    <3>1. PICK b \in Nat : \A d \in DOMAIN stack : d \in Nat /\ d > 0 /\ d <= b
      BY DEF OpenHeadings
    <3>2. open \subseteq Nat /\ \A d \in open : d <= b
      BY <3>1
    <3> QED
      BY <1>2, <3>2, LargestOf
  <2> DEFINE p == stack[Largest(open)]
  <2>2. Parent(depth) = p
    BY <1>2 DEF Parent
  <2>3. p \in 1..Len(nodes) /\ nodes[p].depth = Largest(open) /\ Largest(open) > 0
    BY <2>1 DEF OpenHeadings
  <2>4. p \in above
    BY <1>a, <2>1, <2>3
  <2>5. \A j \in above : j <= p
    <3> SUFFICES ASSUME NEW j \in above PROVE j <= p
      OBVIOUS
    <3>0. j \in 1..Len(nodes) /\ nodes[j].depth > 0 /\ (depth > 0 => nodes[j].depth < depth)
      BY <1>a
    <3>1. PICK d \in DOMAIN stack : d <= nodes[j].depth /\ j <= stack[d]
      BY <3>0 DEF OpenHeadings
    <3>2. d \in open
      <4>1. d \in Nat /\ nodes[j].depth \in Nat
        BY <1>0, <3>0, <3>1 DEF OpenHeadings
      <4> QED
        BY <3>0, <3>1, <4>1
    <3>3. d <= Largest(open) /\ d \in Nat /\ Largest(open) \in Nat /\ Largest(open) \in DOMAIN stack
      BY <2>1, <3>2 DEF OpenHeadings
    <3>4. stack[d] <= p /\ stack[d] \in Nat
      <4>1. d < Largest(open) => stack[d] < p
        BY <3>1, <3>3 DEF OpenHeadings
      <4>2. stack[d] \in Nat /\ p \in Nat
        BY <3>1, <2>3, <1>0 DEF OpenHeadings
      <4> QED
        BY <3>3, <4>1, <4>2
    <3> HIDE DEF p
    <3> QED
      BY <1>0, <2>3, <3>0, <3>1, <3>4
  <2>6. Largest(above) = p
    <3>1. Largest(above) \in above /\ \A j \in above : j <= Largest(above)
      <4>1. above \subseteq Nat /\ above # {} /\ \A j \in above : j <= Len(nodes)
        BY <1>0, <1>a, <2>4
      <4> QED
        BY <1>0, <4>1, LargestOf
    <3>2. p <= Largest(above) /\ Largest(above) <= p
      BY <2>4, <2>5, <3>1
    <3>3. p \in Nat /\ Largest(above) \in Nat
      BY <1>0, <1>a, <2>3, <3>1
    <3> QED
      BY <3>2, <3>3
  <2> QED
    BY <1>0, <2>2, <2>3, <2>4, <2>6 DEF above
<1> QED
  BY <1>1, <1>2 DEF above

LEMMA AlternateIs ==
  ASSUME StructureAssumption, GraphTypeOK, pageNo \in 1..Len(document), NEW l
  PROVE  /\ AlternateOf(l) \in Nat
         /\ AlternateOf(l) # 0 =>
              /\ document[pageNo].route = "suspect" /\ AlternateOf(l) >= cursor
              /\ AlternateOf(l) <= Len(document[pageNo].native)
<1> DEFINE matches == {i \in 1..Len(document[pageNo].native) :
                         i >= cursor /\ document[pageNo].native[i].text = l.text}
<1>1. Len(document[pageNo].native) \in Nat
  BY DocumentIs DEF GraphTypeOK
<1>2. CASE document[pageNo].route # "suspect" \/ matches = {}
  BY <1>2 DEF AlternateOf
<1>3. CASE document[pageNo].route = "suspect" /\ matches # {}
  <2>1. IsFiniteSet(matches) /\ matches \subseteq Nat
    <3>1. IsFiniteSet(1..Len(document[pageNo].native))
      <4>1. \A k \in Nat : IsFiniteSet(1..k)
        BY FS_Interval
      <4> QED
        BY <1>1, <4>1
    <3>2. matches \subseteq 1..Len(document[pageNo].native)
      OBVIOUS
    <3> QED
      BY <1>1, <3>1, <3>2, FS_Subset
  <2>2. Least(matches) \in matches
    <3> HIDE DEF matches
    <3> QED
      BY <1>3, <2>1, LeastIs
  <2>3. AlternateOf(l) = Least(matches)
    BY <1>3 DEF AlternateOf
  <2> QED
    BY <1>1, <1>3, <2>2, <2>3
<1> QED
  BY <1>2, <1>3

\* The node of the line at hand, and what becomes of the headings.
LEMMA OneNodeMore ==
  ASSUME StructureAssumption, GraphInvariant, AddLine, ~Blank(LineOf(Here))
  PROVE  LET l == LineOf(Here)
             id == Len(nodes) + 1
         IN  /\ Len(nodes) \in Nat /\ nodes' \in Seq(Node) /\ Len(nodes') = id
             /\ \A k \in 1..Len(nodes) : nodes'[k] = nodes[k]
             /\ nodes'[id].span = Here /\ nodes'[id].depth = Depth(l) /\ Depth(l) \in Nat
             /\ nodes'[id].parent = Parent(Depth(l)) /\ nodes'[id].alternate = AlternateOf(l)
<1> USE DEF GraphInvariant, AddLine
<1> DEFINE l == LineOf(Here)
           node == [span |-> Here, depth |-> Depth(l), parent |-> Parent(Depth(l)),
                    alternate |-> AlternateOf(l), ready |-> document[pageNo].state = "ready"]
<1>1. /\ pageNo \in 1..Len(document) /\ reading \in Readings /\ lineNo \in Nat
      /\ lineNo \in 1..Len(Lines(pageNo, reading)) /\ l = Lines(pageNo, reading)[lineNo]
      /\ Here = Span(pageNo, reading, lineNo)
  BY AtLineIs DEF GraphTypeOK
<1>2. Depth(l) \in Nat
  BY <1>1, LineIs DEF Depth, GraphTypeOK
<1>3. Parent(Depth(l)) \in Nat
  <2>1. Parent(Depth(l)) \in 0..Len(nodes)
    BY <1>2, ParentIs
  <2> QED
    BY <2>1
<1>4. AlternateOf(l) \in Nat
  BY <1>1, AlternateIs
<1>5. Here \in Spot
  <2>1. pageNo \in Nat
    BY DEF GraphTypeOK
  <2> QED
    BY <1>1, <2>1 DEF Spot, Span
<1>6. node \in Node
  BY <1>2, <1>3, <1>4, <1>5 DEF Node
<1>7. nodes' = Append(nodes, node) /\ nodes \in Seq(Node)
  BY DEF GraphTypeOK
<1>8. /\ node.span = Here /\ node.depth = Depth(l) /\ node.parent = Parent(Depth(l))
      /\ node.alternate = AlternateOf(l)
  OBVIOUS
<1> HIDE DEF node
<1>9. /\ nodes' \in Seq(Node) /\ Len(nodes') = Len(nodes) + 1 /\ Len(nodes) \in Nat
      /\ \A k \in 1..Len(nodes) : nodes'[k] = nodes[k]
      /\ nodes'[Len(nodes) + 1] = node
  BY <1>6, <1>7, OneMore
<1> QED
  BY <1>2, <1>8, <1>9

LEMMA HeadingsKeep ==
  ASSUME StructureAssumption, GraphInvariant, AddLine, ~Blank(LineOf(Here))
  PROVE  OpenHeadings' /\ ParentsAreEarlier' /\ HeadingsNest'
<1> DEFINE l == LineOf(Here)
           id == Len(nodes) + 1
           depth == Depth(l)
<1>1. /\ Len(nodes) \in Nat /\ Len(nodes') = id /\ nodes' \in Seq(Node)
      /\ \A k \in 1..Len(nodes) : nodes'[k] = nodes[k]
      /\ nodes'[id].depth = depth /\ depth \in Nat /\ nodes'[id].parent = Parent(depth)
  BY OneNodeMore
<1>2. \A k \in 1..Len(nodes) : nodes[k].depth \in Nat /\ nodes[k].parent \in Nat
  <2>1. \A k \in 1..Len(nodes) : nodes[k] \in Node
    BY DEF GraphInvariant, GraphTypeOK
  <2> QED
    BY <2>1 DEF Node
<1>3. stack' = IF depth = 0 THEN stack ELSE Push(depth, id)
  BY DEF AddLine
<1>4. nodes \in Seq(Node) /\ OpenHeadings /\ GraphTypeOK /\ ParentsAreEarlier /\ HeadingsNest
  BY DEF GraphInvariant, GraphTypeOK
<1> DEFINE above == HeadingsBefore(id, depth)
<1>5. /\ Parent(depth) = IF above = {} THEN 0 ELSE Largest(above)
      /\ Parent(depth) \in 0..Len(nodes)
  BY <1>1, <1>4, ParentIs
<1> HIDE DEF l, depth
<1>6. ParentsAreEarlier'
  <2> SUFFICES ASSUME NEW i \in 1..id PROVE nodes'[i].parent < i
    BY <1>1 DEF ParentsAreEarlier
  <2>1. CASE i = id
    BY <1>1, <1>5, <2>1
  <2>2. CASE i # id
    <3>1. i \in 1..Len(nodes)
      BY <1>1, <2>2
    <3> QED
      BY <1>1, <1>4, <3>1 DEF ParentsAreEarlier
  <2> QED
    BY <2>1, <2>2
<1>7. HeadingsNest'
  <2> DEFINE Before(i) == HeadingsBefore(i, nodes[i].depth)
             After(i) == {j \in 1..(i - 1) :
                            nodes'[j].depth > 0 /\ (nodes'[i].depth > 0 => nodes'[j].depth < nodes'[i].depth)}
  <2>a. \A i \in 1..id : HeadingsBefore(i, nodes[i].depth)' = After(i)
    BY DEF HeadingsBefore
  <2>b. DOMAIN nodes' = 1..id
    BY <1>1
  <2> SUFFICES ASSUME NEW i \in 1..id
               PROVE  nodes'[i].parent = IF After(i) = {} THEN 0 ELSE Largest(After(i))
    <3> HIDE DEF After, id
    <3> QED
      BY <2>a, <2>b DEF HeadingsNest
  <2>1. CASE i = id
    <3>1. After(i) = above
      BY <1>1, <2>1 DEF HeadingsBefore
    <3> QED
      BY <1>1, <1>5, <2>1, <3>1
  <2>2. CASE i # id
    <3>1. i \in 1..Len(nodes) /\ \A j \in 1..(i - 1) : j \in 1..Len(nodes)
      BY <1>1, <2>2
    <3>2. nodes'[i] = nodes[i] /\ \A j \in 1..(i - 1) : nodes'[j] = nodes[j]
      BY <1>1, <3>1
    <3>3. After(i) = Before(i)
      BY <3>2 DEF HeadingsBefore
    <3>4. i \in DOMAIN nodes
      BY <1>4, <3>1
    <3>5. nodes[i].parent = IF Before(i) = {} THEN 0 ELSE Largest(Before(i))
      BY <1>4, <3>4 DEF HeadingsNest
    <3> HIDE DEF Before, After
    <3> QED
      BY <3>2, <3>3, <3>5
  <2> QED
    BY <2>1, <2>2
<1>8. OpenHeadings'
  <2>1. CASE depth = 0
    <3>1. stack' = stack
      BY <1>3, <2>1
    <3>2. \A d \in DOMAIN stack : stack[d] \in 1..Len(nodes) /\ nodes[stack[d]].depth = d
      BY <1>4 DEF OpenHeadings
    <3>3. \A d \in DOMAIN stack : stack[d] \in 1..id /\ nodes'[stack[d]].depth = d
      BY <1>1, <3>2
    <3>4. \A j \in 1..id : nodes'[j].depth > 0 =>
            \E d \in DOMAIN stack : d <= nodes'[j].depth /\ j <= stack[d]
      <4> SUFFICES ASSUME NEW j \in 1..id, nodes'[j].depth > 0
                   PROVE \E d \in DOMAIN stack : d <= nodes'[j].depth /\ j <= stack[d]
        OBVIOUS
      <4>1. j # id
        BY <1>1, <2>1
      <4>2. j \in 1..Len(nodes)
        BY <1>1, <4>1
      <4> QED
        BY <1>1, <1>4, <4>2 DEF OpenHeadings
    <3> QED
      BY <1>1, <1>4, <3>1, <3>3, <3>4 DEF OpenHeadings
  <2>2. CASE depth > 0
    <3>1. /\ DOMAIN stack' = {e \in DOMAIN stack : e < depth} \cup {depth}
          /\ stack'[depth] = id
          /\ \A d \in DOMAIN stack : d < depth /\ d # depth => stack'[d] = stack[d]
      BY <1>3, <2>2 DEF Push
    <3>2. /\ \A d \in DOMAIN stack : d \in Nat /\ d > 0
          /\ \A d \in DOMAIN stack : stack[d] \in 1..Len(nodes) /\ nodes[stack[d]].depth = d
          /\ \A d, e \in DOMAIN stack : d < e => stack[d] < stack[e]
          /\ \A j \in 1..Len(nodes) :
               nodes[j].depth > 0 => \E d \in DOMAIN stack : d <= nodes[j].depth /\ j <= stack[d]
      BY <1>4 DEF OpenHeadings
    <3>3. \A d \in DOMAIN stack' : d = depth \/ (d \in DOMAIN stack /\ d < depth /\ stack'[d] = stack[d])
      BY <1>1, <3>1, <3>2
    <3>4. \A d \in DOMAIN stack' : d \in Nat /\ d > 0 /\ d <= depth
      BY <1>1, <2>2, <3>2, <3>3
    <3>5. \A d \in DOMAIN stack' : stack'[d] \in 1..id /\ nodes'[stack'[d]].depth = d
      <4> SUFFICES ASSUME NEW d \in DOMAIN stack'
                   PROVE stack'[d] \in 1..id /\ nodes'[stack'[d]].depth = d
        OBVIOUS
      <4>1. CASE d = depth
        BY <1>1, <3>1, <4>1
      <4>2. CASE d # depth
        <5>1. stack'[d] = stack[d] /\ stack[d] \in 1..Len(nodes) /\ nodes[stack[d]].depth = d
          BY <3>2, <3>3, <4>2
        <5> QED
          BY <1>1, <5>1
      <4> QED
        BY <4>1, <4>2
    <3>6. \A d, e \in DOMAIN stack' : d < e => stack'[d] < stack'[e]
      <4> SUFFICES ASSUME NEW d \in DOMAIN stack', NEW e \in DOMAIN stack', d < e
                   PROVE stack'[d] < stack'[e]
        OBVIOUS
      <4>1. d # depth /\ d \in DOMAIN stack /\ stack'[d] = stack[d]
        BY <1>1, <3>3, <3>4
      <4>2. CASE e = depth
        BY <1>1, <3>1, <3>2, <4>1, <4>2
      <4>3. CASE e # depth
        BY <3>2, <3>3, <4>1, <4>3
      <4> QED
        BY <4>2, <4>3
    <3>7. \A j \in 1..id : nodes'[j].depth > 0 =>
            \E d \in DOMAIN stack' : d <= nodes'[j].depth /\ j <= stack'[d]
      <4> SUFFICES ASSUME NEW j \in 1..id, nodes'[j].depth > 0
                   PROVE \E d \in DOMAIN stack' : d <= nodes'[j].depth /\ j <= stack'[d]
        OBVIOUS
      <4>0. depth \in DOMAIN stack'
        BY <3>1
      <4>1. CASE j = id
        BY <1>1, <3>1, <4>0, <4>1
      <4>2. CASE j # id
        <5>1. j \in 1..Len(nodes) /\ nodes'[j] = nodes[j]
          BY <1>1, <4>2
        <5>2. PICK d \in DOMAIN stack : d <= nodes[j].depth /\ j <= stack[d]
          BY <3>2, <5>1
        <5>3. CASE d < depth
          BY <3>1, <3>2, <5>1, <5>2, <5>3
        <5>4. CASE ~(d < depth)
          <6>1. depth <= nodes'[j].depth
            BY <1>1, <1>2, <3>2, <5>1, <5>2, <5>4
          <6>2. j <= stack'[depth]
            BY <1>1, <3>1, <5>1
          <6> QED
            BY <4>0, <6>1, <6>2
        <5> QED
          BY <5>3, <5>4
      <4> QED
        BY <4>1, <4>2
    <3> QED
      BY <1>1, <3>4, <3>5, <3>6, <3>7 DEF OpenHeadings
  <2> QED
    BY <1>1, <2>1, <2>2
<1> QED
  BY <1>6, <1>7, <1>8

LEMMA NodesKeep ==
  ASSUME StructureAssumption, GraphInvariant, AddLine, ~Blank(LineOf(Here))
  PROVE  /\ NodesAreLines' /\ LinesAreNodes' /\ NodesAreInOrder'
         /\ AlternatesSoFar' /\ AlternatesAreInOrder' /\ TextsAreCounted'
<1> DEFINE l == LineOf(Here)
           id == Len(nodes) + 1
           old == 1..Len(nodes)
<1>1. /\ Len(nodes) \in Nat /\ Len(nodes') = id /\ nodes' \in Seq(Node)
      /\ \A k \in old : nodes'[k] = nodes[k]
      /\ nodes'[id].span = Here /\ nodes'[id].alternate = AlternateOf(l)
  BY OneNodeMore
<1>2. /\ GraphTypeOK /\ AtLine /\ lineNo' = lineNo + 1 /\ Kept(Here) /\ nodes \in Seq(Node)
      /\ document' = document /\ pageNo' = pageNo /\ reading' = reading
      /\ cursor' = IF AlternateOf(l) = 0 THEN cursor ELSE AlternateOf(l) + 1
  BY DEF GraphInvariant, AddLine, GraphTypeOK
<1>3. /\ pageNo \in 1..Len(document) /\ reading \in Readings /\ lineNo \in Nat
      /\ Here.page = pageNo /\ Here.reading = reading /\ Here.line = lineNo
      /\ LinesPassed(pageNo, reading) = lineNo - 1
      /\ reading = "native" => LinesPassed(pageNo, "ocr") = 0
      /\ Here \in Canonical(pageNo)
  <2>1. /\ pageNo \in 1..Len(document) /\ reading \in Readings
        /\ lineNo \in 1..Len(Lines(pageNo, reading)) /\ Here = Span(pageNo, reading, lineNo)
    BY <1>2, AtLineIs
  <2>2. Here \in Canonical(pageNo)
    BY <1>2, <2>1, CanonicalSpan
  <2> QED
    BY <1>2, <2>2, AtLineIs DEF GraphTypeOK
<1>4. \A n \in 1..Len(document) : \A s \in Canonical(n) :
        (Passed(s)' <=> (Passed(s) \/ s = Here)) /\ (s = Here => ~Passed(s))
  BY <1>2, PassedMoves
<1>5. \A i \in old :
        /\ nodes[i].span.page \in 1..Len(document) /\ nodes[i].span \in Canonical(nodes[i].span.page)
        /\ ~Blank(LineOf(nodes[i].span)) /\ Passed(nodes[i].span)
  BY DEF GraphInvariant, NodesAreLines
<1>6. \A i \in 1..id : i = id \/ (i \in old /\ i < id)
  BY <1>1
<1>7. /\ \A s : LineOf(s)' = LineOf(s) /\ (Blank(LineOf(s))' <=> Blank(LineOf(s)))
      /\ \A n : Canonical(n)' = Canonical(n)
  BY <1>2, DocumentStays DEF Blank
<1>8. DOMAIN nodes = old /\ DOMAIN nodes' = 1..id
  BY <1>1, <1>2
<1>9. NodesAreLines'
  <2>1. \A i \in 1..id : \A s : s = nodes'[i].span =>
          s.page \in 1..Len(document) /\ s \in Canonical(s.page) /\ ~Blank(LineOf(s)) /\ Passed(s)'
    <3> SUFFICES ASSUME NEW i \in 1..id, NEW s, s = nodes'[i].span
                 PROVE  /\ s.page \in 1..Len(document) /\ s \in Canonical(s.page)
                        /\ ~Blank(LineOf(s)) /\ Passed(s)'
      OBVIOUS
    <3>1. CASE i = id
      BY <1>1, <1>3, <1>4, <3>1
    <3>2. CASE i \in old
      <4>1. s = nodes[i].span
        BY <1>1, <3>2
      <4> QED
        BY <1>4, <1>5, <3>2, <4>1
    <3> QED
      BY <1>6, <3>1, <3>2
  <2> QED
    BY <1>1, <1>2, <1>7, <2>1 DEF NodesAreLines, Passed
<1>10. LinesAreNodes'
  <2> SUFFICES ASSUME NEW n \in 1..Len(document), NEW s \in Canonical(n), ~Blank(LineOf(s)), Passed(s)'
               PROVE  \E i \in 1..id : nodes'[i].span = s
    BY <1>1, <1>2, <1>7 DEF LinesAreNodes
  <2>1. CASE s = Here
    BY <1>1, <2>1
  <2>2. CASE s # Here
    <3>1. Passed(s)
      BY <1>4, <2>2
    <3>2. PICK i \in old : nodes[i].span = s
      BY <3>1 DEF GraphInvariant, LinesAreNodes
    <3> QED
      BY <1>1, <3>2
  <2> QED
    BY <2>1, <2>2
\* A line passed on this page is before the line at hand.
<1>11. \A i \in old : /\ nodes[i].span.page <= pageNo
                      /\ nodes[i].span.page = pageNo => Precedes(nodes[i].span, Here)
  <2> SUFFICES ASSUME NEW i \in old
               PROVE  /\ nodes[i].span.page <= pageNo
                      /\ nodes[i].span.page = pageNo => Precedes(nodes[i].span, Here)
    OBVIOUS
  <2> DEFINE s == nodes[i].span
  <2>1. /\ s.page \in 1..Len(document) /\ s.reading \in Readings
        /\ s.line \in 1..Len(Lines(s.page, s.reading))
    BY <1>5, SpanIs
  <2>2. s.line \in Nat /\ s.line >= 1
    BY <1>2, <2>1, DocumentIs DEF GraphTypeOK
  <2>3. s.line <= LinesPassed(s.page, s.reading)
    BY <1>5 DEF Passed
  <2>4. s.page \in Nat /\ pageNo \in Nat
    <3>1. Len(document) \in Nat
      BY <1>2, DocumentIs DEF GraphTypeOK
    <3> QED
      BY <1>3, <2>1, <3>1
  <2>5. s.page > pageNo => LinesPassed(s.page, s.reading) = 0
    BY <2>4 DEF LinesPassed
  <2>6. s.page <= pageNo
    BY <2>2, <2>3, <2>4, <2>5
  <2>7. ASSUME s.page = pageNo PROVE Precedes(s, Here)
    <3>1. CASE s.reading = reading
      BY <1>3, <2>2, <2>3, <2>7, <3>1 DEF Precedes
    <3>2. CASE s.reading # reading
      BY <1>3, <2>1, <2>2, <2>3, <2>7, <3>2 DEF Precedes, Readings
    <3> QED
      BY <3>1, <3>2
  <2> QED
    BY <2>6, <2>7
<1>12. NodesAreInOrder'
  <2> SUFFICES ASSUME NEW i \in 1..id, NEW j \in 1..id, i < j
               PROVE  /\ nodes'[i].span.page <= nodes'[j].span.page
                      /\ nodes'[i].span.page = nodes'[j].span.page
                           => Precedes(nodes'[i].span, nodes'[j].span)
    BY <1>1 DEF NodesAreInOrder, Precedes
  <2>1. i \in old /\ nodes'[i] = nodes[i]
    BY <1>1
  <2>2. CASE j = id
    BY <1>1, <1>3, <1>11, <2>1, <2>2
  <2>3. CASE j \in old
    BY <1>1, <2>1, <2>3 DEF GraphInvariant, NodesAreInOrder
  <2> QED
    BY <1>6, <2>2, <2>3
<1>13. /\ AlternateOf(l) \in Nat
       /\ AlternateOf(l) # 0 => /\ document[pageNo].route = "suspect" /\ AlternateOf(l) >= cursor
                                /\ AlternateOf(l) <= Len(document[pageNo].native)
  BY <1>2, <1>3, AlternateIs
<1>14. \A i \in old : nodes[i].alternate \in Nat
  <2>1. \A i \in old : nodes[i] \in Node
    BY <1>2
  <2> QED
    BY <2>1 DEF Node
<1>15. cursor \in Nat
  BY <1>2 DEF GraphTypeOK
<1>16. AlternatesSoFar'
  <2> SUFFICES ASSUME NEW i \in 1..id, nodes'[i].alternate # 0
               PROVE  /\ document[nodes'[i].span.page].route = "suspect"
                      /\ nodes'[i].alternate <= Len(document[nodes'[i].span.page].native)
                      /\ nodes'[i].span.page = pageNo => nodes'[i].alternate < cursor'
    BY <1>1, <1>2 DEF AlternatesSoFar
  <2>1. CASE i = id
    BY <1>1, <1>2, <1>3, <1>13, <2>1
  <2>2. CASE i \in old
    <3>1. nodes'[i] = nodes[i]
      BY <1>1, <2>2
    <3>2. /\ document[nodes[i].span.page].route = "suspect"
          /\ nodes[i].alternate <= Len(document[nodes[i].span.page].native)
          /\ nodes[i].span.page = pageNo => nodes[i].alternate < cursor
      BY <2>2, <3>1 DEF GraphInvariant, AlternatesSoFar
    <3>3. nodes[i].alternate < cursor => nodes[i].alternate < cursor'
      <4>1. nodes[i].alternate \in Nat
        BY <1>14, <2>2
      <4> HIDE DEF l
      <4> QED
        BY <1>2, <1>13, <1>15, <4>1
    <3> QED
      BY <3>1, <3>2, <3>3
  <2> QED
    BY <1>6, <2>1, <2>2
<1>17. AlternatesAreInOrder'
  <2> SUFFICES ASSUME NEW i \in 1..id, NEW j \in 1..id, i < j,
                      nodes'[i].span.page = nodes'[j].span.page,
                      nodes'[i].alternate # 0, nodes'[j].alternate # 0
               PROVE  nodes'[i].alternate < nodes'[j].alternate
    BY <1>8 DEF AlternatesAreInOrder
  <2>1. i \in old /\ nodes'[i] = nodes[i]
    BY <1>1
  <2>2. CASE j = id
    <3>1. nodes[i].alternate < cursor /\ nodes[i].alternate \in Nat
      BY <1>1, <1>3, <1>14, <2>1, <2>2 DEF GraphInvariant, AlternatesSoFar
    <3>2. nodes'[j].alternate = AlternateOf(l) /\ AlternateOf(l) >= cursor
      BY <1>1, <1>13, <2>2
    <3> HIDE DEF l
    <3> QED
      BY <1>13, <1>15, <2>1, <3>1, <3>2
  <2>3. CASE j \in old
    <3>1. i \in DOMAIN nodes /\ j \in DOMAIN nodes /\ nodes'[j] = nodes[j]
      BY <1>1, <1>8, <2>1, <2>3
    <3> QED
      BY <2>1, <3>1 DEF GraphInvariant, AlternatesAreInOrder
  <2> QED
    BY <1>6, <2>2, <2>3
<1>18. TextsAreCounted'
  <2> SUFFICES ASSUME NEW n \in 1..Len(document), NEW text \in STRING
               PROVE  Cardinality(NodesOf(n, text)') =
                        IF text = "blank" THEN 0
                        ELSE TextsOf(n, text, LinesPassed(n, "native"), LinesPassed(n, "ocr"))'
    BY <1>2 DEF TextsAreCounted
  <2> DEFINE was == TextsOf(n, text, LinesPassed(n, "native"), LinesPassed(n, "ocr"))
  <2>1. NodesOf(n, text)'
          = {i \in 1..id : nodes'[i].span.page = n /\ LineOf(nodes'[i].span).text = text}
    BY <1>7, <1>8 DEF NodesOf
  <2>2. NodesOf(n, text) = {i \in old : nodes[i].span.page = n /\ LineOf(nodes[i].span).text = text}
    BY <1>8 DEF NodesOf
  <2>3. IsFiniteSet(NodesOf(n, text)) /\ id \notin NodesOf(n, text)
    <3>1. IsFiniteSet(old)
      <4>1. 1 \in Int /\ Len(nodes) \in Int
        BY <1>1
      <4> QED
        BY <4>1, FS_Interval
    <3>2. NodesOf(n, text) \subseteq old /\ id \notin old
      BY <1>1, <2>2
    <3> QED
      BY <3>1, <3>2, FS_Subset
  <2>4. NodesOf(n, text)' = IF n = pageNo /\ l.text = text THEN NodesOf(n, text) \cup {id}
                            ELSE NodesOf(n, text)
    <3>1. id \in 1..id /\ \A i \in old : i \in 1..id
      BY <1>1
    <3>2. \A i : i \in NodesOf(n, text)' <=> \/ i \in NodesOf(n, text)
                                             \/ i = id /\ n = pageNo /\ l.text = text
      <4> SUFFICES ASSUME NEW i
                   PROVE  i \in NodesOf(n, text)' <=> \/ i \in NodesOf(n, text)
                                                      \/ i = id /\ n = pageNo /\ l.text = text
        OBVIOUS
      <4>1. CASE i = id
        BY <1>1, <1>3, <2>1, <2>3, <3>1, <4>1
      <4>2. CASE i # id
        <5>1. i \in 1..id <=> i \in old
          BY <1>6, <3>1, <4>2
        <5>2. i \in old => nodes'[i] = nodes[i]
          BY <1>1
        <5> QED
          BY <2>1, <2>2, <4>2, <5>1, <5>2
      <4> QED
        BY <4>1, <4>2
    <3> HIDE DEF id, l
    <3> QED
      BY <3>2
  <2>5. /\ was \in Nat
        /\ TextsOf(n, text, LinesPassed(n, "native")', LinesPassed(n, "ocr")')
             = IF n = pageNo /\ l.text = text THEN was + 1 ELSE was
    BY <1>2, TextsMove
  <2>6. TextsOf(n, text, LinesPassed(n, "native"), LinesPassed(n, "ocr"))'
          = TextsOf(n, text, LinesPassed(n, "native")', LinesPassed(n, "ocr")')
    BY <1>2 DEF TextsOf, FromOcr
  <2>7. Cardinality(NodesOf(n, text)) = IF text = "blank" THEN 0 ELSE was
    BY DEF GraphInvariant, TextsAreCounted
  <2>8. l.text # "blank"
    BY DEF Blank
  <2>9. Cardinality(NodesOf(n, text) \cup {id}) = Cardinality(NodesOf(n, text)) + 1
    BY <2>3, FS_AddElement
  <2>10. CASE n = pageNo /\ l.text = text
    <3>1. Cardinality(NodesOf(n, text)') = Cardinality(NodesOf(n, text)) + 1
      BY <2>4, <2>9, <2>10
    <3> QED
      BY <2>5, <2>6, <2>7, <2>8, <2>10, <3>1
  <2>11. CASE ~(n = pageNo /\ l.text = text)
    <3>1. NodesOf(n, text)' = NodesOf(n, text)
      BY <2>4, <2>11
    <3>2. Cardinality(NodesOf(n, text)') = Cardinality(NodesOf(n, text))
      BY <3>1
    <3>3. TextsOf(n, text, LinesPassed(n, "native"), LinesPassed(n, "ocr"))' = was
      BY <2>5, <2>6, <2>11
    <3> QED
      BY <2>7, <3>2, <3>3
  <2> QED
    BY <2>10, <2>11
<1> QED
  BY <1>9, <1>10, <1>12, <1>16, <1>17, <1>18

LEMMA AddLineKeeps ==
  ASSUME StructureAssumption, GraphInvariant, AddLine PROVE GraphInvariant'
<1>1. /\ GraphTypeOK /\ AtLine /\ lineNo' = lineNo + 1 /\ nodes \in Seq(Node)
      /\ UNCHANGED <<document, pageNo, reading, semantics, fate>>
  BY DEF GraphInvariant, AddLine, GraphTypeOK
<1>2. /\ pageNo \in 1..Len(document) /\ cursor \in Nat /\ cursor >= 1
      /\ cursor' = IF AlternateOf(LineOf(Here)) = 0 THEN cursor ELSE AlternateOf(LineOf(Here)) + 1
  BY <1>1, AtLineIs DEF GraphTypeOK, AddLine
<1>3. cursor' \in Nat /\ cursor' >= cursor
  <2>1. /\ AlternateOf(LineOf(Here)) \in Nat
        /\ AlternateOf(LineOf(Here)) # 0 => AlternateOf(LineOf(Here)) >= cursor
    BY <1>1, <1>2, AlternateIs
  <2> DEFINE alternate == AlternateOf(LineOf(Here))
  <2> HIDE DEF alternate
  <2>2. /\ alternate \in Nat /\ (alternate # 0 => alternate >= cursor)
        /\ cursor' = IF alternate = 0 THEN cursor ELSE alternate + 1
    BY <1>2, <2>1 DEF alternate
  <2> QED
    BY <1>2, <2>2
<1>4. GraphTypeOK'
  <2>1. lineNo + 1 \in Nat /\ lineNo + 1 >= 1 /\ lineNo + 1 <= Len(Lines(pageNo, reading)) + 1
    BY <1>1, <1>2, DocumentIs DEF AtLine, GraphTypeOK
  <2>2. nodes' \in Seq(Node)
    <3>1. Blank(LineOf(Here)) => nodes' = nodes
      BY DEF AddLine
    <3>2. ~Blank(LineOf(Here)) => nodes' \in Seq(Node)
      BY OneNodeMore
    <3> QED
      BY <1>1, <3>1, <3>2
  <2>3. Lines(pageNo, reading)' = Lines(pageNo, reading)
    BY <1>1 DEF Lines
  <2>4. Len(Lines(pageNo, reading)') \in Nat /\ cursor' >= 1
    <3>1. Len(Lines(pageNo, reading)) \in Nat
      BY <1>1, <1>2, DocumentIs DEF GraphTypeOK
    <3> QED
      BY <1>2, <1>3, <2>3, <3>1
  <2>5. pageNo \in Nat /\ pageNo >= 1 /\ pageNo <= Len(document) + 1 /\ ~(pageNo > Len(document))
    <3>1. Len(document) \in Nat
      BY <1>1, DocumentIs DEF GraphTypeOK
    <3> QED
      BY <1>2, <3>1
  <2> QED
    BY <1>1, <1>3, <2>1, <2>2, <2>3, <2>4, <2>5 DEF GraphTypeOK
<1>5. SemanticsSoFar' /\ FateSoFar'
  BY <1>1, DocumentStays
  DEF GraphInvariant, SemanticsSoFar, FateSoFar, OnlyEmptyTablesAreRefused, AtLine
<1>6. CASE ~Blank(LineOf(Here))
  <2>1. OpenHeadings' /\ ParentsAreEarlier' /\ HeadingsNest'
    BY <1>6, HeadingsKeep
  <2>2. /\ NodesAreLines' /\ LinesAreNodes' /\ NodesAreInOrder'
        /\ AlternatesSoFar' /\ AlternatesAreInOrder' /\ TextsAreCounted'
    BY <1>6, NodesKeep
  <2> QED
    BY <1>4, <1>5, <2>1, <2>2 DEF GraphInvariant
<1>7. CASE Blank(LineOf(Here))
  <2>1. nodes' = nodes /\ stack' = stack
    BY <1>7 DEF AddLine
  <2>2. \A n \in 1..Len(document) : \A s \in Canonical(n) :
          (Passed(s)' <=> (Passed(s) \/ s = Here)) /\ (s = Here => Blank(LineOf(s)))
    BY <1>1, <1>7, PassedMoves
  <2>3. NodesAreLines'
    BY <1>1, <2>1, <2>2, DocumentStays DEF GraphInvariant, NodesAreLines, Blank
  <2>4. LinesAreNodes'
    BY <1>1, <2>1, <2>2, DocumentStays DEF GraphInvariant, LinesAreNodes, Blank
  <2>5. NodesAreInOrder' /\ AlternatesAreInOrder' /\ ParentsAreEarlier' /\ HeadingsNest' /\ OpenHeadings'
    <3>1. NodesAreInOrder' /\ AlternatesAreInOrder' /\ ParentsAreEarlier'
      BY <2>1 DEF GraphInvariant, NodesAreInOrder, AlternatesAreInOrder, ParentsAreEarlier
    <3>2. HeadingsNest'
      BY <2>1 DEF GraphInvariant, HeadingsNest, HeadingsBefore
    <3>3. OpenHeadings'
      BY <2>1 DEF GraphInvariant, OpenHeadings
    <3> QED
      BY <3>1, <3>2, <3>3
  <2>6. AlternatesSoFar'
    <3>1. \A i \in 1..Len(nodes) : nodes[i].alternate \in Nat
      <4>1. \A i \in 1..Len(nodes) : nodes[i] \in Node
        BY <1>1
      <4> QED
        BY <4>1 DEF Node
    <3>2. \A i \in 1..Len(nodes) : nodes[i].alternate < cursor => nodes[i].alternate < cursor'
      BY <1>2, <1>3, <3>1
    <3> QED
      BY <1>1, <2>1, <3>2 DEF GraphInvariant, AlternatesSoFar
  <2>7. TextsAreCounted'
    <3>1. \A n, text : NodesOf(n, text)' = NodesOf(n, text)
      BY <1>1, <2>1, DocumentStays DEF NodesOf
    <3>2. \A n \in 1..Len(document) : \A text : text # "blank" =>
            TextsOf(n, text, LinesPassed(n, "native"), LinesPassed(n, "ocr"))'
              = TextsOf(n, text, LinesPassed(n, "native"), LinesPassed(n, "ocr"))
      <4> SUFFICES ASSUME NEW n \in 1..Len(document), NEW text, text # "blank"
                   PROVE TextsOf(n, text, LinesPassed(n, "native"), LinesPassed(n, "ocr"))'
                           = TextsOf(n, text, LinesPassed(n, "native"), LinesPassed(n, "ocr"))
        OBVIOUS
      <4>1. LineOf(Here).text # text
        BY <1>7 DEF Blank
      <4>2. TextsOf(n, text, LinesPassed(n, "native")', LinesPassed(n, "ocr")')
              = TextsOf(n, text, LinesPassed(n, "native"), LinesPassed(n, "ocr"))
        BY <1>1, <4>1, TextsMove
      <4> QED
        BY <1>1, <4>2 DEF TextsOf, FromOcr
    <3> QED
      BY <1>1, <3>1, <3>2 DEF GraphInvariant, TextsAreCounted
  <2> QED
    BY <1>4, <1>5, <2>3, <2>4, <2>5, <2>6, <2>7 DEF GraphInvariant
<1> QED
  BY <1>6, <1>7

LEMMA EndReadingKeeps ==
  ASSUME StructureAssumption, GraphInvariant, EndReading PROVE GraphInvariant'
<1> USE DEF EndReading
<1>1. GraphTypeOK /\ pageNo \in 1..Len(document) /\ Len(document) \in Nat
  BY DocumentIs DEF GraphInvariant, GraphTypeOK
<1>2. \A n \in 1..Len(document) : \A r : Len(Lines(n, r)) \in Nat
  BY <1>1, DocumentIs DEF GraphTypeOK
<1>3. GraphTypeOK'
  <2>1. Len(Lines(pageNo, "ocr")) \in Nat /\ Lines(pageNo, reading)' = Lines(pageNo, "ocr")
    BY <1>1, <1>2 DEF Lines
  <2> QED
    BY <1>1, <2>1 DEF GraphTypeOK, Readings
<1>4. \A n \in 1..Len(document) : \A r \in Readings : LinesPassed(n, r)' = LinesPassed(n, r)
  <2> SUFFICES ASSUME NEW n \in 1..Len(document), NEW r \in Readings
               PROVE  LinesPassed(n, r)' = LinesPassed(n, r)
    OBVIOUS
  <2>1. Lines(n, r)' = Lines(n, r)
    BY DEF Lines
  <2>2. n = pageNo /\ r = "native" => lineNo - 1 = Len(Lines(n, r))
    BY <1>1, <1>2 DEF GraphTypeOK
  <2> QED
    BY <1>1, <2>1, <2>2 DEF LinesPassed, Readings
<1>5. /\ NodesAreLines' /\ LinesAreNodes' /\ NodesAreInOrder' /\ AlternatesAreInOrder'
      /\ OpenHeadings' /\ ParentsAreEarlier' /\ HeadingsNest' /\ TextsAreCounted'
  BY <1>4, GraphStays
<1>6. AlternatesSoFar'
  BY DEF GraphInvariant, AlternatesSoFar
<1>7. SemanticsSoFar' /\ FateSoFar'
  BY DocumentStays DEF GraphInvariant, SemanticsSoFar, FateSoFar, OnlyEmptyTablesAreRefused
<1> QED
  BY <1>3, <1>5, <1>6, <1>7 DEF GraphInvariant

LEMMA FiniteImage ==
  ASSUME NEW S, IsFiniteSet(S), NEW f, f \in [S -> {f[s] : s \in S}]
  PROVE  /\ IsFiniteSet({f[s] : s \in S})
         /\ (\A s, t \in S : f[s] = f[t] => s = t) => Cardinality({f[s] : s \in S}) = Cardinality(S)
<1> DEFINE T == {f[s] : s \in S}
<1>1. f \in [S -> T] /\ \A t \in T : \E s \in S : f[s] = t
  OBVIOUS
<1> HIDE DEF T
<1>2. f \in Surjection(S, T)
  BY <1>1 DEF Surjection
<1>3. IsFiniteSet(T) /\ (Cardinality(T) = Cardinality(S) <=> f \in Injection(S, T))
  BY <1>2, FS_Surjection
<1>4. (\A s, t \in S : f[s] = f[t] => s = t) => f \in Injection(S, T)
  BY <1>1 DEF Injection, IsInjective
<1> QED
  BY <1>3, <1>4 DEF T

LEMMA KindsAreFinite == IsFiniteSet(Kinds)
<1>1. Kinds = (({"equation"} \cup {"unit"}) \cup {"unknown_unit"}) \cup {"abbreviation"}
  BY DEF Kinds
<1>2. \A x : IsFiniteSet({x})
  BY FS_Singleton
<1>3. IsFiniteSet((({"equation"} \cup {"unit"}) \cup {"unknown_unit"}) \cup {"abbreviation"})
  BY <1>2, FS_Union
<1> QED
  BY <1>1, <1>3

LEMMA SymbolsAreFinite ==
  ASSUME StructureAssumption, document \in SourceDocuments, NEW n \in 1..Len(document)
  PROVE  IsFiniteSet(Symbols(n)) /\ IsFiniteSet(Tables(n))
<1> DEFINE spots == Spans(n, "native") \cup Spans(n, "ocr")
           pairs == Kinds \X spots
           symbol == [p \in pairs |-> [kind |-> p[1], page |-> n, spans |-> {p[2]}]]
           image == {symbol[p] : p \in pairs}
<1>1. \A r : IsFiniteSet(Spans(n, r))
  <2> SUFFICES ASSUME NEW r PROVE IsFiniteSet(Spans(n, r))
    OBVIOUS
  <2> DEFINE k == Len(Lines(n, r))
             span == [i \in 1..k |-> Span(n, r, i)]
  <2>1. k \in Nat
    BY DocumentIs
  <2>2. IsFiniteSet(1..k)
    <3> HIDE DEF k
    <3> QED
      BY <2>1, FS_Interval
  <2>3. span \in [1..k -> {span[i] : i \in 1..k}]
    OBVIOUS
  <2>4. Spans(n, r) = {span[i] : i \in 1..k}
    BY DEF Spans
  <2> HIDE DEF span
  <2> QED
    BY <2>2, <2>3, <2>4, FiniteImage
<1>2. IsFiniteSet(spots)
  BY <1>1, FS_Union
<1>3. IsFiniteSet(pairs)
  <2> HIDE DEF spots
  <2> QED
    BY <1>2, KindsAreFinite, FS_Product
<1>4. symbol \in [pairs -> image]
  <2> HIDE DEF spots
  <2> QED
    OBVIOUS
<1>5. IsFiniteSet(image)
  <2> HIDE DEF pairs, symbol
  <2> QED
    BY <1>3, <1>4, FiniteImage
<1>6. \A x \in Symbols(n) : x \in image
  <2> SUFFICES ASSUME NEW x \in Symbols(n) PROVE x \in image
    OBVIOUS
  <2>1. PICK s \in spots : \E k \in LineOf(s).symbols : x = [kind |-> k, page |-> n, spans |-> {s}]
    BY DEF Symbols
  <2>2. PICK k \in LineOf(s).symbols : x = [kind |-> k, page |-> n, spans |-> {s}]
    BY <2>1
  <2>3. k \in Kinds
    <3>1. PICK r \in Readings : \E i \in 1..Len(Lines(n, r)) : s = Span(n, r, i)
      BY DEF Spans, Readings
    <3>2. PICK i \in 1..Len(Lines(n, r)) : s = Span(n, r, i)
      BY <3>1
    <3>3. LineOf(s) = Lines(n, r)[i]
      BY <3>2 DEF LineOf, Span
    <3>4. Lines(n, r)[i].symbols \subseteq Kinds
      BY <3>2, LineIs
    <3> QED
      BY <2>2, <3>3, <3>4
  <2> HIDE DEF spots
  <2>4. <<k, s>> \in pairs /\ symbol[<<k, s>>] = x
    BY <2>2, <2>3
  <2> QED
    BY <2>4
<1>7. IsFiniteSet(Symbols(n))
  <2> HIDE DEF image
  <2>1. Symbols(n) \subseteq image
    BY <1>6
  <2> QED
    BY <1>5, <2>1, FS_Subset
<1>8. IsFiniteSet(Tables(n))
  BY FS_Singleton, FS_EmptySet DEF Tables
<1> QED
  BY <1>7, <1>8

LEMMA EndPageKeeps ==
  ASSUME StructureAssumption, GraphInvariant, EndPage PROVE GraphInvariant'
<1> USE DEF EndPage
<1>1. /\ GraphTypeOK /\ pageNo \in 1..Len(document) /\ Len(document) \in Nat /\ pageNo \in Nat
      /\ pageNo + 1 <= Len(document) + 1
  BY DocumentIs DEF GraphInvariant, GraphTypeOK
<1>2. \A n \in 1..Len(document) : \A r : Len(Lines(n, r)) \in Nat
  BY <1>1, DocumentIs DEF GraphTypeOK
<1>3. GraphTypeOK'
  <2>1. pageNo + 1 <= Len(document) =>
          Len(Lines(pageNo + 1, "native")) \in Nat
    BY <1>1, <1>2
  <2>2. Lines(pageNo, reading)' = Lines(pageNo + 1, "native")
    BY DEF Lines
  <2> QED
    BY <1>1, <2>1, <2>2 DEF GraphTypeOK, Readings
<1>4. \A n \in 1..Len(document) : \A r \in Readings : LinesPassed(n, r)' = LinesPassed(n, r)
  <2> SUFFICES ASSUME NEW n \in 1..Len(document), NEW r \in Readings
               PROVE  LinesPassed(n, r)' = LinesPassed(n, r)
    OBVIOUS
  <2>1. Lines(n, r)' = Lines(n, r)
    BY DEF Lines
  <2>2. n = pageNo /\ r = "ocr" => lineNo - 1 = Len(Lines(n, r))
    BY <1>1, <1>2 DEF GraphTypeOK
  <2>3. n \in Nat
    BY <1>1
  <2> QED
    BY <1>1, <2>1, <2>2, <2>3 DEF LinesPassed, Readings
<1>5. /\ NodesAreLines' /\ LinesAreNodes' /\ NodesAreInOrder' /\ AlternatesAreInOrder'
      /\ OpenHeadings' /\ ParentsAreEarlier' /\ HeadingsNest' /\ TextsAreCounted'
  BY <1>4, GraphStays
\* No node is of a page that is not begun.
<1>6. \A i \in 1..Len(nodes) : nodes[i].span.page # pageNo + 1
  <2> SUFFICES ASSUME NEW i \in 1..Len(nodes), nodes[i].span.page = pageNo + 1 PROVE FALSE
    OBVIOUS
  <2> DEFINE s == nodes[i].span
  <2>1. s.page \in 1..Len(document) /\ s \in Canonical(s.page) /\ Passed(s)
    BY DEF GraphInvariant, NodesAreLines
  <2>2. s.line \in 1..Len(Lines(s.page, s.reading))
    BY <2>1, SpanIs
  <2>3. s.line \in Nat /\ s.line >= 1
    BY <1>2, <2>1, <2>2
  <2>4. LinesPassed(s.page, s.reading) = 0
    BY <1>1 DEF LinesPassed
  <2> QED
    BY <2>1, <2>3, <2>4 DEF Passed
<1>7. AlternatesSoFar'
  BY <1>6 DEF GraphInvariant, AlternatesSoFar
<1>8. SemanticsSoFar'
  <2>1. \A x \in Symbols(pageNo) \cup Tables(pageNo) : x.page = pageNo
    BY DEF Symbols, Tables
  <2>2. \A x \in semantics : x.page \in 1..(pageNo - 1)
    BY DEF GraphInvariant, SemanticsSoFar
  <2>3. \A x \in semantics' : x.page \in 1..((pageNo + 1) - 1)
    BY <1>1, <2>1, <2>2
  <2>4. \A n \in 1..((pageNo + 1) - 1) :
          {x \in semantics' : x.page = n} = Symbols(n) \cup Tables(n)
    <3> SUFFICES ASSUME NEW n \in 1..((pageNo + 1) - 1)
                 PROVE  {x \in semantics' : x.page = n} = Symbols(n) \cup Tables(n)
      OBVIOUS
    <3>1. CASE n = pageNo
      <4>1. \A x \in semantics : x.page # n
        BY <1>1, <2>2, <3>1
      <4> QED
        BY <2>1, <3>1, <4>1
    <3>2. CASE n # pageNo
      <4>1. n \in 1..(pageNo - 1)
        BY <1>1, <3>2
      <4>2. {x \in semantics : x.page = n} = Symbols(n) \cup Tables(n)
        BY <4>1 DEF GraphInvariant, SemanticsSoFar
      <4>3. {x \in semantics' : x.page = n} = {x \in semantics : x.page = n}
        BY <2>1, <3>2
      <4> QED
        BY <4>2, <4>3
    <3> QED
      BY <3>1, <3>2
  <2>5. IsFiniteSet(semantics')
    <3>1. IsFiniteSet(semantics)
      BY DEF GraphInvariant, SemanticsSoFar
    <3>2. IsFiniteSet(Symbols(pageNo)) /\ IsFiniteSet(Tables(pageNo))
      BY <1>1, SymbolsAreFinite DEF GraphTypeOK
    <3> QED
      BY <3>1, <3>2, FS_Union
  <2> QED
    BY <2>3, <2>4, <2>5, DocumentStays DEF SemanticsSoFar
<1>9. FateSoFar'
  BY DocumentStays DEF GraphInvariant, FateSoFar, OnlyEmptyTablesAreRefused
<1> QED
  BY <1>3, <1>5, <1>7, <1>8, <1>9 DEF GraphInvariant

LEMMA ValidateKeeps ==
  ASSUME StructureAssumption, GraphInvariant, Validate PROVE GraphInvariant'
<1> USE DEF Validate
<1>1. /\ GraphTypeOK /\ nodes \in Seq(Node) /\ DOMAIN nodes = 1..Len(nodes) /\ Len(nodes) \in Nat
      /\ Len(document) \in Nat /\ DOMAIN document = 1..Len(document) /\ pageNo = Len(document) + 1
  BY DocumentIs DEF GraphInvariant, GraphTypeOK
<1>2. \A n \in 1..Len(document) : \A r : Len(Lines(n, r)) \in Nat
  BY <1>1, DocumentIs DEF GraphTypeOK
<1>3. \A n \in 1..Len(document) : \A s \in Canonical(n) : Passed(s)
  <2> SUFFICES ASSUME NEW n \in 1..Len(document), NEW s \in Canonical(n) PROVE Passed(s)
    OBVIOUS
  <2>1. s.page = n /\ s.line \in 1..Len(Lines(n, s.reading))
    BY SpanIs
  <2>2. LinesPassed(n, s.reading) = Len(Lines(n, s.reading))
    BY <1>1 DEF LinesPassed
  <2> QED
    BY <1>2, <2>1, <2>2 DEF Passed
<1>4. \A i \in 1..Len(nodes) :
        /\ nodes[i].span.page \in 1..Len(document) /\ nodes[i].span \in Canonical(nodes[i].span.page)
        /\ ~Blank(LineOf(nodes[i].span))
        /\ nodes[i].parent \in Nat /\ nodes[i].alternate \in Nat
  <2>1. \A i \in 1..Len(nodes) : nodes[i] \in Node
    BY <1>1
  <2>2. \A i \in 1..Len(nodes) : nodes[i].parent \in Nat /\ nodes[i].alternate \in Nat
    BY <2>1 DEF Node
  <2> QED
    BY <2>2 DEF GraphInvariant, NodesAreLines
<1>5. NodesFollowEvidence
  <2>1. \A i, j \in DOMAIN nodes :
          i < j /\ nodes[i].span.page = nodes[j].span.page => Precedes(nodes[i].span, nodes[j].span)
    BY <1>1 DEF GraphInvariant, NodesAreInOrder
  <2>2. ASSUME NEW n \in DOMAIN document
        PROVE  {s \in {nodes[i].span : i \in DOMAIN nodes} : s.page = n}
                 = {s \in Canonical(n) : ~Blank(LineOf(s))}
    <3>1. \A i \in DOMAIN nodes : nodes[i].span.page = n =>
            nodes[i].span \in Canonical(n) /\ ~Blank(LineOf(nodes[i].span))
      BY <1>1, <1>4
    <3>2. \A s \in Canonical(n) : ~Blank(LineOf(s)) =>
            s.page = n /\ \E i \in DOMAIN nodes : nodes[i].span = s
      BY <1>1, <1>3, SpanIs DEF GraphInvariant, LinesAreNodes
    <3> QED
      BY <3>1, <3>2
  <2> QED
    BY <2>1, <2>2 DEF NodesFollowEvidence
<1>6. NodesInPageOrder
  BY <1>1 DEF NodesInPageOrder, GraphInvariant, NodesAreInOrder
<1>7. AlternatesAreEvidence
  <2> SUFFICES ASSUME NEW i \in 1..Len(nodes), nodes[i].alternate # 0
               PROVE  Span(nodes[i].span.page, "native", nodes[i].alternate)
                        \in Alternate(nodes[i].span.page)
    BY <1>1 DEF AlternatesAreEvidence
  <2>1. /\ document[nodes[i].span.page].route = "suspect"
        /\ nodes[i].alternate <= Len(document[nodes[i].span.page].native)
    BY DEF GraphInvariant, AlternatesSoFar
  <2>2. nodes[i].alternate \in 1..Len(Lines(nodes[i].span.page, "native"))
    <3>1. Len(Lines(nodes[i].span.page, "native")) \in Nat
      BY <1>2, <1>4
    <3>2. Lines(nodes[i].span.page, "native") = document[nodes[i].span.page].native
      BY DEF Lines
    <3>3. nodes[i].alternate \in Nat /\ nodes[i].alternate # 0
      BY <1>4
    <3> QED
      BY <2>1, <3>1, <3>2, <3>3
  <2> QED
    BY <2>1, <2>2 DEF Alternate, Spans
<1>8. LinksAreATree
  BY <1>1, <1>4 DEF LinksAreATree, GraphInvariant, ParentsAreEarlier
<1>9. RecordsFollowEvidence
  BY <1>1 DEF RecordsFollowEvidence, GraphInvariant, SemanticsSoFar
<1>10. ASSUME ~ \E n \in DOMAIN document : document[n].tabular /\ Canonical(n) = {}
       PROVE  AnchorsAreKnown
  <2> SUFFICES ASSUME NEW x \in semantics PROVE x.spans # {} /\ x.spans \subseteq All(x.page)
    BY DEF AnchorsAreKnown
  <2> DEFINE n == x.page
  <2>1. n \in 1..Len(document) /\ x \in Symbols(n) \cup Tables(n)
    BY <1>1 DEF GraphInvariant, SemanticsSoFar
  <2>2. CASE x \in Tables(n)
    BY <1>1, <1>10, <2>1, <2>2 DEF Tables, All
  <2>3. CASE x \in Symbols(n)
    <3>1. PICK s \in Spans(n, "native") \cup Spans(n, "ocr") :
            x.spans = {s} /\ LineOf(s).symbols # {}
      BY <2>3 DEF Symbols
    <3>2. /\ Routed(document[n]) /\ document[n] \in SourcePage
          /\ document[n].route \in {"native", "ocr", "mixed", "suspect", "none"}
          /\ Lines(n, "native") = document[n].native /\ Lines(n, "ocr") = document[n].ocr
      BY <1>1, <2>1, DocumentIs DEF GraphTypeOK, SourcePage, Lines
    <3>3. CASE document[n].route = "mixed"
      BY <3>1, <3>3 DEF All
    <3>4. CASE s \in Spans(n, "native") /\ document[n].route \in {"native", "none"}
      <4>1. s.page = n /\ s.reading = "native"
        BY <3>4 DEF Spans, Span
      <4>2. s \in Canonical(n)
        BY <3>4, <4>1 DEF Canonical, Kept, FromOcr
      <4> QED
        BY <3>1, <4>2 DEF All
    <3>5. CASE s \in Spans(n, "native") /\ document[n].route = "suspect"
      BY <3>1, <3>5 DEF All, Alternate
    <3>6. CASE s \in Spans(n, "native") /\ document[n].route = "ocr"
      <4>1. PICK i \in 1..Len(document[n].native) : s = Span(n, "native", i)
        BY <3>2, <3>6 DEF Spans
      <4>2. LineOf(s) = document[n].native[i]
        BY <3>2, <4>1 DEF LineOf, Span
      <4>3. i \in DOMAIN document[n].native
        BY <1>1, <2>1, <4>1, DocumentIs DEF GraphTypeOK
      <4> QED
        BY <3>1, <3>2, <3>6, <4>2, <4>3 DEF Routed
    <3>7. CASE s \in Spans(n, "ocr") /\ document[n].route \in {"ocr", "suspect"}
      <4>1. s.page = n /\ s.reading = "ocr"
        BY <3>7 DEF Spans, Span
      <4>2. s \in Canonical(n)
        BY <3>7, <4>1 DEF Canonical, Kept, FromOcr
      <4> QED
        BY <3>1, <4>2 DEF All
    <3>8. CASE s \in Spans(n, "ocr") /\ document[n].route \in {"native", "none"}
      <4>1. document[n].ocr = <<>>
        BY <3>2, <3>8 DEF Routed
      <4> QED
        BY <3>2, <3>8, <4>1 DEF Spans
    <3> QED
      BY <3>1, <3>2, <3>3, <3>4, <3>5, <3>6, <3>7, <3>8
  <2> QED
    BY <2>1, <2>2, <2>3
<1>11. GraphTypeOK'
  BY <1>1 DEF GraphTypeOK, Lines
<1>12. /\ NodesAreLines' /\ LinesAreNodes' /\ NodesAreInOrder' /\ AlternatesAreInOrder'
       /\ OpenHeadings' /\ ParentsAreEarlier' /\ HeadingsNest' /\ TextsAreCounted'
  <2>1. \A n \in 1..Len(document) : \A r \in Readings : LinesPassed(n, r)' = LinesPassed(n, r)
    BY DocumentStays DEF LinesPassed
  <2> QED
    BY <2>1, GraphStays
<1>13. AlternatesSoFar' /\ SemanticsSoFar'
  BY DocumentStays DEF GraphInvariant, AlternatesSoFar, SemanticsSoFar
<1>14. FateSoFar'
  <2>1. fate' = "refused" => \E n \in DOMAIN document : document[n].tabular /\ Canonical(n) = {}
    BY <1>5, <1>6, <1>7, <1>8, <1>9, <1>10 DEF Valid
  <2> QED
    BY <1>1, <2>1, DocumentStays DEF FateSoFar, OnlyEmptyTablesAreRefused
<1> QED
  BY <1>11, <1>12, <1>13, <1>14 DEF GraphInvariant

LEMMA CountsAgree ==
  ASSUME StructureAssumption, GraphInvariant PROVE Cardinality(Counted) = NeedsReview
<1> DEFINE certain == OfKind({"equation", "table"})
           ofPage == [n \in InReview |-> [page |-> n, reason |-> "page"]]
           ofRecord == [x \in certain |-> [record |-> x, reason |-> x.kind]]
           pageItems == {ofPage[n] : n \in InReview}
           recordItems == {ofRecord[x] : x \in certain}
<1>1. IsFiniteSet(InReview)
  <2>1. Len(document) \in Nat /\ DOMAIN document = 1..Len(document)
    BY DocumentIs DEF GraphInvariant, GraphTypeOK
  <2>2. IsFiniteSet(1..Len(document))
    BY <2>1, FS_Interval
  <2>3. InReview \subseteq 1..Len(document)
    BY <2>1 DEF InReview
  <2> QED
    BY <2>2, <2>3, FS_Subset
<1>2. IsFiniteSet(certain)
  <2>1. IsFiniteSet(semantics) /\ certain \subseteq semantics
    BY DEF GraphInvariant, SemanticsSoFar, OfKind
  <2> QED
    BY <2>1, FS_Subset
<1>3. IsFiniteSet(pageItems) /\ Cardinality(pageItems) = Cardinality(InReview)
  <2>1. ofPage \in [InReview -> pageItems] /\ \A m, n \in InReview : ofPage[m] = ofPage[n] => m = n
    <3>1. \A n \in InReview : ofPage[n].page = n
      OBVIOUS
    <3> QED
      BY <3>1
  <2> HIDE DEF ofPage
  <2> QED
    BY <1>1, <2>1, FiniteImage
<1>4. IsFiniteSet(recordItems) /\ Cardinality(recordItems) = Cardinality(certain)
  <2>1. ofRecord \in [certain -> recordItems] /\ \A x, y \in certain : ofRecord[x] = ofRecord[y] => x = y
    <3>1. \A x \in certain : ofRecord[x].record = x
      OBVIOUS
    <3> QED
      BY <3>1
  <2> HIDE DEF ofRecord, certain
  <2> QED
    BY <1>2, <2>1, FiniteImage
<1>5. \A x \in certain : x.kind \in {"equation", "table"}
  BY DEF OfKind
<1>6. pageItems \cap recordItems = {}
  <2>1. \A n \in InReview : ofPage[n].reason = "page"
    OBVIOUS
  <2>2. \A x \in certain : ofRecord[x].reason # "page"
    BY <1>5
  <2> HIDE DEF ofPage, ofRecord, certain
  <2> QED
    BY <2>1, <2>2
<1>7. Counted = pageItems \cup recordItems
  <2>1. \A y \in pageItems : y \in Counted
    BY DEF Counted, Deferred
  <2>2. \A y \in recordItems : y \in Counted
    <3> SUFFICES ASSUME NEW x \in certain PROVE ofRecord[x] \in Counted
      OBVIOUS
    <3>1. ofRecord[x] = [record |-> x, reason |-> x.kind]
      OBVIOUS
    <3>2. x \in OfKind({"equation", "table", "unknown_unit"}) /\ x.kind \in {"equation", "table"}
      BY <1>5 DEF OfKind
    <3>3. ofRecord[x] \in Deferred
      BY <3>1, <3>2 DEF Deferred
    <3> QED
      BY <3>1, <3>2, <3>3 DEF Counted
  <2>3. \A y \in Counted : y \in pageItems \cup recordItems
    <3> SUFFICES ASSUME NEW y \in Deferred, y.reason \in {"page", "equation", "table"}
                 PROVE  y \in pageItems \cup recordItems
      BY DEF Counted
    <3>1. CASE \E n \in InReview : y = [page |-> n, reason |-> "page"]
      BY <3>1
    <3>2. CASE \E x \in OfKind({"equation", "table", "unknown_unit"}) : y = [record |-> x, reason |-> x.kind]
      <4>1. PICK x \in OfKind({"equation", "table", "unknown_unit"}) :
              y = [record |-> x, reason |-> x.kind]
        BY <3>2
      <4>2. x \in semantics /\ x.kind \in {"equation", "table", "unknown_unit"} /\ y.reason = x.kind
        BY <4>1 DEF OfKind
      <4>3. x \in certain
        BY <4>2 DEF OfKind
      <4> QED
        BY <4>1, <4>3
    <3> QED
      BY <3>1, <3>2 DEF Deferred
  <2> HIDE DEF pageItems, recordItems
  <2> QED
    BY <2>1, <2>2, <2>3
<1>8. Cardinality(pageItems \cup recordItems)
        = Cardinality(pageItems) + Cardinality(recordItems) - Cardinality(pageItems \cap recordItems)
  BY <1>3, <1>4, FS_Union
<1>9. Cardinality(pageItems \cap recordItems) = 0
  BY <1>6, FS_EmptySet
<1>10. Cardinality(pageItems) \in Nat /\ Cardinality(recordItems) \in Nat
  BY <1>3, <1>4, FS_CardinalityType
<1>11. Cardinality(Counted) = Cardinality(pageItems \cup recordItems)
  BY <1>7
<1>12. NeedsReview = Cardinality(InReview) + Cardinality(certain)
  BY DEF NeedsReview
<1> HIDE DEF pageItems, recordItems, certain
<1> QED
  BY <1>3, <1>4, <1>8, <1>9, <1>10, <1>11, <1>12

LEMMA PublishKeeps ==
  ASSUME StructureAssumption, GraphInvariant, Publish PROVE GraphInvariant'
<1> USE DEF Publish
<1>1. fate' = "published"
  BY CountsAgree
<1>2. GraphTypeOK'
  BY <1>1 DEF GraphInvariant, GraphTypeOK, Lines
<1>3. /\ NodesAreLines' /\ LinesAreNodes' /\ NodesAreInOrder' /\ AlternatesAreInOrder'
      /\ OpenHeadings' /\ ParentsAreEarlier' /\ HeadingsNest' /\ TextsAreCounted'
  <2>1. \A n \in 1..Len(document) : \A r \in Readings : LinesPassed(n, r)' = LinesPassed(n, r)
    BY DocumentStays DEF LinesPassed
  <2> QED
    BY <2>1, GraphStays
<1>4. AlternatesSoFar' /\ SemanticsSoFar'
  BY DocumentStays DEF GraphInvariant, AlternatesSoFar, SemanticsSoFar
<1>5. FateSoFar'
  BY <1>1 DEF GraphInvariant, FateSoFar, OnlyEmptyTablesAreRefused
<1> QED
  BY <1>2, <1>3, <1>4, <1>5 DEF GraphInvariant

LEMMA GraphUnchanged ==
  ASSUME StructureAssumption, GraphInvariant, UNCHANGED graphing PROVE GraphInvariant'
<1> USE DEF graphing
<1>1. GraphTypeOK'
  BY DEF GraphInvariant, GraphTypeOK, Lines
<1>2. /\ NodesAreLines' /\ LinesAreNodes' /\ NodesAreInOrder' /\ AlternatesAreInOrder'
      /\ OpenHeadings' /\ ParentsAreEarlier' /\ HeadingsNest' /\ TextsAreCounted'
  <2>1. \A n \in 1..Len(document) : \A r \in Readings : LinesPassed(n, r)' = LinesPassed(n, r)
    BY DocumentStays DEF LinesPassed
  <2> QED
    BY <2>1, GraphStays
<1>3. AlternatesSoFar' /\ SemanticsSoFar' /\ FateSoFar'
  BY DocumentStays
  DEF GraphInvariant, AlternatesSoFar, SemanticsSoFar, FateSoFar, OnlyEmptyTablesAreRefused
<1> QED
  BY <1>1, <1>2, <1>3 DEF GraphInvariant

\* Once every line has passed, the counts are those of the two readings.
LEMMA GraphIsDone ==
  ASSUME StructureAssumption, GraphInvariant PROVE GraphIsOfItsPages
<1>1. EveryTextIsANode
  <2> SUFFICES ASSUME fate \in {"accepted", "published"}, NEW n \in DOMAIN document,
                      NEW s \in Spans(n, "native") \cup Spans(n, "ocr")
               PROVE  LET text == LineOf(s).text
                          native == InReading(n, "native", text)
                          ocr == InReading(n, "ocr", text)
                      IN  Cardinality(NodesOf(n, text)) =
                            IF text = "blank" THEN 0 ELSE Wanted(n, native, ocr)
    BY DEF EveryTextIsANode
  <2> DEFINE text == LineOf(s).text
             native == InReading(n, "native", text)
             ocr == InReading(n, "ocr", text)
  <2>1. /\ GraphTypeOK /\ pageNo = Len(document) + 1 /\ Len(document) \in Nat
        /\ n \in 1..Len(document)
    BY DocumentIs DEF GraphInvariant, GraphTypeOK, FateSoFar
  <2>2. \A r : Len(Lines(n, r)) \in Nat
    BY <2>1, DocumentIs DEF GraphTypeOK
  <2>3. \A r : LinesPassed(n, r) = Len(Lines(n, r))
    BY <2>1 DEF LinesPassed
  <2>4. text \in STRING
    <3>1. PICK r \in Readings : \E i \in 1..Len(Lines(n, r)) : s = Span(n, r, i)
      BY DEF Spans, Readings
    <3>2. PICK i \in 1..Len(Lines(n, r)) : s = Span(n, r, i)
      BY <3>1
    <3>3. LineOf(s) = Lines(n, r)[i]
      BY <3>2 DEF LineOf, Span
    <3>4. Lines(n, r)[i].text \in STRING
      BY <2>1, <3>2, LineIs DEF GraphTypeOK
    <3> QED
      BY <3>3, <3>4
  <2>5. Lines(n, "native") = document[n].native /\ Lines(n, "ocr") = document[n].ocr
    BY DEF Lines
  <2>6. native \in Nat /\ ocr \in Nat
    BY <2>2, CopiesAre DEF InReading
  <2>7. Cardinality(NodesOf(n, text))
          = IF text = "blank" THEN 0
            ELSE TextsOf(n, text, Len(Lines(n, "native")), Len(Lines(n, "ocr")))
    BY <2>1, <2>3, <2>4 DEF GraphInvariant, TextsAreCounted
  <2>8. TextsOf(n, text, Len(Lines(n, "native")), Len(Lines(n, "ocr")))
          = IF FromOcr(n) THEN ocr
            ELSE IF document[n].route = "mixed" THEN native + Excess(ocr, native) ELSE native
    BY <2>5 DEF TextsOf, InReading
  <2>9. native + Excess(ocr, native) = IF ocr > native THEN ocr ELSE native
    <3> HIDE DEF native, ocr
    <3> QED
      BY <2>6 DEF Excess
  <2>10. document[n].route = "mixed" => ~FromOcr(n)
    BY DEF FromOcr
  <2> HIDE DEF native, ocr
  <2> QED
    BY <2>7, <2>8, <2>9, <2>10 DEF Wanted, native, ocr
<1> QED
  BY <1>1 DEF GraphIsOfItsPages, GraphInvariant, FateSoFar

\* Every graph the builder makes of a document is that of its pages.
THEOREM GraphHolds ==
  ASSUME StructureAssumption PROVE StructureSpec => []GraphIsOfItsPages
<1>1. StructureInit => GraphInvariant
  BY GraphInit
<1>2. GraphInvariant /\ [StructureNext]_graphing => GraphInvariant'
  BY PassLineKeeps, AddLineKeeps, EndReadingKeeps, EndPageKeeps, ValidateKeeps, PublishKeeps,
     GraphUnchanged
  DEF StructureNext
<1>3. GraphInvariant => GraphIsOfItsPages
  BY GraphIsDone
<1> QED
  BY <1>1, <1>2, <1>3, PTL DEF StructureSpec
=============================================================================
