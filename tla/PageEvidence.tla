---------------------------- MODULE PageEvidence ----------------------------
(***************************************************************************)
(* The root that page-probe, transcribe and transcription-check share.     *)
(* A run packs its pages one by one (a private directory renamed into      *)
(* place), then its bundles, then a manifest that names what it packed,    *)
(* then an index that names the manifest; at last the whole root must be   *)
(* what the indexes reach, or the run raises.  There is no lock, and       *)
(* nobody removes what a run that died has left behind.                    *)
(*                                                                         *)
(* One action is one file or directory that appears, or one page's end.    *)
(***************************************************************************)
EXTENDS PageRoot

CONSTANTS
  Todo, Failed, \* what a page is before and instead of its package
  MaxRuns       \* bound: runs in one behaviour

PackageState == Variant \cup {Failed}          \* how a page ends
StagedState  == {<<v>> : v \in Variant}        \* in the private directory

ConstantsAssumption ==
  /\ NumPages \in Nat \ {0} /\ MaxRuns \in Nat
  /\ None \notin PackageState /\ Failed \notin Variant
  /\ Todo \notin PackageState /\ StagedState \cap (PackageState \cup {Todo}) = {}

VARIABLES
  printed,     \* the manifests whose path a run that returned has printed
  runs

contents == <<packages, bundles, manifests, indexes, litter>>
files == <<contents, trees>>
vars  == <<root, printed, runs>>

Init ==
  /\ packages = [k \in Stage \X Page |-> None]
  /\ bundles = {}
  /\ manifests = {}
  /\ indexes = {}
  /\ trees = [s \in Stage |-> "none"]
  /\ litter = FALSE
  /\ printed = {}
  /\ process = [p \in Process |-> Idle]
  /\ mishap = NoMishap
  /\ concurrent = FALSE
  /\ runs = 0

-----------------------------------------------------------------------------
Command(at, stage, of, pages) == [at |-> at, stage |-> stage, of |-> of, pages |-> pages]
Become(p, r) == process' = [process EXCEPT ![p] = r]

Start(p, r) ==
  /\ process[p] = Idle
  /\ runs < MaxRuns
  /\ runs' = runs + 1
  /\ Become(p, r)
  /\ concurrent' = (concurrent \/ ~Alone(p))
  /\ UNCHANGED <<files, printed, mishap>>

\* build_page_probe on any legal selection of pages.
StartProbe(p, selection) ==
  Start(p, Command("pages", "probe", None, [x \in selection |-> Todo]))

\* build_transcription of a printed probe: a page that failed there fails here.
StartTranscribe(p, m) ==
  /\ m.stage = "probe"
  /\ Start(p, Command("pages", "transcribe", m,
                      [x \in DOMAIN m.pages |-> IF x \in Ready(m.pages) THEN Todo ELSE Failed]))

\* check_transcription: what it holds against the manifest.
Blockers(m) ==
  {x \in DOMAIN m.pages : m.pages[x] = Failed}
    \cup {x \in Ready(m.pages) : packages[<<"transcribe", x>>] # m.pages[x]}

StartCheck(p, m) ==
  /\ m.stage = "transcribe"
  /\ Start(p, Command("manifest", "check", m, [x \in Blockers(m) |-> Failed]))

-----------------------------------------------------------------------------
(* The pages: threads of a pool, in any order. *)

Working(p, x) == process[p].at = "pages" /\ x \in DOMAIN process[p].pages
PageIs(p, x, state) == Working(p, x) /\ process[p].pages[x] = state
Path(p, x) == <<process[p].stage, x>>
End(p, x, result) ==
  Become(p, Command("pages", process[p].stage, process[p].of,
                    [process[p].pages EXCEPT ![x] = result]))

\* ensure_private_tree makes the directory that a stage's packages have in common;
\* nobody removes it.  As long as it is empty, a page that fails while it is packed
\* spoils it.
MakeTree(p) ==
  trees' = [trees EXCEPT ![process[p].stage] = IF @ = "none" THEN "made" ELSE @]
SpoilTree(p) ==
  trees' = [trees EXCEPT ![process[p].stage] = IF @ = "packed" THEN @ ELSE "spoilt"]
FillTree(p) == trees' = [trees EXCEPT ![process[p].stage] = "packed"]

\* The package is there and re-attested: nothing is run again.
ReusePage(p, x) ==
  /\ PageIs(p, x, Todo)
  /\ packages[Path(p, x)] # None
  /\ End(p, x, packages[Path(p, x)])
  /\ UNCHANGED <<files, printed, mishap, concurrent, runs>>

\* The worker has run; its files are in a private directory beside the path.
StageProbe(p, x, v) ==
  /\ PageIs(p, x, Todo)
  /\ process[p].stage = "probe"
  /\ packages[Path(p, x)] = None
  /\ End(p, x, <<v>>)
  /\ MakeTree(p)
  /\ UNCHANGED <<contents, printed, mishap, concurrent, runs>>

\* OCR reads the package of the probe, by the digest its manifest gives.
StageTranscription(p, x, v) ==
  /\ PageIs(p, x, Todo)
  /\ process[p].stage = "transcribe"
  /\ packages[<<"probe", x>>] = process[p].of.pages[x]
  /\ packages[Path(p, x)] = None
  /\ End(p, x, <<v>>)
  /\ MakeTree(p)
  /\ UNCHANGED <<contents, printed, mishap, concurrent, runs>>

IsStaged(p, x, v) == PageIs(p, x, <<v>>)

\* The private directory is removed, the page is failed.
Discard(p, x) == End(p, x, Failed)

\* A time-out, a crash of the worker, no OCR toolchain, a package that is there and
\* does not attest, a failing system call before packing or while packing: the page
\* ends, its private directory is removed.
FailPage(p, x) ==
  /\ Working(p, x)
  /\ process[p].pages[x] \in {Todo} \cup StagedState
  /\ Discard(p, x)
  /\ SpoilTree(p) \/ (process[p].pages[x] = Todo /\ UNCHANGED trees)
  /\ UNCHANGED <<contents, printed, mishap, concurrent, runs>>

\* Seeded fault: a package that came first is taken for one's own.
InstallPackageUnchecked(p, x, v) ==
  /\ IsStaged(p, x, v)
  /\ End(p, x, v)
  /\ packages' = [packages EXCEPT ![Path(p, x)] = IF @ = None THEN v ELSE @]
  /\ FillTree(p)
  /\ UNCHANGED <<bundles, manifests, indexes, litter, printed, mishap, concurrent, runs>>

\* A package that came first is adopted if it is byte for byte one's own.
Adopted(p, x, v) == packages[Path(p, x)] = v

\* install_terminal_directory: the rename, or the package that came first.
InstallPackage(p, x, v) ==
  /\ IsStaged(p, x, v)
  /\ \/ /\ packages[Path(p, x)] = None
        /\ packages' = [packages EXCEPT ![Path(p, x)] = v]
        /\ FillTree(p)
        /\ End(p, x, v)
     \/ /\ packages[Path(p, x)] # None
        /\ IF Adopted(p, x, v) THEN End(p, x, v) ELSE Discard(p, x)
        /\ UNCHANGED <<packages, trees>>
  /\ UNCHANGED <<bundles, manifests, indexes, litter, printed, mishap, concurrent, runs>>

\* The fsync after the rename fails: the page is failed, the package stays.
SyncFails(p, x, v) ==
  /\ IsStaged(p, x, v)
  /\ packages[Path(p, x)] = None
  /\ mishap = NoMishap
  /\ mishap' = [kind |-> "sync", run |-> Identity(process[p])]
  /\ End(p, x, Failed)
  /\ packages' = [packages EXCEPT ![Path(p, x)] = v]
  /\ FillTree(p)
  /\ UNCHANGED <<bundles, manifests, indexes, litter, printed, concurrent, runs>>

-----------------------------------------------------------------------------
(* The rest of the run, one file after the other. *)

Advance(p, at) == Become(p, Command(at, process[p].stage, process[p].of, process[p].pages))

PagesEnd(p) ==
  /\ process[p].at = "pages"
  /\ \A x \in DOMAIN process[p].pages : process[p].pages[x] \in PackageState
  /\ Advance(p, IF process[p].stage = "transcribe" THEN "bundles" ELSE "manifest")
  /\ UNCHANGED <<files, printed, mishap, concurrent, runs>>

Missing(p) == BundlesOf(process[p].pages) \ bundles

\* In sequence; one that is there is reused.
InstallBundle(p) ==
  /\ process[p].at = "bundles"
  /\ \E b \in Missing(p) :
       /\ \A c \in Missing(p) : b.sequence <= c.sequence
       /\ bundles' = bundles \cup {b}
  /\ UNCHANGED <<packages, manifests, indexes, trees, litter, printed, process, mishap, concurrent, runs>>

BundlesEnd(p) ==
  /\ process[p].at = "bundles"
  /\ Missing(p) = {}
  /\ Advance(p, "manifest")
  /\ UNCHANGED <<files, printed, mishap, concurrent, runs>>

InstallManifest(p) ==
  /\ process[p].at = "manifest"
  /\ manifests' = manifests \cup {ManifestOf(process[p])}
  /\ Advance(p, "index")
  /\ UNCHANGED <<packages, bundles, indexes, trees, litter, printed, mishap, concurrent, runs>>

\* The report of a check is installed alike, but takes no inventory.
InstallReport(p) ==
  /\ process[p].at = "index"
  /\ process[p].stage = "check"
  /\ indexes' = indexes \cup {ManifestOf(process[p])}
  /\ Become(p, Idle)
  /\ UNCHANGED <<packages, bundles, manifests, trees, litter, printed, mishap, concurrent, runs>>

InstallIndex(p) ==
  /\ process[p].at = "index"
  /\ process[p].stage # "check"
  /\ indexes' = indexes \cup {ManifestOf(process[p])}
  /\ Advance(p, "inventory")
  /\ UNCHANGED <<packages, bundles, manifests, trees, litter, printed, mishap, concurrent, runs>>

\* The run returns and prints its manifest, or it raises.
CheckInventory(p) ==
  /\ process[p].at = "inventory"
  /\ printed' = IF Accounted THEN printed \cup {ManifestOf(process[p])} ELSE printed
  /\ Become(p, Idle)
  /\ UNCHANGED <<files, mishap, concurrent, runs>>

\* The process dies, or a write of the run itself fails.  A page being packed
\* leaves its private directory or the empty tree; a bundle, a manifest or an index,
\* a temporary file or an empty directory; or nothing is left.
Crash(p) ==
  /\ process[p] # Idle
  /\ mishap = NoMishap
  /\ mishap' = [kind |-> "crash", run |-> Identity(process[p])]
  /\ \/ /\ process[p].at = "pages"
        /\ litter' = (litter \/ Staged(p))
        /\ MakeTree(p) \/ UNCHANGED trees
     \/ /\ process[p].at \in {"bundles", "manifest", "index"}
        /\ litter' \in {litter, TRUE}
        /\ UNCHANGED trees
     \/ process[p].at = "inventory" /\ UNCHANGED <<litter, trees>>
  /\ Become(p, Idle)
  /\ UNCHANGED <<packages, bundles, manifests, indexes, printed, concurrent, runs>>

Next ==
  \E p \in Process :
    \/ \E selection \in (SUBSET Page) \ {{}} : StartProbe(p, selection)
    \/ \E m \in printed : StartTranscribe(p, m) \/ StartCheck(p, m)
    \/ \E x \in Page : ReusePage(p, x) \/ FailPage(p, x)
    \/ \E x \in Page, v \in Variant :
         \/ StageProbe(p, x, v) \/ StageTranscription(p, x, v)
         \/ InstallPackage(p, x, v) \/ SyncFails(p, x, v)
    \/ PagesEnd(p) \/ InstallBundle(p) \/ BundlesEnd(p)
    \/ InstallManifest(p) \/ InstallReport(p) \/ InstallIndex(p)
    \/ CheckInventory(p) \/ Crash(p)

Spec == Init /\ [][Next]_vars

-----------------------------------------------------------------------------
TypeOK ==
  /\ packages \in [Stage \X Page -> Variant \cup {None}]
  /\ trees \in [Stage -> {"none", "made", "spoilt", "packed"}]
  /\ litter \in BOOLEAN /\ concurrent \in BOOLEAN
  /\ DOMAIN process = Process
  /\ \A p \in Process :
       process[p] # Idle =>
         /\ process[p].at \in {"pages", "bundles", "manifest", "index", "inventory"}
         /\ process[p].stage \in Stage \cup {"check"}
         /\ process[p].pages \in
              [DOMAIN process[p].pages -> PackageState \cup StagedState \cup {Todo}]
         /\ DOMAIN process[p].pages \subseteq Page
  /\ runs \in 0..MaxRuns
=============================================================================
