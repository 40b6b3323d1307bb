----------------------------- MODULE PartsProofs -----------------------------
(***************************************************************************)
(* Proofs about the parts of the service beside its checks and of the      *)
(* tools: each part's state and promise are a module that this one         *)
(* extends, and its steps an instance of another.                          *)
(***************************************************************************)
EXTENDS TLAPS, FiniteSetTheorems, RulePacks, OcrEngine,
        PageStages, TranscriptTables, RuleFiles, Publications, RunReport, BrowserTab

CONSTANTS Ids, Threads, MaxTicks, CharCounts, Coverages, Inks, Confidences, MaxOnPage,
          Extractions, Process, MaxRuns, Person, Workspace, MaxTokens,
          Record, RuleKey, Mappings, Revision, Version, Meaning, Breakages,
          Selections, EntityLimit

VARIABLES work, imports, pending, command, rows, runs, content

Catalogue == INSTANCE RulePackCatalogue
Queue == INSTANCE OcrQueue
Pipeline == INSTANCE PagePipeline
Import == INSTANCE InbrImport
Tab == INSTANCE WebSession
Rules == INSTANCE RulePipeline
Bundle == INSTANCE Publication
Model == INSTANCE Verdict

-----------------------------------------------------------------------------
\* The rule pack catalogue.
PackRow == [name : {i.name : i \in Ids}, file : Seeder]
PackBytes == {i.bytes : i \in Ids}

SeederPc == {"called", "absent", "valid", "invalid", "stored", "created", "skipped",
             "lost", "raised", "crashed"}

AnEvaluation ==
  [pc : {"none", "requested", "checked", "evaluated"}, pack : PackRow \cup {None},
   cited : PackBytes \cup {None}, evaluated : SUBSET PackBytes]

CatalogueType ==
  /\ packs \subseteq PackRow
  /\ storage \subseteq [of : Seeder, bytes : PackBytes]
  /\ seeders \in [Seeder -> [pc : SeederPc, ids : Ids]]
  /\ evaluations \in [Evaluation -> AnEvaluation]

\* A row is that of the one seeder that created it, and names are unique.
PacksAreOfSeeders ==
  /\ \A p \in packs : AtSeeder(p.file, "created") /\ p.name = seeders[p.file].ids.name
  /\ \A p, q \in packs : p.name = q.name => p = q
  /\ \A s \in Seeder : AtSeeder(s, "created") => \E p \in packs : p.file = s

\* A file has the bytes its seeder brought, and is there while its seeder may need it.
FilesAreOfSeeders ==
  /\ \A f \in storage : /\ f.bytes = seeders[f.of].ids.bytes
                        /\ seeders[f.of].pc \in {"stored", "created", "crashed"}
  /\ \A s \in Seeder : seeders[s].pc \in {"stored", "created"} =>
       [of |-> s, bytes |-> seeders[s].ids.bytes] \in storage

\* Who was refused, or skipped, was so for a pack of the name it brought.
RefusedForAPack ==
  \A s \in Seeder : seeders[s].pc \in {"skipped", "lost"} =>
    \E p \in packs : p.name = seeders[s].ids.name

\* A check run that was requested cites a pack and the bytes of that pack's seeder.
CitedIsThere ==
  \A r \in Evaluation : evaluations[r].pc # "none" =>
    /\ evaluations[r].pack \in packs
    /\ evaluations[r].cited = seeders[evaluations[r].pack.file].ids.bytes
    /\ evaluations[r].pc = "evaluated" => evaluations[r].evaluated = {evaluations[r].cited}

CatalogueInvariant ==
  /\ CatalogueType /\ PacksAreOfSeeders /\ FilesAreOfSeeders /\ RefusedForAPack /\ CitedIsThere

\* What is read back for a pack are the bytes its seeder brought.
LEMMA PackHasItsBytes ==
  ASSUME CatalogueType, PacksAreOfSeeders, FilesAreOfSeeders, NEW p \in packs
  PROVE  /\ Catalogue!BytesOf(p) = {seeders[p.file].ids.bytes}
         /\ Stored(p.file) # {}
<1>1. p.file \in Seeder /\ seeders[p.file].pc = "created"
  BY DEF CatalogueType, AnEvaluation, PackRow, PacksAreOfSeeders, AtSeeder
<1>2. [of |-> p.file, bytes |-> seeders[p.file].ids.bytes] \in storage
  BY <1>1 DEF FilesAreOfSeeders
<1>3. \A f \in storage : f.of = p.file => f.bytes = seeders[p.file].ids.bytes
  BY DEF FilesAreOfSeeders
<1> QED  BY <1>2, <1>3 DEF Catalogue!BytesOf, Catalogue!Stored, Stored

LEMMA CatalogueInit ==
  Catalogue!Init => CatalogueInvariant
<1> SUFFICES ASSUME Catalogue!Init PROVE CatalogueInvariant
  OBVIOUS
<1>1. CatalogueType
  BY DEF Catalogue!Init, CatalogueType, AnEvaluation, SeederPc
<1>2. PacksAreOfSeeders /\ FilesAreOfSeeders /\ RefusedForAPack /\ CitedIsThere
  BY DEF Catalogue!Init, PacksAreOfSeeders, FilesAreOfSeeders, RefusedForAPack, CitedIsThere, AtSeeder
<1> QED  BY <1>1, <1>2 DEF CatalogueInvariant

\* What a step needs to know of the seeder that takes it.
LEMMA CatalogueStep ==
  ASSUME Catalogue!ConstantsAssumption, CatalogueInvariant, [Catalogue!Next]_catalogue
  PROVE  CatalogueInvariant'
<1> USE DEF CatalogueInvariant
<1> DEFINE Goes(s, pc) ==
      /\ s \in Seeder /\ pc \in SeederPc
      /\ seeders' = [seeders EXCEPT ![s].pc = pc]
<1>type. ASSUME NEW s \in Seeder, NEW pc \in SeederPc, Goes(s, pc)
         PROVE  /\ seeders' \in [Seeder -> [pc : SeederPc, ids : Ids]]
                /\ \A t \in Seeder : seeders'[t].ids = seeders[t].ids
                /\ \A t \in Seeder : seeders'[t].pc = IF t = s THEN pc ELSE seeders[t].pc
  BY <1>type DEF CatalogueType, AnEvaluation
<1>rows. \A p \in packs : p.file \in Seeder
  BY DEF CatalogueType, AnEvaluation, PackRow
<1>files. \A f \in storage : f.of \in Seeder
  BY DEF CatalogueType, AnEvaluation
<1>eval. \A r \in Evaluation : evaluations[r].pc # "none" => evaluations[r].pack.file \in Seeder
  BY <1>rows DEF CitedIsThere
<1> USE DEF Catalogue!GoesTo, Catalogue!AtSeeder, AtSeeder
<1>1. ASSUME NEW s \in Seeder, NEW pc \in SeederPc \ {"created", "stored"}, Goes(s, pc),
             UNCHANGED <<packs, storage, evaluations>>,
             seeders[s].pc \in {"called", "absent", "valid", "lost"} \/ (seeders[s].pc = "stored" /\ pc = "crashed"),
             pc \in {"skipped", "lost"} => \E p \in packs : p.name = seeders[s].ids.name
      PROVE  CatalogueInvariant'
  <2>1. CatalogueType'
    BY <1>1, <1>type DEF CatalogueType, AnEvaluation
  <2>2. PacksAreOfSeeders'
    BY <1>1, <1>type, <1>rows DEF PacksAreOfSeeders
  <2>3. FilesAreOfSeeders'
    BY <1>1, <1>type, <1>files DEF FilesAreOfSeeders
  <2>4. RefusedForAPack'
    BY <1>1, <1>type DEF RefusedForAPack
  <2>5. CitedIsThere'
    BY <1>1, <1>type, <1>eval DEF CitedIsThere
  <2> QED  BY <2>1, <2>2, <2>3, <2>4, <2>5
<1>2. ASSUME NEW s \in Seeder, Catalogue!Look(s) \/ Catalogue!LookAgain(s) \/ Catalogue!Clean(s) \/ Catalogue!Crash(s)
      PROVE  CatalogueInvariant'
  <2>1. ASSUME Catalogue!Matching(seeders[s].ids.title) # {}
        PROVE  \E p \in packs : p.name = seeders[s].ids.name
    <3>1. PICK p \in packs : p.name = seeders[s].ids.title
      BY <2>1 DEF Catalogue!Matching
    <3>2. seeders[p.file].ids \in Ids /\ seeders[s].ids \in Ids /\ p.name = seeders[p.file].ids.name
      BY <1>rows DEF CatalogueType, AnEvaluation, PacksAreOfSeeders
    <3> QED  BY <3>1, <3>2 DEF Catalogue!ConstantsAssumption
  <2>2. CASE Catalogue!Look(s)
    <3> DEFINE pc == IF Catalogue!Matching(seeders[s].ids.title) = {} THEN "absent" ELSE "skipped"
    <3>1. Goes(s, pc) /\ pc \in SeederPc \ {"created", "stored"}
      BY <2>2 DEF Catalogue!Look, SeederPc
    <3>2. pc = "skipped" => \E p \in packs : p.name = seeders[s].ids.name
      BY <2>1
    <3> QED  BY <1>1, <2>2, <3>1, <3>2 DEF Catalogue!Look
  <2>3. CASE Catalogue!LookAgain(s)
    <3> DEFINE pc == IF Catalogue!Matching(seeders[s].ids.title) = {} THEN "raised" ELSE "skipped"
    <3>1. Goes(s, pc) /\ pc \in SeederPc \ {"created", "stored"}
      BY <2>3 DEF Catalogue!LookAgain, SeederPc
    <3>2. pc = "skipped" => \E p \in packs : p.name = seeders[s].ids.name
      BY <2>1
    <3> QED  BY <1>1, <2>3, <3>1, <3>2 DEF Catalogue!LookAgain
  <2>4. CASE Catalogue!Clean(s)
    <3> DEFINE pc == IF Catalogue!Matching(seeders[s].ids.name) = {} THEN "valid" ELSE "invalid"
    <3>1. Goes(s, pc) /\ pc \in SeederPc \ {"created", "stored", "skipped", "lost"}
      BY <2>4 DEF Catalogue!Clean, SeederPc
    <3> QED  BY <1>1, <2>4, <3>1 DEF Catalogue!Clean
  <2>5. CASE Catalogue!Crash(s)
    <3>1. seeders[s].pc \in {"called", "absent", "valid", "lost", "stored"}
      BY <2>5 DEF Catalogue!Crash, Catalogue!SeedEnds, CatalogueType, SeederPc
    <3>2. Goes(s, "crashed") /\ "crashed" \in SeederPc \ {"created", "stored"}
      BY <2>5 DEF Catalogue!Crash, SeederPc
    <3> QED  BY <1>1, <2>5, <3>1, <3>2 DEF Catalogue!Crash
  <2> QED  BY <1>2, <2>2, <2>3, <2>4, <2>5
<1>3. ASSUME NEW s \in Seeder, Catalogue!Store(s)
      PROVE  CatalogueInvariant'
  <2> DEFINE new == [of |-> s, bytes |-> seeders[s].ids.bytes]
  <2>1. Goes(s, "stored") /\ "stored" \in SeederPc
    BY <1>3 DEF Catalogue!Store, SeederPc
  <2>at. /\ \A t \in Seeder : seeders'[t].ids = seeders[t].ids
         /\ \A t \in Seeder : seeders'[t].pc = IF t = s THEN "stored" ELSE seeders[t].pc
    BY <1>type, <2>1
  <2>2. /\ AtSeeder(s, "valid") /\ packs' = packs /\ evaluations' = evaluations
        /\ storage' = storage \cup {new}
        /\ new \in [of : Seeder, bytes : PackBytes]
    BY <1>3 DEF Catalogue!Store, CatalogueType, PackBytes
  <2>3. CatalogueType'
    BY <1>type, <2>1, <2>2 DEF CatalogueType, AnEvaluation
  <2>4. PacksAreOfSeeders'
    BY <1>type, <1>rows, <2>1, <2>2 DEF PacksAreOfSeeders
  <2>5. FilesAreOfSeeders'
    <3>1. ASSUME NEW f \in storage'
          PROVE  f.bytes = seeders'[f.of].ids.bytes /\ seeders'[f.of].pc \in {"stored", "created", "crashed"}
      <4>1. CASE f = new
        BY <2>at, <4>1
      <4>2. CASE f \in storage
        <5>1. f.of \in Seeder /\ f.bytes = seeders[f.of].ids.bytes
              /\ seeders[f.of].pc \in {"stored", "created", "crashed"}
          BY <1>files, <4>2 DEF FilesAreOfSeeders
        <5> QED  BY <2>at, <5>1
      <4> QED  BY <2>2, <3>1, <4>1, <4>2
    <3>2. ASSUME NEW t \in Seeder, seeders'[t].pc \in {"stored", "created"}
          PROVE  [of |-> t, bytes |-> seeders'[t].ids.bytes] \in storage'
      <4>1. CASE t = s
        BY <1>type, <2>1, <2>2, <4>1
      <4>2. CASE t # s
        <5>1. seeders[t].pc \in {"stored", "created"} /\ seeders'[t].ids = seeders[t].ids
          BY <1>type, <2>1, <3>2, <4>2
        <5> QED  BY <2>2, <5>1 DEF FilesAreOfSeeders
      <4> QED  BY <4>1, <4>2
    <3> QED  BY <3>1, <3>2 DEF FilesAreOfSeeders
  <2>6. RefusedForAPack'
    BY <1>type, <2>1, <2>2 DEF RefusedForAPack
  <2>7. CitedIsThere'
    BY <1>type, <1>eval, <2>1, <2>2 DEF CitedIsThere
  <2> QED  BY <2>3, <2>4, <2>5, <2>6, <2>7
<1>4. ASSUME NEW s \in Seeder, Catalogue!Insert(s)
      PROVE  CatalogueInvariant'
  <2> DEFINE new == [name |-> seeders[s].ids.name, file |-> s]
  <2>1. Goes(s, "created") /\ "created" \in SeederPc
    BY <1>4 DEF Catalogue!Insert, SeederPc
  <2>at. /\ \A t \in Seeder : seeders'[t].ids = seeders[t].ids
         /\ \A t \in Seeder : seeders'[t].pc = IF t = s THEN "created" ELSE seeders[t].pc
    BY <1>type, <2>1
  <2>2. /\ AtSeeder(s, "stored") /\ storage' = storage /\ evaluations' = evaluations
        /\ packs' = packs \cup {new} /\ new \in PackRow
        /\ \A p \in packs : p.name # new.name
    BY <1>4 DEF Catalogue!Insert, Catalogue!Matching, CatalogueType, PackRow
  <2>3. CatalogueType'
    BY <1>type, <2>1, <2>2 DEF CatalogueType, AnEvaluation
  <2>4. PacksAreOfSeeders'
    <3>1. ASSUME NEW p \in packs'
          PROVE  seeders'[p.file].pc = "created" /\ p.name = seeders'[p.file].ids.name
      <4>1. CASE p = new
        BY <2>at, <4>1
      <4>2. CASE p \in packs
        <5>1. p.file \in Seeder /\ seeders[p.file].pc = "created" /\ p.name = seeders[p.file].ids.name
          BY <1>rows, <4>2 DEF PacksAreOfSeeders
        <5> QED  BY <2>at, <5>1
      <4> QED  BY <2>2, <3>1, <4>1, <4>2
    <3>2. (\A p, q \in packs : p.name = q.name => p = q)'
      BY <2>2 DEF PacksAreOfSeeders
    <3>3. (\A t \in Seeder : AtSeeder(t, "created") => \E p \in packs : p.file = t)'
      BY <1>type, <2>1, <2>2 DEF PacksAreOfSeeders
    <3> QED  BY <3>1, <3>2, <3>3 DEF PacksAreOfSeeders
  <2>5. FilesAreOfSeeders'
    BY <1>type, <1>files, <2>1, <2>2 DEF FilesAreOfSeeders
  <2>6. RefusedForAPack'
    BY <1>type, <2>1, <2>2 DEF RefusedForAPack
  <2>7. CitedIsThere'
    BY <1>type, <1>eval, <2>1, <2>2 DEF CitedIsThere
  <2> QED  BY <2>3, <2>4, <2>5, <2>6, <2>7
<1>5. ASSUME NEW s \in Seeder, Catalogue!Withdraw(s)
      PROVE  CatalogueInvariant'
  <2>1. Goes(s, "lost") /\ "lost" \in SeederPc
    BY <1>5 DEF Catalogue!Withdraw, SeederPc
  <2>at. /\ \A t \in Seeder : seeders'[t].ids = seeders[t].ids
         /\ \A t \in Seeder : seeders'[t].pc = IF t = s THEN "lost" ELSE seeders[t].pc
    BY <1>type, <2>1
  <2>2. /\ AtSeeder(s, "stored") /\ packs' = packs /\ evaluations' = evaluations
        /\ storage' = {f \in storage : f.of # s}
        /\ \E p \in packs : p.name = seeders[s].ids.name
    BY <1>5 DEF Catalogue!Withdraw, Catalogue!Matching, Catalogue!Stored
  <2>3. CatalogueType'
    BY <1>type, <2>1, <2>2 DEF CatalogueType, AnEvaluation
  <2>4. PacksAreOfSeeders'
    BY <1>type, <1>rows, <2>1, <2>2 DEF PacksAreOfSeeders
  <2>5. FilesAreOfSeeders'
    <3>1. ASSUME NEW f \in storage'
          PROVE  f.bytes = seeders'[f.of].ids.bytes /\ seeders'[f.of].pc \in {"stored", "created", "crashed"}
      <4>1. f \in storage /\ f.of \in Seeder /\ f.of # s
        BY <1>files, <2>2, <3>1
      <4>2. f.bytes = seeders[f.of].ids.bytes /\ seeders[f.of].pc \in {"stored", "created", "crashed"}
        BY <4>1 DEF FilesAreOfSeeders
      <4> QED  BY <1>type, <2>1, <4>1, <4>2
    <3>2. ASSUME NEW t \in Seeder, seeders'[t].pc \in {"stored", "created"}
          PROVE  [of |-> t, bytes |-> seeders'[t].ids.bytes] \in storage'
      <4>1. t # s /\ seeders[t].pc \in {"stored", "created"} /\ seeders'[t].ids = seeders[t].ids
        BY <2>at, <3>2
      <4> QED  BY <2>2, <4>1 DEF FilesAreOfSeeders
    <3> QED  BY <3>1, <3>2 DEF FilesAreOfSeeders
  <2>6. RefusedForAPack'
    BY <1>type, <2>1, <2>2 DEF RefusedForAPack
  <2>7. CitedIsThere'
    BY <1>type, <1>eval, <2>1, <2>2 DEF CitedIsThere
  <2> QED  BY <2>3, <2>4, <2>5, <2>6, <2>7
<1>6. ASSUME NEW r \in Evaluation,
             Catalogue!Request(r) \/ Catalogue!Checksum(r) \/ Catalogue!Evaluate(r)
      PROVE  CatalogueInvariant'
  <2>1. packs' = packs /\ storage' = storage /\ seeders' = seeders
    BY <1>6 DEF Catalogue!Request, Catalogue!Checksum, Catalogue!Evaluate
  <2>2. PacksAreOfSeeders' /\ FilesAreOfSeeders' /\ RefusedForAPack'
    BY <2>1 DEF PacksAreOfSeeders, FilesAreOfSeeders, RefusedForAPack
  <2> SUFFICES CatalogueType' /\ CitedIsThere'
    BY <2>2
  <2>t. evaluations \in [Evaluation -> AnEvaluation] /\ CatalogueType
    BY DEF CatalogueType, AnEvaluation
  <2>3. CASE Catalogue!Request(r)
    <3>0. PICK p \in packs : \E b \in Catalogue!BytesOf(p) :
            evaluations' = [evaluations EXCEPT ![r] = [@ EXCEPT !.pc = "requested", !.pack = p, !.cited = b]]
      BY <2>3 DEF Catalogue!Request
    <3>1. PICK b \in Catalogue!BytesOf(p) :
            evaluations' = [evaluations EXCEPT ![r] = [@ EXCEPT !.pc = "requested", !.pack = p, !.cited = b]]
      BY <3>0
    <3>2. b = seeders[p.file].ids.bytes /\ b \in PackBytes /\ p \in PackRow
      BY <1>rows, PackHasItsBytes DEF CatalogueType, AnEvaluation, PackBytes
    <3>3. CatalogueType'
      <4>1. [evaluations[r] EXCEPT !.pc = "requested", !.pack = p, !.cited = b] \in AnEvaluation
        BY <3>2, <2>t DEF AnEvaluation
      <4> QED  BY <2>1, <2>t, <3>1, <4>1 DEF CatalogueType, AnEvaluation
    <3>4. /\ \A q \in Evaluation : q # r => evaluations'[q] = evaluations[q]
          /\ evaluations'[r].pc = "requested" /\ evaluations'[r].pack = p /\ evaluations'[r].cited = b
      BY <3>1 DEF CatalogueType, AnEvaluation
    <3>5. CitedIsThere'
      BY <2>1, <3>2, <3>4 DEF CitedIsThere
    <3> QED  BY <3>3, <3>5
  <2>4. CASE Catalogue!Checksum(r)
    <3>1. Catalogue!BytesOf(evaluations[r].pack) = {evaluations[r].cited}
      BY <2>4, PackHasItsBytes DEF Catalogue!Checksum, CitedIsThere
    <3>2. evaluations' = [evaluations EXCEPT ![r].pc = "checked"]
      BY <2>4, <3>1 DEF Catalogue!Checksum
    <3> QED  BY <2>1, <2>4, <3>2 DEF CatalogueType, AnEvaluation, CitedIsThere, Catalogue!Checksum
  <2>5. CASE Catalogue!Evaluate(r)
    <3>1. /\ Catalogue!BytesOf(evaluations[r].pack) = {evaluations[r].cited}
          /\ evaluations[r].cited \in PackBytes
      <4>1. evaluations[r].pack \in packs /\ evaluations[r].cited = seeders[evaluations[r].pack.file].ids.bytes
        BY <2>5 DEF Catalogue!Evaluate, CitedIsThere
      <4>2. seeders[evaluations[r].pack.file].ids \in Ids
        BY <1>rows, <4>1 DEF CatalogueType, AnEvaluation
      <4> QED  BY <4>1, <4>2, PackHasItsBytes DEF PackBytes
    <3>2. evaluations' = [evaluations EXCEPT ![r] =
                            [@ EXCEPT !.pc = "evaluated", !.evaluated = {evaluations[r].cited}]]
      BY <2>5, <3>1 DEF Catalogue!Evaluate
    <3>3. CatalogueType'
      <4>1. [evaluations[r] EXCEPT !.pc = "evaluated", !.evaluated = {evaluations[r].cited}] \in AnEvaluation
        BY <3>1, <2>t DEF AnEvaluation
      <4> QED  BY <2>1, <2>t, <3>2, <4>1 DEF CatalogueType, AnEvaluation
    <3>4. /\ \A q \in Evaluation : q # r => evaluations'[q] = evaluations[q]
          /\ evaluations'[r].pack = evaluations[r].pack /\ evaluations'[r].cited = evaluations[r].cited
          /\ evaluations'[r].evaluated = {evaluations[r].cited} /\ evaluations[r].pc = "checked"
      BY <2>5, <3>2 DEF CatalogueType, AnEvaluation, Catalogue!Evaluate
    <3>5. CitedIsThere'
      BY <2>1, <3>4 DEF CitedIsThere
    <3> QED  BY <3>3, <3>5
  <2> QED  BY <1>6, <2>3, <2>4, <2>5
<1>7. CASE UNCHANGED catalogue
  BY <1>7 DEF catalogue, CatalogueType, PacksAreOfSeeders, FilesAreOfSeeders, RefusedForAPack, CitedIsThere
<1> QED  BY <1>2, <1>3, <1>4, <1>5, <1>6, <1>7 DEF Catalogue!Next

LEMMA CatalogueImplies ==
  CatalogueInvariant => CatalogueIsWhole
<1> SUFFICES ASSUME CatalogueInvariant PROVE CatalogueIsWhole
  OBVIOUS
<1> USE DEF CatalogueInvariant
<1>1. EvaluatedIsCited
  BY DEF CatalogueType, AnEvaluation, CitedIsThere, EvaluatedIsCited
<1>2. FilesArePacks
  <2>1. \A p \in packs : Stored(p.file) # {}
    BY PackHasItsBytes
  <2>2. ASSUME \A s \in Seeder : seeders[s].pc \in SeedEnds, NEW f \in storage
        PROVE  seeders[f.of].pc = "crashed" \/ \E p \in packs : p.file = f.of
    <3>1. f.of \in Seeder /\ seeders[f.of].pc \in {"created", "crashed"}
      BY <2>2 DEF CatalogueType, AnEvaluation, FilesAreOfSeeders, SeedEnds
    <3> QED  BY <3>1 DEF PacksAreOfSeeders, AtSeeder
  <2> QED  BY <2>1, <2>2 DEF FilesArePacks
<1>3. SeedTellsTheTruth
  BY DEF PacksAreOfSeeders, RefusedForAPack, SeedTellsTheTruth, AtSeeder
<1> QED  BY <1>1, <1>2, <1>3 DEF CatalogueIsWhole

(* However many seeders race, lose or die, and whatever check runs cite: the   *)
(* bytes evaluated are the bytes cited, and packs and files stay a pair.       *)
THEOREM CatalogueWhole ==
  ASSUME Catalogue!ConstantsAssumption
  PROVE  Catalogue!Spec => []CatalogueIsWhole
<1>1. Catalogue!Init => CatalogueInvariant
  BY CatalogueInit
<1>2. CatalogueInvariant /\ [Catalogue!Next]_catalogue => CatalogueInvariant'
  BY CatalogueStep
<1>3. CatalogueInvariant => CatalogueIsWhole
  BY CatalogueImplies
<1> QED  BY <1>1, <1>2, <1>3, PTL DEF Catalogue!Spec, Catalogue!catalogue, catalogue

-----------------------------------------------------------------------------
\* The OCR queue.
PageState == {"queued", "running", "ready", "timed_out", "load_failed"}

QueueType ==
  /\ threads \in Nat \ {0}
  /\ ticks \in [Queued -> Nat \ {0}]
  /\ state \in [Queued -> PageState]
  /\ age \in [Queued -> Nat]
  /\ holder \in Queued \cup {Nobody}
  /\ left \in Nat
  /\ served \in Seq(Queued)

\* Who was served has ended or holds the lock, and who holds it was served last.
ServedInTurn ==
  /\ \A i, j \in 1..Len(served) : served[i] = served[j] => i = j
  /\ \A i \in 1..Len(served) : served[i] = holder \/ state[served[i]] \notin {"queued", "running"}
  /\ holder # Nobody => /\ state[holder] = "running"
                        /\ Len(served) > 0 /\ served[Len(served)] = holder

\* The stopwatch of the holder will have covered its inference when it is done.
StopwatchCovers ==
  /\ holder # Nobody => age[holder] + left >= ticks[holder]
  /\ \A p \in Queued : state[p] = "ready" => ticks[p] <= Timeout

\* With one thread the stopwatch covers nothing else.
NobodyElsesTime ==
  threads = 1 =>
    /\ \A p, q \in Queued : state[p] = "running" /\ state[q] = "running" => p = q
    /\ \A p \in Queued : state[p] = "queued" => age[p] = 0
    /\ holder = Nobody => \A p \in Queued : state[p] = "running" => age[p] = 0
    /\ holder # Nobody => age[holder] + left <= ticks[holder] + LoadTime
    /\ OnlySlowPagesTimeOut

QueueInvariant == QueueType /\ ServedInTurn /\ StopwatchCovers /\ NobodyElsesTime

LEMMA QueueSame ==
  /\ Queue!Queued = Queued /\ Queue!Nobody = Nobody
  /\ \A S : Queue!Cardinality(S) = Cardinality(S)
<1>1. ASSUME NEW S PROVE Queue!Cardinality(S) = Cardinality(S)
  BY DEF Queue!Cardinality, Cardinality, Queue!IsFiniteSet, IsFiniteSet
<1> QED  BY <1>1 DEF Queue!Queued, Queued, Queue!Nobody, Nobody

LEMMA QueueInit ==
  ASSUME Queue!ConstantsAssumption, Queue!Init
  PROVE  QueueInvariant
<1>1. QueueType
  BY DEF Queue!ConstantsAssumption, Queue!Init, QueueType, PageState, Queue!Nobody, Nobody, Queue!Queued, Queued
<1>2. ServedInTurn /\ StopwatchCovers /\ NobodyElsesTime
  BY DEF Queue!Init, ServedInTurn, StopwatchCovers, NobodyElsesTime, OnlySlowPagesTimeOut,
         Queue!Nobody, Nobody, Queue!Queued, Queued
<1> QED  BY <1>1, <1>2 DEF QueueInvariant

LEMMA QueueStep ==
  ASSUME Queue!ConstantsAssumption, QueueInvariant, [Queue!Next]_queue
  PROVE  QueueInvariant'
<1> USE QueueSame DEF QueueInvariant
<1>a. /\ QueueSize \in Nat /\ Timeout \in Nat /\ LoadTime \in Nat
      /\ \A p \in Queued : p \in Nat /\ p # Nobody
  BY DEF Queue!ConstantsAssumption, Queued, Nobody
<1>1. ASSUME NEW p \in Queued, Queue!Begin(p) PROVE QueueInvariant'
  <2>1. /\ state[p] = "queued" /\ Cardinality(Queue!Running) < threads
        /\ state' = [state EXCEPT ![p] = "running"]
        /\ UNCHANGED <<threads, ticks, age, holder, left, served>>
    BY <1>1 DEF Queue!Begin
  <2>2. \A q \in Queued : state'[q] = IF q = p THEN "running" ELSE state[q]
    BY <2>1 DEF QueueType
  <2>3. QueueType'
    BY <2>1 DEF QueueType, PageState
  <2>4. p # holder
    BY <1>a, <2>1 DEF ServedInTurn
  <2>5. \A i \in 1..Len(served) : served[i] \in Queued
    BY DEF QueueType
  <2>6. ServedInTurn'
    <3>1. \A i \in 1..Len(served) : served[i] # p
      BY <2>1, <2>4 DEF ServedInTurn
    <3> QED  BY <2>1, <2>2, <2>4, <2>5, <3>1 DEF ServedInTurn, QueueType
  <2>7. StopwatchCovers'
    BY <2>1, <2>2 DEF StopwatchCovers, QueueType
  <2>8. NobodyElsesTime'
    <3> SUFFICES ASSUME threads = 1 PROVE NobodyElsesTime'
      BY <2>1 DEF NobodyElsesTime
    <3>1. Queue!Running = {}
      <4>1. IsFiniteSet(Queued)
        BY <1>a, FS_Interval DEF Queued
      <4>2. IsFiniteSet(Queue!Running)
        BY <4>1, FS_Subset DEF Queue!Running
      <4>3. Cardinality(Queue!Running) \in Nat
        BY <4>2, FS_CardinalityType
      <4>4. Cardinality(Queue!Running) = 0
        BY <2>1, <4>3
      <4> QED  BY <4>2, <4>4, FS_EmptySet
    <3>2. \A q \in Queued : state'[q] = "running" => q = p
      BY <2>2, <3>1 DEF Queue!Running
    <3>3. holder = Nobody
      BY <3>1 DEF ServedInTurn, QueueType, Queue!Running
    <3> QED  BY <2>1, <2>2, <3>2, <3>3 DEF NobodyElsesTime, OnlySlowPagesTimeOut
  <2> QED  BY <2>3, <2>6, <2>7, <2>8
<1>2. ASSUME NEW p \in Queued, Queue!Acquire(p) PROVE QueueInvariant'
  <2>1. /\ state[p] = "running" /\ holder = Nobody /\ holder' = p
        /\ left' \in {ticks[p], ticks[p] + LoadTime}
        /\ served' = Append(served, p)
        /\ UNCHANGED <<threads, ticks, state, age>>
    BY <1>a, <1>2 DEF Queue!Acquire, Queue!Free, QueueType
  <2>2. ticks[p] \in Nat /\ left' \in Nat /\ age[p] \in Nat
    BY <1>a, <2>1 DEF QueueType
  <2>3. QueueType'
    BY <2>1, <2>2 DEF QueueType
  <2>4. ServedInTurn'
    <3>1. /\ Len(served') = Len(served) + 1 /\ Len(served) \in Nat
          /\ \A i \in 1..Len(served) : served'[i] = served[i] /\ served[i] \in Queued
          /\ served'[Len(served) + 1] = p
      BY <2>1 DEF QueueType
    <3>2. \A i \in 1..Len(served) : served[i] # p /\ state[served[i]] \notin {"queued", "running"}
      BY <2>1, <3>1, <1>a DEF ServedInTurn
    <3> QED  BY <1>a, <2>1, <3>1, <3>2 DEF ServedInTurn
  <2>5. StopwatchCovers'
    BY <1>a, <2>1, <2>2 DEF StopwatchCovers, QueueType
  <2>6. NobodyElsesTime'
    BY <1>a, <2>1, <2>2 DEF NobodyElsesTime, OnlySlowPagesTimeOut
  <2> QED  BY <2>3, <2>4, <2>5, <2>6
<1>3. ASSUME NEW p \in Queued, Queue!LoadFails(p) PROVE QueueInvariant'
  <2>1. /\ state[p] = "running" /\ holder = Nobody
        /\ state' = [state EXCEPT ![p] = "load_failed"]
        /\ served' = Append(served, p)
        /\ UNCHANGED <<threads, ticks, age, holder, left>>
    BY <1>3 DEF Queue!LoadFails, Queue!Free
  <2>2. \A q \in Queued : state'[q] = IF q = p THEN "load_failed" ELSE state[q]
    BY <2>1 DEF QueueType
  <2>3. QueueType'
    BY <2>1 DEF QueueType, PageState
  <2>4. ServedInTurn'
    <3>1. /\ Len(served') = Len(served) + 1 /\ Len(served) \in Nat
          /\ \A i \in 1..Len(served) : served'[i] = served[i] /\ served[i] \in Queued
          /\ served'[Len(served) + 1] = p
      BY <2>1 DEF QueueType
    <3>2. \A i \in 1..Len(served) : served[i] # p /\ state[served[i]] \notin {"queued", "running"}
      BY <2>1, <3>1, <1>a DEF ServedInTurn
    <3> QED  BY <1>a, <2>1, <2>2, <3>1, <3>2 DEF ServedInTurn
  <2>5. StopwatchCovers'
    BY <2>1, <2>2 DEF StopwatchCovers
  <2>6. NobodyElsesTime'
    BY <2>1, <2>2 DEF NobodyElsesTime, OnlySlowPagesTimeOut
  <2> QED  BY <2>3, <2>4, <2>5, <2>6
<1>4. ASSUME Queue!Tick PROVE QueueInvariant'
  <2>1. /\ holder # Nobody /\ holder \in Queued /\ left > 0 /\ left' = left - 1
        /\ age' = [p \in Queued |-> IF p \in Queue!Running THEN age[p] + 1 ELSE age[p]]
        /\ UNCHANGED <<threads, ticks, state, holder, served>>
    BY <1>4 DEF Queue!Tick, QueueType
  <2>2. \A p \in Queued : age'[p] = IF state[p] = "running" THEN age[p] + 1 ELSE age[p]
    BY <2>1 DEF Queue!Running
  <2>3. QueueType'
    BY <2>1 DEF QueueType
  <2>4. ServedInTurn'
    BY <2>1 DEF ServedInTurn
  <2>5. state[holder] = "running" /\ age'[holder] = age[holder] + 1
        /\ age[holder] \in Nat /\ ticks[holder] \in Nat /\ left \in Nat
    BY <2>1, <2>2 DEF ServedInTurn, QueueType
  <2>6. StopwatchCovers'
    BY <2>1, <2>5 DEF StopwatchCovers
  <2>7. NobodyElsesTime'
    BY <1>a, <2>1, <2>2, <2>5 DEF NobodyElsesTime, OnlySlowPagesTimeOut
  <2> QED  BY <2>3, <2>4, <2>6, <2>7
<1>5. ASSUME Queue!Finish PROVE QueueInvariant'
  <2> DEFINE end == IF Queue!Exceeded(holder) THEN "timed_out" ELSE "ready"
  <2>1. /\ holder # Nobody /\ holder \in Queued /\ left = 0 /\ holder' = Nobody
        /\ state' = [state EXCEPT ![holder] = end]
        /\ UNCHANGED <<threads, ticks, age, left, served>>
    BY <1>5 DEF Queue!Finish, QueueType
  <2>2. /\ end \in {"timed_out", "ready"}
        /\ end = "timed_out" <=> age[holder] > Timeout
    BY DEF Queue!Exceeded
  <2>3. \A q \in Queued : state'[q] = IF q = holder THEN end ELSE state[q]
    BY <2>1 DEF QueueType
  <2> HIDE DEF end
  <2>4. QueueType'
    BY <2>1, <2>2 DEF QueueType, PageState
  <2>5. ServedInTurn'
    <3>1. \A i \in 1..Len(served) : served[i] \in Queued
      BY DEF QueueType
    <3> QED  BY <2>1, <2>2, <2>3, <3>1 DEF ServedInTurn
  <2>6. state[holder] = "running" /\ age[holder] \in Nat /\ ticks[holder] \in Nat
    BY <2>1 DEF ServedInTurn, QueueType
  <2>7. StopwatchCovers'
    BY <1>a, <2>1, <2>2, <2>3, <2>6 DEF StopwatchCovers
  <2>8. NobodyElsesTime'
    BY <1>a, <2>1, <2>2, <2>3, <2>6 DEF NobodyElsesTime, OnlySlowPagesTimeOut
  <2> QED  BY <2>4, <2>5, <2>7, <2>8
<1>6. CASE UNCHANGED queue
  BY <1>6 DEF queue, QueueType, ServedInTurn, StopwatchCovers, NobodyElsesTime, OnlySlowPagesTimeOut
<1> QED  BY <1>1, <1>2, <1>3, <1>4, <1>5, <1>6 DEF Queue!Next, Queue!Done, Queue!queue, queue

(* However many threads share the engine, it is entered by one at a time, each  *)
(* page has its full time there, and with one thread no page is failed for the  *)
(* time that another one took.                                                  *)
THEOREM QueueServed ==
  ASSUME Queue!ConstantsAssumption
  PROVE  Queue!Spec => []OcrIsServed
<1>1. Queue!Init => QueueInvariant
  BY QueueInit
<1>2. QueueInvariant /\ [Queue!Next]_queue => QueueInvariant'
  BY QueueStep
<1>3. QueueInvariant => OcrIsServed
  BY DEF QueueInvariant, ServedInTurn, StopwatchCovers, NobodyElsesTime, OcrIsServed, HolderIsRunning, ServedOnce
<1> QED  BY <1>1, <1>2, <1>3, PTL DEF Queue!Spec, Queue!queue, queue

-----------------------------------------------------------------------------
\* The pipeline of a page.
MeasuresType ==
  /\ chars \in Nat /\ coverage \in Nat /\ ink \in Nat
  /\ \A t \in tokens : t.confidence \in Nat
  /\ render \in BOOLEAN

\* What a stage handed on is what the measures of the page make of it.
HandedOn ==
  /\ at \in {"start", "worked", "probed", "indexed", "transcribed", "done", "failed"}
  /\ at \notin {"start", "failed"} => render = Pipeline!RenderNeeded
  /\ at \in {"probed", "indexed", "transcribed", "done"} =>
       probe = Pipeline!Classify /\ package = Pipeline!Packaged
  /\ at \in {"transcribed", "done"} =>
       record = [state |-> Pipeline!State, flags |-> Pipeline!Flags,
                 files |-> Pipeline!TranscribedFiles, text |-> Pipeline!Text]

PipelineInvariant == MeasuresType /\ HandedOn

(* The worker's thresholds and those of _classify agree: where _classify wants  *)
(* a render there is one, and what is packed is what its route demands.         *)
LEMMA ThresholdsAgree ==
  ASSUME MeasuresType, render = Pipeline!RenderNeeded
  PROVE  /\ Pipeline!Classify # Pipeline!Raise
         /\ "render.png" \in Pipeline!Packaged <=> Pipeline!Classify.route \in OcrRoutes
         /\ Pipeline!Classify.route \in {"none", "native", "ocr", "native_plus_ocr"}
         /\ Pipeline!Classify.route = "none" => chars = 0
         /\ Pipeline!Classify.route = "ocr" => chars = 0
         /\ Pipeline!Classify.route = "native" => chars # 0
         /\ Pipeline!Classify.state = "ready" =>
              /\ chars = 0 => coverage >= ScanCoverage \/ ink <= BlankInk
              /\ chars = 0 \/ chars >= MinNativeChars
<1>0. /\ chars \in Nat /\ coverage \in Nat /\ ink \in Nat
      /\ MinNativeChars = 20 /\ MixedCoverage = 1000 /\ ScanCoverage = 8000 /\ BlankInk = 30
      /\ Pipeline!MinNativeChars = 20 /\ Pipeline!MixedCoverage = 1000
      /\ Pipeline!ScanCoverage = 8000 /\ Pipeline!BlankInk = 30
  BY DEF MeasuresType, MinNativeChars, MixedCoverage, ScanCoverage, BlankInk, Pipeline!MinNativeChars,
         Pipeline!MixedCoverage, Pipeline!ScanCoverage, Pipeline!BlankInk
<1>r. render <=> chars < 20 \/ coverage >= 1000
  <2>1. Pipeline!RenderNeeded <=> chars < 20 \/ coverage >= 1000
    BY <1>0 DEF Pipeline!RenderNeeded
  <2>2. render <=> Pipeline!RenderNeeded
    OBVIOUS
  <2> QED
    BY <2>1, <2>2
<1>1. CASE chars = 0 /\ coverage >= ScanCoverage
  <2>1. Pipeline!Classify = [route |-> "ocr", state |-> "ready"] /\ render
    BY <1>0, <1>r, <1>1 DEF Pipeline!Classify, Pipeline!Classified, Pipeline!Raise
  <2> QED  BY <1>0, <1>1, <2>1 DEF Pipeline!Raise, Pipeline!Packaged, OcrRoutes
<1>2. CASE chars = 0 /\ coverage < ScanCoverage
  <2>1. render /\ Pipeline!Classify = IF ink <= BlankInk THEN [route |-> "none", state |-> "ready"]
                                     ELSE [route |-> "ocr", state |-> "needs_review"]
    BY <1>0, <1>r, <1>2 DEF Pipeline!Classify, Pipeline!Classified, Pipeline!Raise
  <2> QED  BY <1>0, <1>2, <2>1 DEF Pipeline!Raise, Pipeline!Packaged, OcrRoutes
<1>3. CASE chars \in 1..MinNativeChars - 1
  <2>1. render /\ Pipeline!Classify = [route |-> "native_plus_ocr", state |-> "needs_review"]
    BY <1>0, <1>r, <1>3 DEF Pipeline!Classify, Pipeline!Classified, Pipeline!Raise
  <2> QED  BY <1>0, <1>3, <2>1 DEF Pipeline!Raise, Pipeline!Packaged, OcrRoutes
<1>4. CASE chars >= MinNativeChars /\ coverage >= MixedCoverage
  <2>1. render /\ Pipeline!Classify = [route |-> "native_plus_ocr", state |-> "ready"]
    BY <1>0, <1>r, <1>4 DEF Pipeline!Classify, Pipeline!Classified, Pipeline!Raise
  <2> QED  BY <1>0, <1>4, <2>1 DEF Pipeline!Raise, Pipeline!Packaged, OcrRoutes
<1>5. CASE chars >= MinNativeChars /\ coverage < MixedCoverage
  <2>1. ~render /\ Pipeline!Classify = [route |-> "native", state |-> "ready"]
    BY <1>0, <1>r, <1>5 DEF Pipeline!Classify, Pipeline!Classified, Pipeline!Raise
  <2> QED  BY <1>0, <1>5, <2>1 DEF Pipeline!Raise, Pipeline!Packaged, OcrRoutes
<1> QED  BY <1>0, <1>1, <1>2, <1>3, <1>4, <1>5

LEMMA PipelineInit ==
  ASSUME Pipeline!ConstantsAssumption, Pipeline!Init
  PROVE  PipelineInvariant
<1>1. \A t \in tokens : t.confidence \in Confidences
  BY DEF Pipeline!Init, Pipeline!Token
<1>2. /\ chars \in Nat /\ coverage \in Nat /\ ink \in Nat
      /\ \A t \in tokens : t.confidence \in Nat
  <2>1. chars \in CharCounts /\ coverage \in Coverages /\ ink \in Inks
    BY DEF Pipeline!Init
  <2>2. /\ CharCounts \subseteq Nat /\ Coverages \subseteq Nat
        /\ Inks \subseteq Nat /\ Confidences \subseteq Nat
    <3>1. /\ CharCounts \subseteq Nat /\ Coverages \subseteq Pipeline!Permyriad
          /\ Inks \subseteq Pipeline!Permyriad /\ Confidences \subseteq Pipeline!Permyriad
      BY DEF Pipeline!ConstantsAssumption
    <3>2. Pipeline!Permyriad \subseteq Nat
      BY DEF Pipeline!Permyriad
    <3> QED  BY <3>1, <3>2
  <2> QED  BY <1>1, <2>1, <2>2
<1>3. render \in BOOLEAN /\ HandedOn
  BY DEF Pipeline!Init, HandedOn
<1> QED  BY <1>2, <1>3 DEF PipelineInvariant, MeasuresType

LEMMA PipelineStep ==
  ASSUME PipelineInvariant, [Pipeline!Next]_stages
  PROVE  PipelineInvariant'
<1> USE DEF PipelineInvariant, Pipeline!page
<1> DEFINE measures == <<chars, coverage, ink, tokens, watermarked>>
<1>1. CASE Pipeline!RunWorker
  BY <1>1 DEF Pipeline!RunWorker, MeasuresType, HandedOn, Pipeline!RenderNeeded
<1>2. CASE Pipeline!WorkerFails
  BY <1>2 DEF Pipeline!WorkerFails, MeasuresType, HandedOn
<1>3. CASE Pipeline!ProbePage
  <2>1. Pipeline!Classify # Pipeline!Raise
    BY <1>3, ThresholdsAgree DEF Pipeline!ProbePage, HandedOn
  <2>2. /\ at' = "probed" /\ probe' = Pipeline!Classify /\ package' = Pipeline!Packaged
        /\ at = "worked" /\ measures' = measures /\ render' = render
    BY <1>3, <2>1 DEF Pipeline!ProbePage
  <2>3. Pipeline!Classify' = Pipeline!Classify
    BY <2>2 DEF Pipeline!Classify
  <2>4. Pipeline!Packaged' = Pipeline!Packaged /\ Pipeline!RenderNeeded' = Pipeline!RenderNeeded
    BY <2>2, <2>3 DEF Pipeline!Packaged, Pipeline!RenderNeeded
  <2> QED  BY <2>2, <2>3, <2>4 DEF MeasuresType, HandedOn
<1>4. CASE Pipeline!ValidatePackage
  <2>1. /\ at = "probed" /\ measures' = measures
        /\ render' = render /\ probe' = probe /\ package' = package /\ record' = record
    BY <1>4 DEF Pipeline!ValidatePackage
  <2>2. package = Pipeline!ExpectedEntries
    BY <2>1, ThresholdsAgree DEF HandedOn, Pipeline!ExpectedEntries, Pipeline!Packaged, Pipeline!OcrRoutes, OcrRoutes
  <2>3. at' = "indexed"
    BY <1>4, <2>2 DEF Pipeline!ValidatePackage
  <2>4. Pipeline!Classify' = Pipeline!Classify
    BY <2>1 DEF Pipeline!Classify
  <2>5. Pipeline!Packaged' = Pipeline!Packaged /\ Pipeline!RenderNeeded' = Pipeline!RenderNeeded
    BY <2>1, <2>4 DEF Pipeline!Packaged, Pipeline!RenderNeeded
  <2> QED  BY <2>1, <2>3, <2>4, <2>5 DEF MeasuresType, HandedOn
<1>5. CASE Pipeline!TranscribePage
  <2>1. /\ at = "indexed" /\ measures' = measures
        /\ render' = render /\ probe' = probe /\ package' = package
    BY <1>5 DEF Pipeline!TranscribePage
  <2>2. probe.route \in OcrRoutes => "render.png" \in package
    BY <2>1, ThresholdsAgree DEF HandedOn
  <2>3. /\ at' = "transcribed"
        /\ record' = [state |-> Pipeline!State, flags |-> Pipeline!Flags,
                      files |-> Pipeline!TranscribedFiles, text |-> Pipeline!Text]
    BY <1>5, <2>2 DEF Pipeline!TranscribePage, Pipeline!OcrRoutes, OcrRoutes
  <2>4. Pipeline!Classify' = Pipeline!Classify
    BY <2>1 DEF Pipeline!Classify
  <2>5. Pipeline!Packaged' = Pipeline!Packaged /\ Pipeline!RenderNeeded' = Pipeline!RenderNeeded
    BY <2>1, <2>4 DEF Pipeline!Packaged, Pipeline!RenderNeeded
  <2>6. Pipeline!Flags' = Pipeline!Flags
    BY <2>1 DEF Pipeline!Flags, Pipeline!OcrFlags
  <2>7. /\ Pipeline!State' = Pipeline!State /\ Pipeline!Text' = Pipeline!Text
        /\ Pipeline!TranscribedFiles' = Pipeline!TranscribedFiles
    BY <2>1, <2>6 DEF Pipeline!State, Pipeline!Text, Pipeline!TranscribedFiles
  <2> QED  BY <2>1, <2>3, <2>4, <2>5, <2>6, <2>7 DEF MeasuresType, HandedOn
<1>6. CASE Pipeline!TranscriptionFails
  <2>1. /\ at = "indexed" /\ at' = "failed" /\ measures' = measures /\ render' = render
    BY <1>6 DEF Pipeline!TranscriptionFails
  <2> QED  BY <2>1 DEF MeasuresType, HandedOn
<1>7. CASE Pipeline!ValidateTranscription
  <2>1. /\ at = "transcribed" /\ measures' = measures
        /\ render' = render /\ probe' = probe /\ package' = package /\ record' = record
    BY <1>7 DEF Pipeline!ValidateTranscription
  <2>2. /\ {"raw-native.txt", "normalized.txt", "digits-ascii.txt"} \subseteq record.files
        /\ (probe.route \in Pipeline!OcrRoutes) = ({"ocr.json", "ocr-input.png"} \subseteq record.files)
    BY <2>1 DEF HandedOn, Pipeline!TranscribedFiles
  <2>3. at' = "done"
    BY <1>7, <2>2 DEF Pipeline!ValidateTranscription
  <2>4. Pipeline!Classify' = Pipeline!Classify
    BY <2>1 DEF Pipeline!Classify
  <2>5. Pipeline!Packaged' = Pipeline!Packaged /\ Pipeline!RenderNeeded' = Pipeline!RenderNeeded
    BY <2>1, <2>4 DEF Pipeline!Packaged, Pipeline!RenderNeeded
  <2>6. Pipeline!Flags' = Pipeline!Flags
    BY <2>1 DEF Pipeline!Flags, Pipeline!OcrFlags
  <2>7. /\ Pipeline!State' = Pipeline!State /\ Pipeline!Text' = Pipeline!Text
        /\ Pipeline!TranscribedFiles' = Pipeline!TranscribedFiles
    BY <2>1, <2>6 DEF Pipeline!State, Pipeline!Text, Pipeline!TranscribedFiles
  <2> QED  BY <2>1, <2>3, <2>4, <2>5, <2>6, <2>7 DEF MeasuresType, HandedOn
<1>8. CASE UNCHANGED stages
  BY <1>8 DEF stages, page, MeasuresType, HandedOn, Pipeline!Classify, Pipeline!Packaged, Pipeline!RenderNeeded,
              Pipeline!Flags, Pipeline!OcrFlags, Pipeline!State, Pipeline!Text, Pipeline!TranscribedFiles
<1> QED  BY <1>1, <1>2, <1>3, <1>4, <1>5, <1>6, <1>7, <1>8 DEF Pipeline!Next

LEMMA PipelineImplies ==
  ASSUME PipelineInvariant
  PROVE  StagesAgree /\ NothingIsDropped
<1> USE DEF PipelineInvariant
<1>1. StagesAgree
  BY DEF HandedOn, StagesAgree
<1>2. ASSUME at = "done"
      PROVE  /\ render = Pipeline!RenderNeeded /\ probe = Pipeline!Classify
             /\ record.state = Pipeline!State /\ record.flags = Pipeline!Flags /\ record.text = Pipeline!Text
  BY <1>2 DEF HandedOn
<1>3. DoubtReachesTheRecord
  <2> SUFFICES ASSUME at = "done", record.state = "ready"
               PROVE  /\ chars = 0 => coverage >= ScanCoverage \/ ink <= BlankInk
                      /\ chars = 0 \/ chars >= MinNativeChars
                      /\ probe.route \in OcrRoutes =>
                           /\ tokens # {}
                           /\ \A t \in tokens : t.confidence >= 6000 /\ (t.critical => t.confidence >= 7500)
    BY DEF DoubtReachesTheRecord
  <2>1. probe.state # "needs_review" /\ Pipeline!Flags = {}
    BY <1>2 DEF Pipeline!State
  <2>2. probe.state \in {"ready", "needs_review"}
    BY <1>2, ThresholdsAgree DEF Pipeline!Classify, Pipeline!Classified, Pipeline!Raise
  <2>3. /\ chars = 0 => coverage >= ScanCoverage \/ ink <= BlankInk
        /\ chars = 0 \/ chars >= MinNativeChars
    BY <1>2, <2>1, <2>2, ThresholdsAgree
  <2>4. ASSUME probe.route \in OcrRoutes
        PROVE  /\ tokens # {}
               /\ \A t \in tokens : t.confidence >= 6000 /\ (t.critical => t.confidence >= 7500)
    BY <2>1, <2>4 DEF Pipeline!Flags, Pipeline!OcrFlags, Pipeline!OcrRoutes, OcrRoutes, MeasuresType
  <2> QED  BY <2>3, <2>4
<1>4. VisibleTextIsKept
  BY <1>2, ThresholdsAgree DEF VisibleTextIsKept, Pipeline!Text, Pipeline!Flags, Pipeline!OcrFlags,
       Pipeline!OcrRoutes, OcrRoutes, MeasuresType
<1> QED  BY <1>1, <1>3, <1>4 DEF NothingIsDropped

LEMMA PipelineInvariantHolds ==
  ASSUME Pipeline!ConstantsAssumption
  PROVE  Pipeline!Spec => []PipelineInvariant
<1>1. Pipeline!Init => PipelineInvariant
  BY PipelineInit
<1>2. PipelineInvariant /\ [Pipeline!Next]_stages => PipelineInvariant'
  BY PipelineStep
<1> QED  BY <1>1, <1>2, PTL DEF Pipeline!Spec, Pipeline!stages, Pipeline!page, stages, page

(* Of no page, however it measures at any of the thresholds, does one stage     *)
(* make what the next one refuses.                                              *)
THEOREM PipelineAgrees ==
  ASSUME Pipeline!ConstantsAssumption
  PROVE  Pipeline!Spec => []StagesAgree
<1>1. PipelineInvariant => StagesAgree
  BY PipelineImplies
<1> QED  BY <1>1, PipelineInvariantHolds, PTL

(* No doubt about any page, and no text on it, is lost on the way.              *)
THEOREM PipelineDropsNothing ==
  ASSUME Pipeline!ConstantsAssumption
  PROVE  Pipeline!Spec => []NothingIsDropped
<1>1. PipelineInvariant => NothingIsDropped
  BY PipelineImplies
<1> QED  BY <1>1, PipelineInvariantHolds, PTL

-----------------------------------------------------------------------------
\* The import of a projection.
\* What a transaction has saved of the pages it has come to.
Saved == UNION {[G -> SUBSET Kind] : G \in SUBSET BookPage}

\* A transaction is of an extraction, on pages that are there.
Transaction ==
  [extraction : Extractions \cup {None}, todo : SUBSET Mark,
   seen : {None} \cup [page : BookPage, kind : Kind, marks : SUBSET Kind], writes : Saved]
WellFormed(w) ==
  /\ w \in Transaction
  /\ IF w.extraction = None THEN w.seen = None /\ DOMAIN w.writes = {}
     ELSE \A g \in BookPage : pages[g] # None
  /\ w.seen # None => [page |-> w.seen.page, kind |-> w.seen.kind] \in w.todo

\* It has no mark that is neither there by right nor its own.
Owed(w) ==
  w.extraction # None =>
    /\ w.todo \subseteq Marks(w.extraction)
    /\ \A g \in DOMAIN w.writes : \A k \in w.writes[g] :
         [page |-> g, kind |-> k] \in Due \cup Marks(w.extraction)
    /\ w.seen # None => \A k \in w.seen.marks :
         [page |-> w.seen.page, kind |-> k] \in Due \cup Marks(w.extraction)

\* It has all marks of the pages it writes, and its own of those it is done with.
Keeps(w) ==
  w.extraction # None =>
    /\ \A g \in DOMAIN w.writes : pages[g] \subseteq w.writes[g]
    /\ \A m \in Marks(w.extraction) :
         m \in w.todo \/ (m.page \in DOMAIN w.writes /\ m.kind \in w.writes[m.page])
    /\ w.seen # None =>
         w.seen.marks = IF w.seen.page \in DOMAIN w.writes THEN w.writes[w.seen.page] ELSE pages[w.seen.page]

Busied(p) == work[p].extraction # None

TablesType ==
  /\ pages \in [BookPage -> {None} \cup SUBSET Kind]
  /\ imported \subseteq Extractions
  /\ disturbed \in BOOLEAN
  /\ DOMAIN work = Process
  /\ \A p \in Process : WellFormed(work[p])

NoMarkIsMadeUp ==
  /\ Made \subseteq Due
  /\ \A p \in Process : Owed(work[p])

\* As long as nothing disturbed it an import is by itself.
NoMarkIsLost ==
  ~disturbed =>
    /\ \A p, q \in Process : Busied(p) /\ Busied(q) => p = q
    /\ Due \subseteq Made
    /\ \A p \in Process : Keeps(work[p])

ImportInvariant == TablesType /\ NoMarkIsMadeUp /\ NoMarkIsLost /\ CandidatesAreWhole

LEMMA ImportSame ==
  /\ Import!Mark = Mark /\ Import!Kind = Kind
  /\ \A e : Import!Marks(e) = Marks(e) /\ Import!Rows(e) = Rows(e)
  /\ \A p : Import!Busy(p) <=> Busied(p)
BY DEF Import!Mark, Mark, Import!Kind, Kind, Import!Marks, Marks, Import!Rows, Rows, Import!Busy, Busied

LEMMA MarkType ==
  /\ Mark = [page : BookPage, kind : Kind]
  /\ \A e : Marks(e) \subseteq Mark
BY DEF Mark, Marks

LEMMA SavedMarks ==
  /\ \A W : W \in Saved <=> W \in [DOMAIN W -> SUBSET Kind] /\ DOMAIN W \subseteq BookPage
  /\ << >> \in Saved /\ DOMAIN << >> = {}
<1>1. ASSUME NEW W \in Saved PROVE W \in [DOMAIN W -> SUBSET Kind] /\ DOMAIN W \subseteq BookPage
  <2>1. PICK G \in SUBSET BookPage : W \in [G -> SUBSET Kind]
    BY DEF Saved
  <2> QED  BY <2>1
<1>2. ASSUME NEW W, W \in [DOMAIN W -> SUBSET Kind], DOMAIN W \subseteq BookPage PROVE W \in Saved
  BY <1>2 DEF Saved
<1>3. DOMAIN << >> = {} /\ << >> \in [{} -> SUBSET Kind]
  OBVIOUS
<1>4. << >> \in [DOMAIN << >> -> SUBSET Kind]
  BY <1>3
<1>5. << >> \in Saved
  BY <1>2, <1>3, <1>4
<1> QED  BY <1>1, <1>2, <1>3, <1>5

LEMMA DueAndMade ==
  /\ \A m : m \in Due <=> \E e \in imported : m \in Marks(e)
  /\ \A m : m \in Made <=> m \in Mark /\ pages[m.page] # None /\ m.kind \in pages[m.page]
BY DEF Due, Made

LEMMA NewTransaction ==
  ASSUME NEW e \in Extractions \cup {None},
         e # None => \A g \in BookPage : pages[g] # None,
         NEW todo \in SUBSET Mark,
         e # None => todo = Marks(e),
         NEW w, w \in [extraction : {e}, todo : {todo}, seen : {None}, writes : {<< >>}]
  PROVE  WellFormed(w) /\ Owed(w) /\ Keeps(w)
<1>1. DOMAIN << >> = {} /\ << >> \in Saved
  BY SavedMarks
<1>2. /\ w.extraction = e /\ w.todo = todo /\ w.seen = None /\ w.writes = << >>
      /\ w \in Transaction
  BY <1>1 DEF Transaction
<1>3. WellFormed(w)
  BY <1>1, <1>2 DEF WellFormed
<1>4. Owed(w) /\ Keeps(w)
  BY <1>1, <1>2 DEF Owed, Keeps
<1> QED  BY <1>3, <1>4

LEMMA ImportInit ==
  ASSUME Import!ConstantsAssumption, Import!Init
  PROVE  ImportInvariant
<1>1. /\ pages = [g \in BookPage |-> None] /\ candidates = {} /\ imported = {} /\ disturbed = FALSE
      /\ work = [p \in Process |-> Import!Idle]
  BY DEF Import!Init
<1>2. Import!Idle = [extraction |-> None, todo |-> {}, seen |-> None, writes |-> << >>]
  BY DEF Import!Idle
<1>3. WellFormed(Import!Idle) /\ Owed(Import!Idle) /\ Keeps(Import!Idle)
  BY <1>2, NewTransaction
<1>4. TablesType
  BY <1>1, <1>3 DEF TablesType
<1>5. \A p \in Process : ~Busied(p)
  BY <1>1, <1>2 DEF Busied
<1>6. Due = {} /\ Made = {}
  <2>1. \A m \in Mark : m.page \in BookPage
    BY MarkType
  <2> QED  BY <1>1, <2>1, DueAndMade
<1>7. NoMarkIsMadeUp /\ NoMarkIsLost
  BY <1>1, <1>3, <1>5, <1>6 DEF NoMarkIsMadeUp, NoMarkIsLost
<1>8. CandidatesAreWhole
  BY <1>1 DEF CandidatesAreWhole
<1> QED  BY <1>4, <1>7, <1>8 DEF ImportInvariant

\* A step of one transaction that leaves the tables alone.
LEMMA OneTransaction ==
  ASSUME ImportInvariant,
         NEW p \in Process, NEW w, work' = [work EXCEPT ![p] = w],
         UNCHANGED <<pages, candidates, imported>>,
         disturbed' \in BOOLEAN, disturbed => disturbed',
         WellFormed(w), Owed(w),
         ~disturbed' => /\ Keeps(w)
                        /\ w.extraction # None => \A q \in Process \ {p} : ~Busied(q)
  PROVE  ImportInvariant'
<1> USE DEF ImportInvariant
<1>1. \A q \in Process : work'[q] = IF q = p THEN w ELSE work[q]
  BY DEF TablesType
<1>2. Due' = Due /\ Made' = Made
  BY DEF Due, Made, Marks
<1>3. \A v : (WellFormed(v) <=> WellFormed(v)') /\ (Owed(v) <=> Owed(v)') /\ (Keeps(v) <=> Keeps(v)')
  BY <1>2 DEF WellFormed, Owed, Keeps
<1>4. TablesType'
  BY <1>1, <1>3 DEF TablesType
<1>5. NoMarkIsMadeUp'
  BY <1>1, <1>2, <1>3 DEF NoMarkIsMadeUp
<1>6. NoMarkIsLost'
  BY <1>1, <1>2, <1>3 DEF NoMarkIsLost, Busied
<1>7. CandidatesAreWhole'
  BY DEF CandidatesAreWhole, Rows
<1> QED  BY <1>4, <1>5, <1>6, <1>7

LEMMA ImportProjectionKeeps ==
  ASSUME Import!ConstantsAssumption, ImportInvariant, Import!ImportProjection
  PROVE  ImportInvariant'
<1> USE DEF ImportInvariant
<1>1. /\ pages' = [g \in BookPage |-> {}]
      /\ disturbed' = \/ disturbed
                      \/ \E g \in BookPage : pages[g] \notin {None, {}}
                      \/ \E p \in Process : Busied(p)
      /\ UNCHANGED <<candidates, work, imported>>
  BY ImportSame DEF Import!ImportProjection
<1>2. \A g \in BookPage : pages'[g] = {} /\ pages'[g] # None
  <2>1. {} # None
    BY ImportSame DEF Import!ConstantsAssumption
  <2> QED  BY <1>1, <2>1
<1>3. Due' = Due /\ Made' = {}
  <2>1. Due' = Due
    BY <1>1 DEF Due, Marks
  <2>2. \A m \in Mark : m.page \in BookPage
    BY MarkType
  <2> QED  BY <1>2, <2>1, <2>2 DEF Made
<1>4. \A w : (WellFormed(w) => WellFormed(w)') /\ (Owed(w) <=> Owed(w)')
  BY <1>2, <1>3 DEF WellFormed, Owed
<1>5. TablesType'
  <2>1. pages' \in [BookPage -> {None} \cup SUBSET Kind] /\ disturbed' \in BOOLEAN
    BY <1>1 DEF TablesType
  <2> QED  BY <1>1, <1>4, <2>1 DEF TablesType
<1>6. NoMarkIsMadeUp'
  BY <1>1, <1>3, <1>4 DEF NoMarkIsMadeUp
<1>7. NoMarkIsLost'
  <2> SUFFICES ASSUME ~disturbed' PROVE NoMarkIsLost'
    BY DEF NoMarkIsLost
  <2>1. ~disturbed /\ \A g \in BookPage : pages[g] \in {None, {}}
    BY <1>1 DEF TablesType
  <2>2. Made = {}
    <3>1. \A m \in Mark : m.page \in BookPage
      BY MarkType
    <3> QED  BY <2>1, <3>1 DEF Made
  <2>3. \A p \in Process : ~Busied(p) /\ work'[p] = work[p]
    <3>1. \A p \in Process : ~Busied(p)
      BY <1>1 DEF TablesType
    <3>2. work' = work
      BY <1>1
    <3> QED  BY <3>1, <3>2
  <2>4. \A p \in Process : Keeps(work[p])'
    BY <2>3 DEF Keeps, Busied
  <2>5. Due' \subseteq Made'
    BY <1>3, <2>1, <2>2 DEF NoMarkIsLost
  <2>6. \A p \in Process : ~Busied(p)'
    BY <2>3 DEF Busied
  <2> QED  BY <2>4, <2>5, <2>6 DEF NoMarkIsLost
<1>8. CandidatesAreWhole'
  BY <1>1 DEF CandidatesAreWhole, Rows
<1> QED  BY <1>5, <1>6, <1>7, <1>8

LEMMA CommitKeeps ==
  ASSUME Import!ConstantsAssumption, ImportInvariant, NEW p \in Process, Import!Commit(p)
  PROVE  ImportInvariant'
<1> USE DEF ImportInvariant
<1> DEFINE w == work[p]  e == w.extraction
<1>1. /\ e # None /\ w.todo = {}
      /\ pages' = [g \in BookPage |-> IF g \in DOMAIN w.writes THEN w.writes[g] ELSE pages[g]]
      /\ candidates' = candidates \cup Rows(e)
      /\ imported' = imported \cup {e}
      /\ work' = [work EXCEPT ![p] = Import!Idle]
      /\ disturbed' = disturbed
  BY ImportSame DEF Import!Commit, Busied
<1>2. /\ w \in Transaction /\ e \in Extractions
      /\ \A g \in BookPage : pages[g] # None /\ pages[g] \in SUBSET Kind
      /\ w.writes \in [DOMAIN w.writes -> SUBSET Kind] /\ DOMAIN w.writes \subseteq BookPage
  <2>1. w \in Transaction /\ \A g \in BookPage : pages[g] # None
    BY <1>1 DEF TablesType, WellFormed
  <2>2. w.writes \in Saved /\ e \in Extractions
    BY <1>1, <2>1 DEF Transaction
  <2> QED  BY <2>1, <2>2, SavedMarks DEF TablesType
<1>3. w.seen = None
  BY <1>1 DEF TablesType, WellFormed
<1>4. \A g \in BookPage : /\ pages'[g] = IF g \in DOMAIN w.writes THEN w.writes[g] ELSE pages[g]
                          /\ pages'[g] \in SUBSET Kind /\ pages'[g] # None
  <2>1. \A kinds \in SUBSET Kind : kinds # None
    BY ImportSame DEF Import!ConstantsAssumption
  <2>2. \A g \in BookPage : /\ pages'[g] = IF g \in DOMAIN w.writes THEN w.writes[g] ELSE pages[g]
                            /\ pages'[g] \in SUBSET Kind
    BY <1>1, <1>2
  <2> QED  BY <2>1, <2>2
<1>5. \A m : m \in Due' <=> m \in Due \/ m \in Marks(e)
  <2>1. \A m : m \in Due' <=> \E x \in imported' : m \in Marks(x)
    BY DEF Due, Marks
  <2> QED  BY <1>1, <2>1, DueAndMade
<1>6. \A m : m \in Made' <=> m \in Mark /\ m.kind \in pages'[m.page]
  <2>1. \A m \in Mark : m.page \in BookPage
    BY MarkType
  <2> QED  BY <1>4, <2>1 DEF Made
<1>7. Import!Idle = [extraction |-> None, todo |-> {}, seen |-> None, writes |-> << >>]
  BY DEF Import!Idle
<1>8. \A q \in Process : work'[q] = IF q = p THEN Import!Idle ELSE work[q]
  BY <1>1 DEF TablesType
<1>9. WellFormed(Import!Idle) /\ Owed(Import!Idle) /\ Keeps(Import!Idle)
  BY <1>7, NewTransaction
<1>10. TablesType'
  <2>1. \A v : WellFormed(v) => WellFormed(v)'
    BY <1>4 DEF WellFormed
  <2>2. pages' \in [BookPage -> {None} \cup SUBSET Kind]
    BY <1>1, <1>4
  <2>3. \A q \in Process : WellFormed(work[q])'
    BY <1>8, <1>9, <2>1 DEF TablesType, WellFormed
  <2> QED  BY <1>1, <1>2, <2>2, <2>3 DEF TablesType
<1>11. NoMarkIsMadeUp'
  <2>1. \A v : Owed(v) => Owed(v)'
    BY <1>5 DEF Owed
  <2>2. \A q \in Process : Owed(work[q])'
    BY <1>8, <1>9, <2>1 DEF NoMarkIsMadeUp, Owed
  <2>3. ASSUME NEW m \in Made' PROVE m \in Due'
    <3>1. m \in Mark /\ m.page \in BookPage /\ m = [page |-> m.page, kind |-> m.kind] /\ m.kind \in pages'[m.page]
      BY <1>6, <2>3, MarkType
    <3>2. CASE m.page \in DOMAIN w.writes
      <4>1. m.kind \in w.writes[m.page]
        BY <1>4, <3>1, <3>2
      <4>2. [page |-> m.page, kind |-> m.kind] \in Due \cup Marks(e)
        BY <1>1, <3>2, <4>1 DEF NoMarkIsMadeUp, Owed
      <4> QED  BY <1>5, <3>1, <4>2
    <3>3. CASE m.page \notin DOMAIN w.writes
      <4>1. m \in Made
        BY <1>2, <1>4, <3>1, <3>3, DueAndMade
      <4> QED  BY <1>5, <4>1 DEF NoMarkIsMadeUp
    <3> QED  BY <3>2, <3>3
  <2> QED  BY <2>2, <2>3 DEF NoMarkIsMadeUp
<1>12. NoMarkIsLost'
  <2> SUFFICES ASSUME ~disturbed PROVE NoMarkIsLost'
    BY <1>1 DEF NoMarkIsLost
  <2>1. \A q \in Process : q # p => work[q].extraction = None
    BY <1>1 DEF NoMarkIsLost, Busied
  <2>2. \A q \in Process : work'[q].extraction = None
    BY <1>7, <1>8, <2>1
  <2>3. \A q \in Process : ~Busied(q)' /\ Keeps(work[q])'
    BY <2>2 DEF Busied, Keeps
  <2>4. Keeps(w)
    BY DEF NoMarkIsLost
  <2>5. ASSUME NEW m \in Due' PROVE m \in Made'
    <3>1. CASE m \in Marks(e)
      <4>0. m \in Mark
        BY <3>1 DEF Marks
      <4>1. m \in Mark /\ m.page \in BookPage
        BY <4>0, MarkType
      <4>2. m.page \in DOMAIN w.writes /\ m.kind \in w.writes[m.page]
        BY <1>1, <2>4, <3>1 DEF Keeps
      <4> QED  BY <1>4, <1>6, <4>1, <4>2
    <3>2. CASE m \in Due
      <4>1. m \in Mark /\ m.page \in BookPage /\ m.kind \in pages[m.page]
        BY <3>2, MarkType, DueAndMade DEF NoMarkIsLost
      <4>2. m.page \in DOMAIN w.writes => pages[m.page] \subseteq w.writes[m.page]
        BY <1>1, <2>4 DEF Keeps
      <4> QED  BY <1>4, <1>6, <4>1, <4>2
    <3> QED  BY <1>5, <2>5, <3>1, <3>2
  <2> QED  BY <2>3, <2>5 DEF NoMarkIsLost
<1>13. CandidatesAreWhole'
  <2>1. candidates' = UNION {Rows(x) : x \in imported \cup {e}}
    BY <1>1 DEF CandidatesAreWhole
  <2> QED  BY <1>1, <2>1 DEF CandidatesAreWhole, Rows
<1> QED  BY <1>10, <1>11, <1>12, <1>13

LEMMA ImportStep ==
  ASSUME Import!ConstantsAssumption, ImportInvariant,
         [Import!Next]_<<pages, candidates, work, imported, disturbed, imports>>
  PROVE  ImportInvariant'
<1> USE DEF ImportInvariant
<1>1. ASSUME NEW p \in Process, Import!Begin(p) PROVE ImportInvariant'
  <2>1. PICK e \in Extractions :
          work' = [work EXCEPT ![p] = [Import!Idle EXCEPT !.extraction = e, !.todo = Marks(e)]]
    BY <1>1, ImportSame DEF Import!Begin
  <2>2. /\ \A g \in BookPage : pages[g] # None
        /\ disturbed' = (disturbed \/ \E q \in Process : Busied(q))
        /\ UNCHANGED <<pages, candidates, imported>>
    BY <1>1, ImportSame DEF Import!Begin
  <2> DEFINE w == [Import!Idle EXCEPT !.extraction = e, !.todo = Marks(e)]
  <2>3. work' = [work EXCEPT ![p] = w]
    BY <2>1
  <2>4. WellFormed(w) /\ Owed(w) /\ Keeps(w)
    <3>1. w \in [extraction : {e}, todo : {Marks(e)}, seen : {None}, writes : {<< >>}]
      BY DEF Import!Idle
    <3> QED  BY <2>2, <3>1, NewTransaction, MarkType
  <2>5. disturbed' \in BOOLEAN /\ (disturbed => disturbed') /\ (~disturbed' => \A q \in Process : ~Busied(q))
    BY <2>2 DEF TablesType
  <2> HIDE DEF w
  <2> QED  BY <2>2, <2>3, <2>4, <2>5, OneTransaction
<1>2. ASSUME NEW p \in Process, Import!Get(p) PROVE ImportInvariant'
  <2> DEFINE v == work[p]  e == v.extraction
  <2>1. PICK m \in v.todo :
          work' = [work EXCEPT ![p].seen =
            [page |-> m.page, kind |-> m.kind,
             marks |-> IF m.page \in DOMAIN v.writes THEN v.writes[m.page] ELSE pages[m.page]]]
    BY <1>2 DEF Import!Get
  <2>2. /\ e # None /\ v.seen = None
        /\ UNCHANGED <<pages, candidates, imported, disturbed>>
    BY <1>2, ImportSame DEF Import!Get, Busied
  <2> DEFINE read == IF m.page \in DOMAIN v.writes THEN v.writes[m.page] ELSE pages[m.page]
             seen == [page |-> m.page, kind |-> m.kind, marks |-> read]
             w == [v EXCEPT !.seen = seen]
  <2>3. work' = [work EXCEPT ![p] = w]
    BY <2>1 DEF TablesType
  <2>4. /\ v \in Transaction /\ WellFormed(v) /\ Owed(v) /\ (~disturbed => Keeps(v))
        /\ m \in Mark /\ m.page \in BookPage /\ m.kind \in Kind /\ m = [page |-> m.page, kind |-> m.kind]
    <3>1. v \in Transaction /\ WellFormed(v) /\ Owed(v) /\ (~disturbed => Keeps(v))
      BY DEF TablesType, WellFormed, NoMarkIsMadeUp, NoMarkIsLost
    <3>2. m \in Mark
      BY <3>1 DEF Transaction
    <3> QED  BY <3>1, <3>2, MarkType
  <2>5. pages[m.page] \in SUBSET Kind /\ v.writes \in [DOMAIN v.writes -> SUBSET Kind]
    <3>1. pages[m.page] # None /\ v.writes \in Saved
      BY <2>2, <2>4 DEF WellFormed, Transaction
    <3> QED  BY <2>4, <3>1, SavedMarks DEF TablesType
  <2>6. read \in SUBSET Kind
    BY <2>5
  <2>7. \A k \in read : [page |-> m.page, kind |-> k] \in Due \cup Marks(e)
    <3>1. CASE m.page \in DOMAIN v.writes
      BY <2>2, <2>4, <3>1 DEF Owed
    <3>2. CASE m.page \notin DOMAIN v.writes
      <4>1. ASSUME NEW k \in pages[m.page] PROVE [page |-> m.page, kind |-> k] \in Made
        <5>1. [page |-> m.page, kind |-> k] \in Mark
          BY <2>4, <2>5, MarkType
        <5>2. pages[m.page] # None
          BY <2>2, <2>4 DEF WellFormed
        <5> QED  BY <5>1, <5>2, DueAndMade
      <4> QED  BY <3>2, <4>1 DEF NoMarkIsMadeUp
    <3> QED  BY <3>1, <3>2
  <2> HIDE DEF read
  <2>8. /\ seen.page = m.page /\ seen.kind = m.kind /\ seen.marks = read
        /\ seen \in [page : BookPage, kind : Kind, marks : SUBSET Kind]
    BY <2>4, <2>6
  <2> HIDE DEF seen
  <2>9. /\ w.extraction = e /\ w.todo = v.todo /\ w.seen = seen /\ w.writes = v.writes
        /\ w \in Transaction
    BY <2>4, <2>8 DEF Transaction
  <2>10. WellFormed(w)
    BY <2>2, <2>4, <2>8, <2>9 DEF WellFormed
  <2>11. Owed(w)
    BY <2>2, <2>4, <2>7, <2>8, <2>9 DEF Owed
  <2>12. ~disturbed => Keeps(w)
    BY <2>2, <2>4, <2>8, <2>9 DEF Keeps, read
  <2>13. ~disturbed => \A q \in Process \ {p} : ~Busied(q)
    BY <2>2 DEF NoMarkIsLost, Busied
  <2>14. disturbed' \in BOOLEAN /\ (disturbed => disturbed')
    BY <2>2 DEF TablesType
  <2> HIDE DEF w
  <2> QED  BY <2>2, <2>3, <2>10, <2>11, <2>12, <2>13, <2>14, OneTransaction
<1>3. ASSUME NEW p \in Process, Import!Save(p) PROVE ImportInvariant'
  <2> DEFINE v == work[p]  e == v.extraction  seen == v.seen
             mark == [page |-> seen.page, kind |-> seen.kind]
             writes == [g \in DOMAIN v.writes \cup {seen.page} |->
                          IF g = seen.page THEN seen.marks \cup {seen.kind} ELSE v.writes[g]]
             w == [v EXCEPT !.seen = None, !.todo = @ \ {mark}, !.writes = writes]
  <2>1. /\ seen # None /\ work' = [work EXCEPT ![p] = w]
        /\ UNCHANGED <<pages, candidates, imported, disturbed>>
    BY <1>3 DEF Import!Save, Import!Marked
  <2>2. v \in Transaction /\ WellFormed(v) /\ Owed(v) /\ (~disturbed => Keeps(v))
    BY DEF TablesType, WellFormed, NoMarkIsMadeUp, NoMarkIsLost
  <2>3. e # None /\ mark \in v.todo
    BY <2>1, <2>2 DEF WellFormed
  <2>4. /\ seen \in [page : BookPage, kind : Kind, marks : SUBSET Kind]
        /\ v.writes \in [DOMAIN v.writes -> SUBSET Kind] /\ DOMAIN v.writes \subseteq BookPage
    BY <2>1, <2>2, SavedMarks DEF Transaction
  <2>5. /\ DOMAIN writes = DOMAIN v.writes \cup {seen.page}
        /\ writes \in Saved
        /\ \A g \in DOMAIN writes : writes[g] = IF g = seen.page THEN seen.marks \cup {seen.kind} ELSE v.writes[g]
    <3>1. writes \in [DOMAIN writes -> SUBSET Kind] /\ DOMAIN writes \subseteq BookPage
      BY <2>4
    <3> QED  BY <3>1, SavedMarks
  <2> HIDE DEF writes
  <2>6. /\ w.extraction = e /\ w.todo = v.todo \ {mark} /\ w.seen = None /\ w.writes = writes
        /\ w \in Transaction
    BY <2>2, <2>5 DEF Transaction
  <2>7. WellFormed(w)
    BY <2>2, <2>3, <2>6 DEF WellFormed
  <2>8. Owed(w)
    <3>1. w.todo \subseteq Marks(e)
      BY <2>2, <2>3, <2>6 DEF Owed
    <3>2. ASSUME NEW g \in DOMAIN writes, NEW k \in writes[g]
          PROVE  [page |-> g, kind |-> k] \in Due \cup Marks(e)
      <4>1. CASE g = seen.page /\ k = seen.kind
        BY <2>2, <2>3, <4>1 DEF Owed
      <4>2. CASE g = seen.page /\ k \in seen.marks
        BY <2>1, <2>2, <2>3, <4>2 DEF Owed
      <4>3. CASE g # seen.page
        BY <2>2, <2>3, <2>5, <3>2, <4>3 DEF Owed
      <4> QED  BY <2>5, <3>2, <4>1, <4>2, <4>3
    <3> QED  BY <2>6, <3>1, <3>2 DEF Owed
  <2>9. ASSUME ~disturbed PROVE Keeps(w)
    <3>0. Keeps(v)
      BY <2>2, <2>9
    <3>1. ASSUME NEW g \in DOMAIN writes PROVE pages[g] \subseteq writes[g]
      BY <2>1, <2>3, <2>5, <3>0 DEF Keeps
    <3>2. ASSUME NEW m \in Marks(e)
          PROVE  m \in w.todo \/ (m.page \in DOMAIN writes /\ m.kind \in writes[m.page])
      <4>1. CASE m = mark
        BY <2>5, <4>1
      <4>2. CASE m # mark /\ m \in v.todo
        BY <2>6, <4>2
      <4>3. CASE m.page \in DOMAIN v.writes /\ m.kind \in v.writes[m.page]
        BY <2>1, <2>3, <2>5, <3>0, <4>3 DEF Keeps
      <4> QED  BY <2>3, <3>0, <4>1, <4>2, <4>3 DEF Keeps
    <3> QED  BY <2>6, <3>1, <3>2 DEF Keeps
  <2>10. ~disturbed => \A q \in Process \ {p} : ~Busied(q)
    BY <2>3 DEF NoMarkIsLost, Busied
  <2>11. disturbed' \in BOOLEAN /\ (disturbed => disturbed')
    BY <2>1 DEF TablesType
  <2> HIDE DEF w
  <2> QED  BY <2>1, <2>7, <2>8, <2>9, <2>10, <2>11, OneTransaction
<1>4. ASSUME NEW p \in Process, Import!Rollback(p) PROVE ImportInvariant'
  <2>1. work' = [work EXCEPT ![p] = Import!Idle] /\ UNCHANGED <<pages, candidates, imported, disturbed>>
    BY <1>4 DEF Import!Rollback
  <2>2. Import!Idle = [extraction |-> None, todo |-> {}, seen |-> None, writes |-> << >>]
    BY DEF Import!Idle
  <2>3. WellFormed(Import!Idle) /\ Owed(Import!Idle) /\ Keeps(Import!Idle) /\ Import!Idle.extraction = None
    BY <2>2, NewTransaction
  <2>4. disturbed' \in BOOLEAN /\ (disturbed => disturbed')
    BY <2>1 DEF TablesType
  <2> QED  BY <2>1, <2>3, <2>4, OneTransaction
<1>5. CASE UNCHANGED <<pages, candidates, work, imported, disturbed, imports>>
  <2>1. Due' = Due /\ Made' = Made
    BY <1>5 DEF Due, Made, Marks
  <2>2. \A v : (WellFormed(v) <=> WellFormed(v)') /\ (Owed(v) <=> Owed(v)') /\ (Keeps(v) <=> Keeps(v)')
    BY <1>5, <2>1 DEF WellFormed, Owed, Keeps
  <2>3. TablesType' /\ NoMarkIsMadeUp'
    BY <1>5, <2>1, <2>2 DEF TablesType, NoMarkIsMadeUp
  <2>4. NoMarkIsLost'
    BY <1>5, <2>1, <2>2 DEF NoMarkIsLost, Busied
  <2>5. CandidatesAreWhole'
    BY <1>5 DEF CandidatesAreWhole, Rows
  <2> QED  BY <2>3, <2>4, <2>5
<1> QED
  BY <1>1, <1>2, <1>3, <1>4, <1>5, ImportProjectionKeeps, CommitKeeps DEF Import!Next

(* However imports interleave, are ended half way or come again: each mark is   *)
(* owed to one that returned, none is missing unless one disturbed another, and *)
(* the candidates are those of the imports that returned.                       *)
THEOREM ImportWhole ==
  ASSUME Import!ConstantsAssumption
  PROVE  Import!Spec => []ImportsAreWhole
<1>1. Import!Init => ImportInvariant
  BY ImportInit
<1>2. ImportInvariant /\ [Import!Next]_<<pages, candidates, work, imported, disturbed, imports>> => ImportInvariant'
  BY ImportStep
<1>3. ImportInvariant => ImportsAreWhole
  BY DEF ImportInvariant, NoMarkIsMadeUp, NoMarkIsLost, ImportsAreWhole, MarksAreOfImports
<1> QED  BY <1>1, <1>2, <1>3, PTL DEF Import!Spec, Import!tables

-----------------------------------------------------------------------------
\* The session of a tab.
CallType ==
  [at : {"idle", "sent", "waiting", "resent", "refused"}, token : Nat, tenant : Workspace \cup {None},
   key : Workspace \cup {None}, as : Person \cup {None}, moved : BOOLEAN]

UnderWay(c) == calls[c].at \in {"sent", "waiting", "resent"}

TabType ==
  /\ user \in Person \cup {None}
  /\ tenant \in Workspace \cup {None}
  /\ ready \in BOOLEAN
  /\ accessToken \in 0..Len(issued)
  /\ calls \in [Tab!Call -> CallType]
  /\ cookie \in Person \cup {None}
  /\ refreshInFlight # None => refreshInFlight.cookie \in Person \cup {None}
  /\ issued \in Seq(Person \cup {None})
  /\ expired \in 0..Len(issued)
  /\ \A c \in Tab!Call : UnderWay(c) => calls[c].token \in 0..Len(issued)
  /\ UnderWay("signIn") => user = None /\ calls["signIn"].as \in Person
  /\ DOMAIN cache = Query

\* Before the cookie was tried nothing is asked for, and with nobody signed in nothing
\* is cached, nor will be.
NothingOfNobody ==
  /\ ~ready => /\ \A c \in Tab!Call : ~UnderWay(c)
               /\ refreshInFlight = None /\ user = None
  /\ user = None => \A q \in Query : cache[q] = None /\ (UnderWay(q) => calls[q].key = None)

\* The token, the cookie and the refresh are those of the person who is signed in.
CredentialsAreOnes ==
  parted = "nothing" =>
    /\ accessToken # 0 => user # None /\ issued[accessToken] = user
    /\ user # None /\ cookie # None => cookie = user
    /\ refreshInFlight # None /\ refreshInFlight.cookie # None => refreshInFlight.cookie = user

\* With nobody signed in, a cookie that is left over is never used.
CookieIsIdle ==
  parted = "nothing" /\ user = None /\ cookie # None => \A c \in Tab!Call :
    UnderWay(c) => calls[c].at = "sent" /\ c \notin Query /\ calls[c].token = 0

\* What is cached, or will be, is of the person who is signed in ...
QueriesAreOnes ==
  parted = "nothing" => \A q \in Query :
    /\ UnderWay(q) /\ calls[q].key # None /\ calls[q].token # 0 => issued[calls[q].token] = user
    /\ cache[q] # None => cache[q].of = user

\* ... and of the workspace it was asked for, unless it was repeated for another.
KeysAreTenants ==
  \A q \in Query :
    /\ UnderWay(q) /\ calls[q].key # None =>
         /\ calls[q].at = "sent" => calls[q].tenant = calls[q].key
         /\ calls[q].at \in {"sent", "waiting"} => tenant = calls[q].key \/ calls[q].moved
         /\ calls[q].at = "resent" => calls[q].tenant = calls[q].key \/ calls[q].moved
    /\ cache[q] # None => cache[q].tenant = cache[q].key \/ cache[q].moved

\* A call that was repeated is not refused again.
ResentIsLive == \A c \in Tab!Call : calls[c].at = "resent" => calls[c].token > expired

TabInvariant ==
  /\ TabType /\ NothingOfNobody /\ CredentialsAreOnes /\ CookieIsIdle
  /\ QueriesAreOnes /\ KeysAreTenants /\ ResentIsLive

LEMMA TabConstants ==
  ASSUME Tab!ConstantsAssumption
  PROVE  /\ "signIn" \in Tab!Call \ Query /\ "signOut" \in Tab!Call \ Query
         /\ Query \subseteq Tab!Call /\ None \notin Person /\ None \notin Workspace
BY DEF Tab!ConstantsAssumption, Tab!Call

LEMMA TabInit ==
  ASSUME Tab!ConstantsAssumption, Tab!Init
  PROVE  TabInvariant
<1> USE TabConstants
<1>1. /\ user = None /\ tenant = None /\ ready = FALSE /\ accessToken = 0 /\ refreshInFlight = None
      /\ calls = [c \in Tab!Call |-> Tab!Idle] /\ cache = [q \in Query |-> None]
      /\ cookie \in Person \cup {None} /\ issued = << >> /\ expired = 0
  BY DEF Tab!Init
<1>2. Tab!Idle \in CallType /\ Tab!Idle.at = "idle"
  BY DEF Tab!Idle, CallType
<1>3. \A c \in Tab!Call : ~UnderWay(c) /\ calls[c].at = "idle"
  BY <1>1, <1>2 DEF UnderWay
<1>4. TabType
  <2>1. issued \in Seq(Person \cup {None}) /\ Len(issued) = 0
    BY <1>1
  <2>2. calls \in [Tab!Call -> CallType] /\ DOMAIN cache = Query
    BY <1>1, <1>2
  <2>3. accessToken \in 0..Len(issued) /\ expired \in 0..Len(issued)
    BY <1>1, <2>1
  <2>4. /\ user \in Person \cup {None} /\ tenant \in Workspace \cup {None} /\ ready \in BOOLEAN
        /\ cookie \in Person \cup {None} /\ refreshInFlight = None
    BY <1>1
  <2> QED  BY <1>3, <2>1, <2>2, <2>3, <2>4 DEF TabType
<1>5. NothingOfNobody /\ CredentialsAreOnes /\ CookieIsIdle
  BY <1>1, <1>3 DEF NothingOfNobody, CredentialsAreOnes, CookieIsIdle
<1>6. QueriesAreOnes /\ KeysAreTenants /\ ResentIsLive
  BY <1>1, <1>3 DEF QueriesAreOnes, KeysAreTenants, ResentIsLive
<1> QED  BY <1>4, <1>5, <1>6 DEF TabInvariant

\* Steps of the server, of another tab and of the person that no call takes.
LEMMA TabQuiet ==
  ASSUME Tab!ConstantsAssumption, TabInvariant,
         \/ Tab!Expire \/ Tab!MountRefused
         \/ \E p \in Person \cup {None} : Tab!CookieChanges(p)
         \/ \E t \in Workspace : Tab!ChooseTenant(t)
  PROVE  TabInvariant' /\ Tab!RefusedOnlyAtTheEnd
<1> USE TabConstants DEF TabInvariant
<1>1. CASE Tab!Expire
  <2>1. /\ expired < Len(issued) /\ expired' = expired + 1
        /\ \A c \in Tab!Call : calls[c].at = "resent" => calls[c].token # expired + 1
        /\ UNCHANGED <<user, tenant, ready, accessToken, refreshInFlight, calls, cache, cookie, issued, parted>>
    BY <1>1 DEF Tab!Expire
  <2>2. expired \in Nat /\ Len(issued) \in Nat /\ \A c \in Tab!Call : calls[c].token \in Nat
    BY DEF TabType, CallType
  <2>3. TabType'
    BY <2>1, <2>2 DEF TabType, UnderWay
  <2>4. NothingOfNobody'
    BY <2>1, <2>2 DEF NothingOfNobody, UnderWay
  <2>5. CredentialsAreOnes'
    BY <2>1, <2>2 DEF CredentialsAreOnes, UnderWay
  <2>6. CookieIsIdle'
    BY <2>1, <2>2 DEF CookieIsIdle, UnderWay
  <2>7. QueriesAreOnes'
    BY <2>1, <2>2 DEF QueriesAreOnes, UnderWay
  <2>8. KeysAreTenants'
    BY <2>1, <2>2 DEF KeysAreTenants, UnderWay
  <2>9. ResentIsLive'
    BY <2>1, <2>2 DEF ResentIsLive, UnderWay
  <2>10. Tab!RefusedOnlyAtTheEnd
    BY <2>1, <2>2 DEF Tab!RefusedOnlyAtTheEnd
  <2> QED  BY <2>3, <2>4, <2>5, <2>6, <2>7, <2>8, <2>9, <2>10 DEF TabInvariant
<1>2. ASSUME NEW p \in Person \cup {None}, Tab!CookieChanges(p)
      PROVE  TabInvariant' /\ Tab!RefusedOnlyAtTheEnd
  <2>1. /\ cookie' = p /\ (parted' = "nothing" => parted = "nothing" /\ p \in {user, None})
        /\ UNCHANGED <<user, tenant, ready, accessToken, refreshInFlight, calls, cache, issued, expired>>
    BY <1>2 DEF Tab!CookieChanges
  <2>2. TabType'
    BY <2>1 DEF TabType, UnderWay
  <2>3. NothingOfNobody'
    BY <2>1 DEF NothingOfNobody, UnderWay
  <2>4. CredentialsAreOnes'
    BY <2>1 DEF CredentialsAreOnes, UnderWay
  <2>5. CookieIsIdle'
    BY <2>1 DEF CookieIsIdle, UnderWay
  <2>6. QueriesAreOnes'
    BY <2>1 DEF QueriesAreOnes, UnderWay
  <2>7. KeysAreTenants'
    BY <2>1 DEF KeysAreTenants, UnderWay
  <2>8. ResentIsLive'
    BY <2>1 DEF ResentIsLive, UnderWay
  <2>9. Tab!RefusedOnlyAtTheEnd
    BY <2>1 DEF Tab!RefusedOnlyAtTheEnd
  <2> QED  BY <2>2, <2>3, <2>4, <2>5, <2>6, <2>7, <2>8, <2>9 DEF TabInvariant
<1>3. CASE Tab!MountRefused
  <2>1. /\ ~ready /\ ready' = TRUE
        /\ UNCHANGED <<user, tenant, accessToken, refreshInFlight, calls, cache, cookie, issued, expired, parted>>
    BY <1>3 DEF Tab!MountRefused
  <2>2. TabType'
    BY <2>1 DEF TabType, UnderWay
  <2>3. NothingOfNobody'
    BY <2>1 DEF NothingOfNobody, UnderWay
  <2>4. CredentialsAreOnes'
    BY <2>1 DEF CredentialsAreOnes, UnderWay
  <2>5. CookieIsIdle'
    BY <2>1 DEF CookieIsIdle, UnderWay
  <2>6. QueriesAreOnes'
    BY <2>1 DEF QueriesAreOnes, UnderWay
  <2>7. KeysAreTenants'
    BY <2>1 DEF KeysAreTenants, UnderWay
  <2>8. ResentIsLive'
    BY <2>1 DEF ResentIsLive, UnderWay
  <2>9. Tab!RefusedOnlyAtTheEnd
    BY <2>1 DEF Tab!RefusedOnlyAtTheEnd
  <2> QED  BY <2>2, <2>3, <2>4, <2>5, <2>6, <2>7, <2>8, <2>9 DEF TabInvariant
<1>4. ASSUME NEW t \in Workspace, Tab!ChooseTenant(t) PROVE TabInvariant' /\ Tab!RefusedOnlyAtTheEnd
  <2> DEFINE late(c) == c \in Query /\ calls[c].at \in {"sent", "waiting"}
             after(c) == IF late(c) THEN [calls[c] EXCEPT !.moved = TRUE] ELSE calls[c]
  <2>1. /\ tenant' = t /\ calls' = [c \in Tab!Call |-> after(c)]
        /\ UNCHANGED <<user, ready, accessToken, refreshInFlight, cache, cookie, issued, expired, parted>>
    BY <1>4 DEF Tab!ChooseTenant
  <2>2. \A c \in Tab!Call : calls[c] \in CallType
    BY DEF TabType
  <2>3. \A c \in Tab!Call :
          /\ after(c) \in CallType /\ after(c).at = calls[c].at /\ after(c).token = calls[c].token
          /\ after(c).tenant = calls[c].tenant /\ after(c).key = calls[c].key /\ after(c).as = calls[c].as
          /\ after(c).moved = (late(c) \/ calls[c].moved)
    <3> SUFFICES ASSUME NEW c \in Tab!Call
                 PROVE  /\ after(c) \in CallType /\ after(c).at = calls[c].at
                        /\ after(c).token = calls[c].token /\ after(c).tenant = calls[c].tenant
                        /\ after(c).key = calls[c].key /\ after(c).as = calls[c].as
                        /\ after(c).moved = (late(c) \/ calls[c].moved)
      OBVIOUS
    <3>1. calls[c] \in CallType
      BY <2>2
    <3>2. CASE late(c)
      <4>1. after(c) = [at |-> calls[c].at, token |-> calls[c].token, tenant |-> calls[c].tenant,
                        key |-> calls[c].key, as |-> calls[c].as, moved |-> TRUE]
        BY <3>1, <3>2 DEF CallType
      <4>2. after(c) \in CallType
        BY <3>1, <4>1 DEF CallType
      <4> QED  BY <3>2, <4>1, <4>2
    <3>3. CASE ~late(c)
      BY <3>1, <3>3 DEF CallType
    <3> QED  BY <3>2, <3>3
  <2>4. \A c \in Tab!Call : calls'[c] = after(c)
    BY <2>1
  <2>5. calls' \in [Tab!Call -> CallType]
    BY <2>1, <2>3
  <2>6. \A c \in Tab!Call :
          /\ calls'[c].at = calls[c].at /\ calls'[c].token = calls[c].token
          /\ calls'[c].tenant = calls[c].tenant /\ calls'[c].key = calls[c].key /\ calls'[c].as = calls[c].as
          /\ late(c) => calls'[c].moved = TRUE
          /\ ~late(c) => calls'[c].moved = calls[c].moved
    BY <2>2, <2>3, <2>4 DEF CallType
  <2> HIDE DEF after
  <2>7. TabType'
    BY <2>1, <2>5, <2>6 DEF TabType, UnderWay
  <2>8. NothingOfNobody'
    BY <2>1, <2>5, <2>6 DEF NothingOfNobody, UnderWay
  <2>9. CredentialsAreOnes'
    BY <2>1, <2>5, <2>6 DEF CredentialsAreOnes, UnderWay
  <2>10. CookieIsIdle'
    BY <2>1, <2>5, <2>6 DEF CookieIsIdle, UnderWay
  <2>11. QueriesAreOnes'
    BY <2>1, <2>5, <2>6 DEF QueriesAreOnes, UnderWay
  <2>12. KeysAreTenants'
    BY <2>1, <2>5, <2>6 DEF KeysAreTenants, UnderWay
  <2>13. ResentIsLive'
    BY <2>1, <2>5, <2>6 DEF ResentIsLive, UnderWay
  <2>14. Tab!RefusedOnlyAtTheEnd
    BY <2>1, <2>5, <2>6 DEF Tab!RefusedOnlyAtTheEnd
  <2> QED  BY <2>7, <2>8, <2>9, <2>10, <2>11, <2>12, <2>13, <2>14 DEF TabInvariant
<1> QED  BY <1>1, <1>2, <1>3, <1>4

\* A token more, and nothing that was issued before is touched.
LEMMA IssuedMore ==
  ASSUME TabType, NEW p \in Person \cup {None}, Tab!Issue(p)
  PROVE  /\ issued' \in Seq(Person \cup {None}) /\ Len(issued') = Len(issued) + 1 /\ Len(issued) \in Nat
         /\ \A n \in 1..Len(issued) : issued'[n] = issued[n]
         /\ issued'[Len(issued) + 1] = p
         /\ cookie' = p /\ accessToken' = Len(issued) + 1
BY DEF TabType, Tab!Issue

\* The steps that sign in and out.
LEMMA TabSigns ==
  ASSUME Tab!ConstantsAssumption, TabInvariant,
         Tab!MountAnswered \/ Tab!SignedIn \/ Tab!SignedOut
  PROVE  TabInvariant' /\ Tab!RefusedOnlyAtTheEnd
<1> USE TabConstants DEF TabInvariant
<1>t. \A c \in Tab!Call : calls[c] \in CallType /\ calls[c].token \in Nat
  BY DEF TabType, CallType
<1>1. CASE Tab!MountAnswered
  <2>0. /\ ~ready /\ cookie \in Person /\ Tab!Issue(cookie) /\ user' = cookie /\ ready' = TRUE
        /\ UNCHANGED <<tenant, refreshInFlight, calls, cache, expired>>
    BY <1>1 DEF Tab!MountAnswered, TabType
  <2>1. /\ issued' \in Seq(Person \cup {None}) /\ Len(issued') = Len(issued) + 1 /\ Len(issued) \in Nat
        /\ issued'[Len(issued) + 1] = cookie /\ cookie' = cookie /\ accessToken' = Len(issued) + 1
    BY <2>0, IssuedMore
  <2>2. /\ user = None /\ refreshInFlight = None /\ \A q \in Query : cache[q] = None
        /\ \A c \in Tab!Call : ~UnderWay(c) /\ calls[c].at \notin {"sent", "waiting", "resent"}
    BY <2>0 DEF NothingOfNobody, UnderWay
  <2>3. TabType'
    BY <2>0, <2>1, <2>2 DEF TabType, UnderWay
  <2>4. NothingOfNobody'
    BY <2>0, <2>1, <2>2 DEF NothingOfNobody, UnderWay
  <2>5. CredentialsAreOnes'
    BY <2>0, <2>1, <2>2 DEF CredentialsAreOnes, UnderWay
  <2>6. CookieIsIdle'
    BY <2>0, <2>1, <2>2 DEF CookieIsIdle, UnderWay
  <2>7. QueriesAreOnes'
    BY <2>0, <2>1, <2>2 DEF QueriesAreOnes, UnderWay
  <2>8. KeysAreTenants'
    BY <2>0, <2>1, <2>2 DEF KeysAreTenants, UnderWay
  <2>9. ResentIsLive'
    BY <2>0, <2>1, <2>2 DEF ResentIsLive, UnderWay
  <2>10. Tab!RefusedOnlyAtTheEnd
    BY <2>0, <2>1, <2>2 DEF Tab!RefusedOnlyAtTheEnd
  <2> QED  BY <2>3, <2>4, <2>5, <2>6, <2>7, <2>8, <2>9, <2>10 DEF TabInvariant
<1>2. CASE Tab!SignedIn
  <2> DEFINE p == calls["signIn"].as
  <2>0. /\ UnderWay("signIn") /\ Tab!Issue(p) /\ user' = p
        /\ parted' = "nothing" /\ refreshInFlight # None => refreshInFlight.cookie \in {p, None}
        /\ calls' = [calls EXCEPT !["signIn"] = Tab!Idle]
        /\ UNCHANGED <<tenant, ready, refreshInFlight, cache, expired>>
    BY <1>2 DEF Tab!SignedIn, Tab!Under, Tab!Overtakes, UnderWay
  <2>1. /\ p \in Person /\ user = None /\ ready
        /\ \A q \in Query : cache[q] = None /\ (UnderWay(q) => calls[q].key = None)
    BY <2>0 DEF TabType, NothingOfNobody
  <2>2. /\ issued' \in Seq(Person \cup {None}) /\ Len(issued') = Len(issued) + 1 /\ Len(issued) \in Nat
        /\ issued'[Len(issued) + 1] = p /\ cookie' = p /\ accessToken' = Len(issued) + 1
    BY <2>0, <2>1, IssuedMore
  <2> HIDE DEF p
  <2>3. Tab!Idle \in CallType /\ Tab!Idle.at = "idle"
    BY DEF Tab!Idle, CallType
  <2>4. \A d \in Tab!Call : calls'[d] = IF d = "signIn" THEN Tab!Idle ELSE calls[d]
    BY <2>0 DEF TabType
  <2>5. TabType'
    BY <1>t, <2>0, <2>1, <2>2, <2>3, <2>4 DEF TabType, UnderWay
  <2>6. NothingOfNobody'
    BY <1>t, <2>0, <2>1, <2>2, <2>3, <2>4 DEF NothingOfNobody, UnderWay
  <2>7. CredentialsAreOnes'
    BY <1>t, <2>0, <2>1, <2>2, <2>3, <2>4 DEF CredentialsAreOnes, UnderWay
  <2>8. CookieIsIdle'
    BY <1>t, <2>0, <2>1, <2>2, <2>3, <2>4 DEF CookieIsIdle, UnderWay
  <2>9. QueriesAreOnes'
    BY <1>t, <2>0, <2>1, <2>2, <2>3, <2>4 DEF QueriesAreOnes, UnderWay
  <2>10. KeysAreTenants'
    BY <1>t, <2>0, <2>1, <2>2, <2>3, <2>4 DEF KeysAreTenants, UnderWay
  <2>11. ResentIsLive'
    BY <1>t, <2>0, <2>1, <2>2, <2>3, <2>4 DEF ResentIsLive, UnderWay
  <2>12. Tab!RefusedOnlyAtTheEnd
    BY <1>t, <2>0, <2>1, <2>2, <2>3, <2>4 DEF Tab!RefusedOnlyAtTheEnd
  <2> QED  BY <2>5, <2>6, <2>7, <2>8, <2>9, <2>10, <2>11, <2>12 DEF TabInvariant
<1>3. CASE Tab!SignedOut
  <2>1. /\ cookie' = None /\ accessToken' = 0 /\ user' = None /\ tenant' = None
        /\ parted' = "nothing" /\ refreshInFlight # None => refreshInFlight.cookie = None
        /\ cache' = [q \in Query |-> None]
        /\ calls' = [c \in Tab!Call |-> IF c = "signOut" THEN Tab!Idle ELSE [calls[c] EXCEPT !.key = None]]
        /\ UNCHANGED <<ready, refreshInFlight, issued, expired>>
    BY <1>3 DEF Tab!SignedOut, Tab!Overtakes
  <2>2. Tab!Idle \in CallType /\ Tab!Idle.at = "idle" /\ Tab!Idle.key = None
    BY DEF Tab!Idle, CallType
  <2>3. \A c \in Tab!Call : calls'[c] \in CallType /\ calls'[c].key = None
    BY <1>t, <2>1, <2>2 DEF CallType
  <2>4. \A c \in Tab!Call : c # "signOut" =>
          calls'[c].at = calls[c].at /\ calls'[c].token = calls[c].token /\ calls'[c].as = calls[c].as
    BY <1>t, <2>1 DEF CallType
  <2>5. calls'["signOut"].at = "idle"
    BY <2>1, <2>2
  <2>6. calls' \in [Tab!Call -> CallType]
    BY <2>1, <2>3
  <2>7. \A c \in Tab!Call : UnderWay(c)' => UnderWay(c) /\ c # "signOut"
    BY <2>4, <2>5 DEF UnderWay
  <2>8. TabType'
    BY <1>t, <2>1, <2>3, <2>4, <2>5, <2>6, <2>7 DEF TabType, UnderWay
  <2>9. NothingOfNobody'
    BY <1>t, <2>1, <2>3, <2>4, <2>5, <2>6, <2>7 DEF NothingOfNobody, UnderWay
  <2>10. CredentialsAreOnes'
    BY <1>t, <2>1, <2>3, <2>4, <2>5, <2>6, <2>7 DEF CredentialsAreOnes, UnderWay
  <2>11. CookieIsIdle'
    BY <1>t, <2>1, <2>3, <2>4, <2>5, <2>6, <2>7 DEF CookieIsIdle, UnderWay
  <2>12. QueriesAreOnes'
    BY <1>t, <2>1, <2>3, <2>4, <2>5, <2>6, <2>7 DEF QueriesAreOnes, UnderWay
  <2>13. KeysAreTenants'
    BY <1>t, <2>1, <2>3, <2>4, <2>5, <2>6, <2>7 DEF KeysAreTenants, UnderWay
  <2>14. ResentIsLive'
    BY <1>t, <2>1, <2>3, <2>4, <2>5, <2>6, <2>7 DEF ResentIsLive, UnderWay
  <2>15. Tab!RefusedOnlyAtTheEnd
    BY <1>t, <2>1, <2>3, <2>4, <2>5, <2>6, <2>7 DEF Tab!RefusedOnlyAtTheEnd
  <2> QED  BY <2>8, <2>9, <2>10, <2>11, <2>12, <2>13, <2>14, <2>15 DEF TabInvariant
<1> QED  BY <1>1, <1>2, <1>3

\* The steps of one call.
LEMMA TabCalls ==
  ASSUME Tab!ConstantsAssumption, TabInvariant,
         \/ Tab!AskSignIn \/ Tab!AskSignOut
         \/ \E q \in Query : Tab!Ask(q) \/ Tab!Answered(q)
         \/ \E c \in Tab!Call : Tab!Lost(c) \/ Tab!Unauthorised(c) \/ Tab!UnauthorisedAgain(c)
  PROVE  TabInvariant' /\ Tab!RefusedOnlyAtTheEnd
<1> USE TabConstants DEF TabInvariant
<1>t. \A c \in Tab!Call : calls[c] \in CallType /\ calls[c].token \in Nat
  BY DEF TabType, CallType
<1>n. accessToken \in Nat /\ expired \in Nat /\ Len(issued) \in Nat
  BY DEF TabType
<1>idle. Tab!Idle \in CallType /\ Tab!Idle.at = "idle"
  BY DEF Tab!Idle, CallType
<1>1. ASSUME NEW c \in Tab!Call, NEW workspace \in Workspace \cup {None}, NEW as \in Person \cup {None},
             Tab!Fetch(c, workspace, as), ready,
             c \in Query => user # None /\ workspace = tenant,
             c = "signIn" => user = None /\ as \in Person,
             c = "signOut" => user # None
      PROVE  TabInvariant' /\ Tab!RefusedOnlyAtTheEnd
  <2> DEFINE w == [at |-> "sent", token |-> accessToken, tenant |-> workspace, key |-> workspace, as |-> as,
                   moved |-> FALSE]
  <2>1. /\ calls' = [calls EXCEPT ![c] = w]
        /\ UNCHANGED <<user, tenant, ready, accessToken, refreshInFlight, cache, cookie, issued, expired, parted>>
    BY <1>1 DEF Tab!Fetch
  <2>2. \A d \in Tab!Call : calls'[d] = IF d = c THEN w ELSE calls[d]
    BY <2>1 DEF TabType
  <2>3. /\ w \in CallType /\ w.at = "sent" /\ w.token = accessToken /\ w.tenant = workspace
        /\ w.key = workspace /\ w.as = as
    BY <1>n DEF CallType
  <2>4. user = None => c \notin Query /\ (parted = "nothing" => accessToken = 0)
    BY <1>1 DEF CredentialsAreOnes
  <2>5. accessToken \in 0..Len(issued) /\ (c \in Query => user # None /\ workspace = tenant)
    BY <1>1 DEF TabType
  <2>6. parted = "nothing" /\ accessToken # 0 => issued[accessToken] = user
    BY DEF CredentialsAreOnes
  <2> HIDE DEF w
  <2>7. TabType'
    BY <1>1, <1>n, <2>1, <2>2, <2>3, <2>4, <2>5, <2>6 DEF TabType, UnderWay
  <2>8. NothingOfNobody'
    BY <1>1, <1>n, <2>1, <2>2, <2>3, <2>4, <2>5, <2>6 DEF NothingOfNobody, UnderWay
  <2>9. CredentialsAreOnes'
    BY <1>1, <1>n, <2>1, <2>2, <2>3, <2>4, <2>5, <2>6 DEF CredentialsAreOnes, UnderWay
  <2>10. CookieIsIdle'
    BY <1>1, <1>n, <2>1, <2>2, <2>3, <2>4, <2>5, <2>6 DEF CookieIsIdle, UnderWay
  <2>11. QueriesAreOnes'
    BY <1>1, <1>n, <2>1, <2>2, <2>3, <2>4, <2>5, <2>6 DEF QueriesAreOnes, UnderWay
  <2>12. KeysAreTenants'
    BY <1>1, <1>n, <2>1, <2>2, <2>3, <2>4, <2>5, <2>6 DEF KeysAreTenants, UnderWay
  <2>13. ResentIsLive'
    BY <1>1, <1>n, <2>1, <2>2, <2>3, <2>4, <2>5, <2>6 DEF ResentIsLive, UnderWay
  <2>14. Tab!RefusedOnlyAtTheEnd
    BY <1>1, <1>n, <2>1, <2>2, <2>3, <2>4, <2>5, <2>6 DEF Tab!RefusedOnlyAtTheEnd
  <2> QED  BY <2>7, <2>8, <2>9, <2>10, <2>11, <2>12, <2>13, <2>14 DEF TabInvariant
<1>2. CASE Tab!AskSignIn
  <2>1. PICK p \in Person : Tab!Fetch("signIn", None, p)
    BY <1>2 DEF Tab!AskSignIn
  <2> QED  BY <1>1, <1>2, <2>1 DEF Tab!AskSignIn
<1>3. CASE Tab!AskSignOut
  <2>1. ready
    BY <1>3 DEF Tab!AskSignOut, NothingOfNobody
  <2> QED  BY <1>1, <1>3, <2>1 DEF Tab!AskSignOut
<1>4. ASSUME NEW q \in Query, Tab!Ask(q) PROVE TabInvariant' /\ Tab!RefusedOnlyAtTheEnd
  <2>1. ready /\ tenant \in Workspace \cup {None}
    BY <1>4 DEF Tab!Ask, NothingOfNobody, TabType
  <2> QED  BY <1>1, <1>4, <2>1 DEF Tab!Ask
<1>5. ASSUME NEW c \in Query, Tab!Answered(c) PROVE TabInvariant' /\ Tab!RefusedOnlyAtTheEnd
  <2> DEFINE w == Tab!Idle
             row == [of |-> issued[calls[c].token], tenant |-> calls[c].tenant, key |-> calls[c].key,
                     moved |-> calls[c].at = "resent" /\ calls[c].moved]
  <2>1. /\ calls' = [calls EXCEPT ![c] = w]
        /\ cache' = [cache EXCEPT ![c] = IF calls[c].key = None THEN @ ELSE row]
        /\ UNCHANGED <<user, tenant, ready, accessToken, refreshInFlight, cookie, issued, expired, parted>>
    BY <1>5 DEF Tab!Answered
  <2>2. \A d \in Tab!Call : calls'[d] = IF d = c THEN w ELSE calls[d]
    BY <2>1 DEF TabType
  <2>3. DOMAIN cache' = Query /\ \A q \in Query : cache'[q] = IF q = c /\ calls[c].key # None THEN row ELSE cache[q]
    BY <2>1 DEF TabType
  <2>4. UnderWay(c) /\ calls[c].at \in {"sent", "resent"} /\ calls[c].token > expired
    BY <1>5 DEF Tab!Answered, Tab!Under, Tab!Authorised, Tab!Live, UnderWay
  <2>5. calls[c].key # None => user # None /\ (parted = "nothing" => row.of = user)
    BY <1>t, <1>n, <2>4 DEF QueriesAreOnes, NothingOfNobody
  <2>6. calls[c].key # None => row.tenant = row.key \/ row.moved
    BY <2>4 DEF KeysAreTenants
  <2> HIDE DEF row
  <2>7. TabType'
    BY <1>idle, <2>1, <2>2, <2>3, <2>5, <2>6 DEF TabType, UnderWay
  <2>8. NothingOfNobody'
    BY <1>idle, <2>1, <2>2, <2>3, <2>5, <2>6 DEF NothingOfNobody, UnderWay
  <2>9. CredentialsAreOnes'
    BY <1>idle, <2>1, <2>2, <2>3, <2>5, <2>6 DEF CredentialsAreOnes, UnderWay
  <2>10. CookieIsIdle'
    BY <1>idle, <2>1, <2>2, <2>3, <2>5, <2>6 DEF CookieIsIdle, UnderWay
  <2>11. QueriesAreOnes'
    BY <1>idle, <2>1, <2>2, <2>3, <2>5, <2>6 DEF QueriesAreOnes, UnderWay
  <2>12. KeysAreTenants'
    BY <1>idle, <2>1, <2>2, <2>3, <2>5, <2>6 DEF KeysAreTenants, UnderWay
  <2>13. ResentIsLive'
    BY <1>idle, <2>1, <2>2, <2>3, <2>5, <2>6 DEF ResentIsLive, UnderWay
  <2>14. Tab!RefusedOnlyAtTheEnd
    BY <1>idle, <2>1, <2>2, <2>3, <2>5, <2>6 DEF Tab!RefusedOnlyAtTheEnd
  <2> QED  BY <2>7, <2>8, <2>9, <2>10, <2>11, <2>12, <2>13, <2>14 DEF TabInvariant
<1>6. ASSUME NEW c \in Tab!Call, Tab!Lost(c) PROVE TabInvariant' /\ Tab!RefusedOnlyAtTheEnd
  <2> DEFINE w == Tab!Idle
  <2>1. /\ calls' = [calls EXCEPT ![c] = w]
        /\ UNCHANGED <<user, tenant, ready, accessToken, refreshInFlight, cache, cookie, issued, expired, parted>>
    BY <1>6 DEF Tab!Lost
  <2>2. \A d \in Tab!Call : calls'[d] = IF d = c THEN w ELSE calls[d]
    BY <2>1 DEF TabType
  <2>3. TabType'
    BY <1>idle, <2>1, <2>2 DEF TabType, UnderWay
  <2>4. NothingOfNobody'
    BY <1>idle, <2>1, <2>2 DEF NothingOfNobody, UnderWay
  <2>5. CredentialsAreOnes'
    BY <1>idle, <2>1, <2>2 DEF CredentialsAreOnes, UnderWay
  <2>6. CookieIsIdle'
    BY <1>idle, <2>1, <2>2 DEF CookieIsIdle, UnderWay
  <2>7. QueriesAreOnes'
    BY <1>idle, <2>1, <2>2 DEF QueriesAreOnes, UnderWay
  <2>8. KeysAreTenants'
    BY <1>idle, <2>1, <2>2 DEF KeysAreTenants, UnderWay
  <2>9. ResentIsLive'
    BY <1>idle, <2>1, <2>2 DEF ResentIsLive, UnderWay
  <2>10. Tab!RefusedOnlyAtTheEnd
    BY <1>idle, <2>1, <2>2 DEF Tab!RefusedOnlyAtTheEnd
  <2> QED  BY <2>3, <2>4, <2>5, <2>6, <2>7, <2>8, <2>9, <2>10 DEF TabInvariant
<1>7. ASSUME NEW c \in Tab!Call, Tab!Unauthorised(c) PROVE TabInvariant' /\ Tab!RefusedOnlyAtTheEnd
  <2> DEFINE w == [at |-> "waiting", token |-> 0, tenant |-> None, key |-> calls[c].key, as |-> calls[c].as,
                   moved |-> calls[c].moved]
  <2>0. calls[c] \in CallType /\ calls \in [Tab!Call -> CallType]
    BY DEF TabType
  <2>1. /\ calls' = [calls EXCEPT ![c] = w]
        /\ calls[c].at = "sent" /\ ~Tab!Authorised(c)
        /\ refreshInFlight' = IF refreshInFlight = None THEN [cookie |-> cookie] ELSE refreshInFlight
        /\ UNCHANGED <<user, tenant, ready, accessToken, cache, cookie, issued, expired, parted>>
    BY <1>7 DEF Tab!Unauthorised, Tab!Waits
  <2>2. \A d \in Tab!Call : calls'[d] = IF d = c THEN w ELSE calls[d]
    BY <2>0, <2>1
  <2>3. /\ w \in CallType /\ w.at = "waiting" /\ w.token = 0
        /\ w.key = calls[c].key /\ w.as = calls[c].as /\ w.moved = calls[c].moved
    BY <2>0 DEF CallType
  <2> HIDE DEF w
  <2>4. UnderWay(c) /\ ready /\ 0 \in 0..Len(issued)
    BY <1>n, <2>1 DEF UnderWay, NothingOfNobody
  <2>5. c \in Query \/ calls[c].token # 0
    BY <2>1 DEF Tab!Authorised
  <2>6. ~(parted = "nothing" /\ user = None /\ cookie # None)
    BY <2>1, <2>4, <2>5 DEF CookieIsIdle
  <2>7. refreshInFlight'.cookie = IF refreshInFlight = None THEN cookie ELSE refreshInFlight.cookie
    BY <2>1
  <2>8. TabType'
    BY <2>1, <2>2, <2>3, <2>4, <2>6, <2>7 DEF TabType, UnderWay
  <2>9. NothingOfNobody'
    BY <2>1, <2>2, <2>3, <2>4, <2>6, <2>7 DEF NothingOfNobody, UnderWay
  <2>10. CredentialsAreOnes'
    BY <2>1, <2>2, <2>3, <2>4, <2>6, <2>7 DEF CredentialsAreOnes, UnderWay
  <2>11. CookieIsIdle'
    BY <2>1, <2>2, <2>3, <2>4, <2>6, <2>7 DEF CookieIsIdle, UnderWay
  <2>12. QueriesAreOnes'
    BY <2>1, <2>2, <2>3, <2>4, <2>6, <2>7 DEF QueriesAreOnes, UnderWay
  <2>13. KeysAreTenants'
    BY <2>1, <2>2, <2>3, <2>4, <2>6, <2>7 DEF KeysAreTenants, UnderWay
  <2>14. ResentIsLive'
    BY <2>1, <2>2, <2>3, <2>4, <2>6, <2>7 DEF ResentIsLive, UnderWay
  <2>15. Tab!RefusedOnlyAtTheEnd
    BY <2>1, <2>2, <2>3, <2>4, <2>6, <2>7 DEF Tab!RefusedOnlyAtTheEnd
  <2> QED  BY <2>8, <2>9, <2>10, <2>11, <2>12, <2>13, <2>14, <2>15 DEF TabInvariant
<1>8. ASSUME NEW c \in Tab!Call, Tab!UnauthorisedAgain(c) PROVE TabInvariant' /\ Tab!RefusedOnlyAtTheEnd
  <2>1. calls[c].at = "resent" /\ ~Tab!Authorised(c)
    BY <1>8 DEF Tab!UnauthorisedAgain
  <2> QED  BY <2>1 DEF ResentIsLive, Tab!Authorised, Tab!Live
<1> QED  BY <1>2, <1>3, <1>4, <1>5, <1>6, <1>7, <1>8

\* The steps of the refresh that all who were refused wait for.
LEMMA TabRefreshes ==
  ASSUME Tab!ConstantsAssumption, TabInvariant,
         Tab!RefreshAnswered \/ Tab!RefreshRefused \/ Tab!RefreshLost
  PROVE  TabInvariant' /\ Tab!RefusedOnlyAtTheEnd
<1> USE TabConstants DEF TabInvariant
<1>t. \A c \in Tab!Call : calls[c] \in CallType /\ calls[c].token \in Nat
  BY DEF TabType, CallType
<1>n. accessToken \in Nat /\ expired \in Nat /\ Len(issued) \in Nat /\ expired <= Len(issued)
  BY DEF TabType
<1>1. CASE Tab!RefreshAnswered
  <2> DEFINE p == refreshInFlight.cookie
             again(c) == [calls[c] EXCEPT !.at = "resent", !.token = Len(issued) + 1,
                                          !.tenant = IF c \in Query THEN tenant ELSE None]
  <2>0. /\ refreshInFlight # None /\ p # None /\ Tab!Issue(p)
        /\ calls' = [c \in Tab!Call |-> IF calls[c].at = "waiting" THEN again(c) ELSE calls[c]]
        /\ refreshInFlight' = None
        /\ UNCHANGED <<user, tenant, ready, cache, expired, parted>>
    BY <1>1 DEF Tab!RefreshAnswered, Tab!Resume, Tab!Resent
  <2>1. p \in Person /\ ready /\ (parted = "nothing" => user = p)
    BY <2>0 DEF CredentialsAreOnes, NothingOfNobody, TabType
  <2>2. /\ issued' \in Seq(Person \cup {None}) /\ Len(issued') = Len(issued) + 1
        /\ \A n \in 1..Len(issued) : issued'[n] = issued[n]
        /\ issued'[Len(issued) + 1] = p /\ cookie' = p /\ accessToken' = Len(issued) + 1
    BY <2>0, <2>1, IssuedMore
  <2>3. \A c \in Tab!Call :
          /\ again(c) \in CallType /\ again(c).at = "resent" /\ again(c).token = Len(issued) + 1
          /\ again(c).tenant = (IF c \in Query THEN tenant ELSE None)
          /\ again(c).key = calls[c].key /\ again(c).as = calls[c].as /\ again(c).moved = calls[c].moved
    <3>1. Len(issued) + 1 \in Nat /\ tenant \in Workspace \cup {None}
      BY <1>n DEF TabType
    <3> SUFFICES ASSUME NEW c \in Tab!Call
                 PROVE  /\ again(c) \in CallType /\ again(c).at = "resent" /\ again(c).token = Len(issued) + 1
                        /\ again(c).tenant = (IF c \in Query THEN tenant ELSE None)
                        /\ again(c).key = calls[c].key /\ again(c).as = calls[c].as
                        /\ again(c).moved = calls[c].moved
      OBVIOUS
    <3> DEFINE n == Len(issued) + 1
               t == IF c \in Query THEN tenant ELSE None
    <3>2. n \in Nat /\ t \in Workspace \cup {None} /\ calls[c] \in CallType
      BY <1>t, <3>1
    <3>3. again(c) = [calls[c] EXCEPT !.at = "resent", !.token = n, !.tenant = t]
      OBVIOUS
    <3> HIDE DEF n, t, again
    <3>4. again(c) = [at |-> "resent", token |-> n, tenant |-> t, key |-> calls[c].key, as |-> calls[c].as,
                      moved |-> calls[c].moved]
      BY <3>2, <3>3 DEF CallType
    <3>5. /\ again(c).at = "resent" /\ again(c).token = n /\ again(c).tenant = t
          /\ again(c).key = calls[c].key /\ again(c).as = calls[c].as /\ again(c).moved = calls[c].moved
      BY <3>4
    <3>6. again(c) \in CallType
      BY <3>2, <3>4 DEF CallType
    <3> QED  BY <3>5, <3>6 DEF n, t
  <2>4. \A c \in Tab!Call : calls'[c] = IF calls[c].at = "waiting" THEN again(c) ELSE calls[c]
    BY <2>0
  <2>5. calls' \in [Tab!Call -> CallType]
    BY <1>t, <2>0, <2>3
  <2> HIDE DEF again, p
  <2>6. \A c \in Tab!Call :
          /\ UnderWay(c)' <=> UnderWay(c)
          /\ calls'[c].key = calls[c].key /\ calls'[c].as = calls[c].as /\ calls'[c].moved = calls[c].moved
          /\ calls[c].at = "waiting" => calls'[c].token = Len(issued) + 1 /\ calls'[c].at = "resent"
          /\ calls[c].at # "waiting" => calls'[c] = calls[c]
    BY <2>3, <2>4 DEF UnderWay
  <2>7. \A q \in Query : calls[q].at = "waiting" => calls'[q].tenant = tenant
    BY <2>3, <2>4
  <2>8. \A c \in Tab!Call : UnderWay(c) /\ calls[c].at # "waiting" =>
          calls[c].token \in 0..Len(issued) /\ (calls[c].token # 0 => issued'[calls[c].token] = issued[calls[c].token])
    BY <1>n, <2>2 DEF TabType
  <2>9. TabType'
    BY <1>t, <1>n, <2>0, <2>1, <2>2, <2>5, <2>6, <2>7, <2>8 DEF TabType, UnderWay
  <2>10. NothingOfNobody'
    BY <1>t, <1>n, <2>0, <2>1, <2>2, <2>5, <2>6, <2>7, <2>8 DEF NothingOfNobody, UnderWay
  <2>11. CredentialsAreOnes'
    BY <1>t, <1>n, <2>0, <2>1, <2>2, <2>5, <2>6, <2>7, <2>8 DEF CredentialsAreOnes, UnderWay
  <2>12. CookieIsIdle'
    BY <1>t, <1>n, <2>0, <2>1, <2>2, <2>5, <2>6, <2>7, <2>8 DEF CookieIsIdle, UnderWay
  <2>13. QueriesAreOnes'
    BY <1>t, <1>n, <2>0, <2>1, <2>2, <2>5, <2>6, <2>7, <2>8 DEF QueriesAreOnes, UnderWay
  <2>14. KeysAreTenants'
    BY <1>t, <1>n, <2>0, <2>1, <2>2, <2>5, <2>6, <2>7, <2>8 DEF KeysAreTenants, UnderWay
  <2>15. ResentIsLive'
    BY <1>t, <1>n, <2>0, <2>1, <2>2, <2>5, <2>6, <2>7, <2>8 DEF ResentIsLive, UnderWay
  <2>16. Tab!RefusedOnlyAtTheEnd
    BY <1>t, <1>n, <2>0, <2>1, <2>2, <2>5, <2>6, <2>7, <2>8 DEF Tab!RefusedOnlyAtTheEnd
  <2> QED  BY <2>9, <2>10, <2>11, <2>12, <2>13, <2>14, <2>15, <2>16 DEF TabInvariant
<1>2. ASSUME NEW end \in CallType, end.at \in {"idle", "refused"},
             calls' = [c \in Tab!Call |-> IF calls[c].at = "waiting" THEN end ELSE calls[c]],
             refreshInFlight' = None,
             UNCHANGED <<user, tenant, ready, cache, cookie, issued, expired, parted>>,
             accessToken' = 0 \/ (accessToken' = accessToken /\ end.at = "idle")
      PROVE  TabInvariant' /\ Tab!RefusedOnlyAtTheEnd
  <2>1. \A c \in Tab!Call : calls'[c] = IF calls[c].at = "waiting" THEN end ELSE calls[c]
    BY <1>2
  <2>2. \A c \in Tab!Call : UnderWay(c)' => UnderWay(c) /\ calls'[c] = calls[c]
    BY <1>2, <2>1 DEF UnderWay
  <2>3. calls' \in [Tab!Call -> CallType]
    BY <1>t, <1>2
  <2>4. TabType'
    BY <1>n, <1>2, <2>1, <2>2, <2>3 DEF TabType, UnderWay
  <2>5. NothingOfNobody'
    BY <1>n, <1>2, <2>1, <2>2, <2>3 DEF NothingOfNobody, UnderWay
  <2>6. CredentialsAreOnes'
    BY <1>n, <1>2, <2>1, <2>2, <2>3 DEF CredentialsAreOnes, UnderWay
  <2>7. CookieIsIdle'
    BY <1>n, <1>2, <2>1, <2>2, <2>3 DEF CookieIsIdle, UnderWay
  <2>8. QueriesAreOnes'
    BY <1>n, <1>2, <2>1, <2>2, <2>3 DEF QueriesAreOnes, UnderWay
  <2>9. KeysAreTenants'
    BY <1>n, <1>2, <2>1, <2>2, <2>3 DEF KeysAreTenants, UnderWay
  <2>10. ResentIsLive'
    BY <1>n, <1>2, <2>1, <2>2, <2>3 DEF ResentIsLive, UnderWay
  <2>11. Tab!RefusedOnlyAtTheEnd
    BY <1>n, <1>2, <2>1, <2>2, <2>3 DEF Tab!RefusedOnlyAtTheEnd
  <2> QED  BY <2>4, <2>5, <2>6, <2>7, <2>8, <2>9, <2>10, <2>11 DEF TabInvariant
<1>3. CASE Tab!RefreshRefused
  <2> DEFINE end == [Tab!Idle EXCEPT !.at = "refused"]
  <2>1. /\ calls' = [c \in Tab!Call |-> IF calls[c].at = "waiting" THEN end ELSE calls[c]]
        /\ refreshInFlight' = None /\ accessToken' = 0
        /\ UNCHANGED <<user, tenant, ready, cache, cookie, issued, expired, parted>>
    BY <1>3 DEF Tab!RefreshRefused, Tab!Resume, Tab!GivenUp
  <2>2. end \in CallType /\ end.at = "refused"
    BY DEF Tab!Idle, CallType
  <2> HIDE DEF end
  <2> QED  BY <1>2, <2>1, <2>2
<1>4. CASE Tab!RefreshLost
  <2>1. /\ calls' = [c \in Tab!Call |-> IF calls[c].at = "waiting" THEN Tab!Idle ELSE calls[c]]
        /\ refreshInFlight' = None
        /\ UNCHANGED <<user, tenant, ready, accessToken, cache, cookie, issued, expired, parted>>
    BY <1>4 DEF Tab!RefreshLost, Tab!Resume, Tab!Forgotten
  <2>2. Tab!Idle \in CallType /\ Tab!Idle.at = "idle"
    BY DEF Tab!Idle, CallType
  <2> QED  BY <1>2, <2>1, <2>2
<1> QED  BY <1>1, <1>3, <1>4

LEMMA TabStep ==
  ASSUME Tab!ConstantsAssumption, TabInvariant, [Tab!Next]_(Tab!tab)
  PROVE  TabInvariant' /\ (Tab!RefusedOnlyAtTheEnd \/ UNCHANGED Tab!tab)
<1>1. CASE Tab!Next
  BY <1>1, TabQuiet, TabSigns, TabCalls, TabRefreshes DEF Tab!Next
<1>2. CASE UNCHANGED Tab!tab
  BY <1>2 DEF Tab!tab, TabInvariant, TabType, NothingOfNobody, CredentialsAreOnes, CookieIsIdle, QueriesAreOnes,
              KeysAreTenants, ResentIsLive, UnderWay
<1> QED  BY <1>1, <1>2

(* For any number of queries, people, workspaces and tokens, and however sign-ins, *)
(* sign-outs, choices of a workspace, refreshes and other tabs fall among the      *)
(* calls: what the tab shows is the person's who is signed in, until the cookie    *)
(* is given away or a refresh is overtaken; it is of the workspace it is cached    *)
(* for unless it was repeated for another; and no call is given up as unauthorised *)
(* but by a step that ends the session.                                            *)
THEOREM SessionHolds ==
  ASSUME Tab!ConstantsAssumption
  PROVE  Tab!Spec => SessionIsTrue
<1>1. Tab!Init => TabInvariant
  BY TabInit
<1>2. TabInvariant /\ [Tab!Next]_(Tab!tab) => TabInvariant'
  BY TabStep
<1>3. TabInvariant /\ TabInvariant' /\ [Tab!Next]_(Tab!tab) =>
        [TheTabIsOneUsers' /\ CachedIsOfItsWorkspace' /\ RefusedOnlyAtTheEnd]_tab
  <2>1. TabInvariant' => TheTabIsOneUsers' /\ CachedIsOfItsWorkspace'
    BY DEF TabInvariant, CredentialsAreOnes, QueriesAreOnes, KeysAreTenants,
           TheTabIsOneUsers, CachedIsOfItsWorkspace
  <2>2. Tab!RefusedOnlyAtTheEnd => RefusedOnlyAtTheEnd
    BY DEF Tab!RefusedOnlyAtTheEnd, RefusedOnlyAtTheEnd, Tab!Call, Call
  <2>3. UNCHANGED Tab!tab => UNCHANGED tab
    BY DEF Tab!tab, tab
  <2> QED  BY <2>1, <2>2, <2>3, TabStep
<1> QED  BY <1>1, <1>2, <1>3, PTL DEF Tab!Spec, SessionIsTrue

-----------------------------------------------------------------------------
\* The files of the rules.
Commands == {"batch", "rule", "join", "compile", "release"}
CandidateRecord ==
  [revision : [record : Record, revision : Revision, keyed : BOOLEAN], key : RuleKey]
Join == [candidates : SUBSET CandidateRecord, mapping : Mappings]

\* What is installed or will be, unless the command stops half way.
Written == disk \cup {p.file : p \in pending}

CommandsType ==
  /\ command \in Commands \cup {None}
  /\ joins \in Seq(Join)
  /\ \A p \in pending : p.turn \in Nat
  /\ \A s \in compiled : s = [ir |-> s.ir, version |-> s.version]
  /\ command = None => pending = {}
  /\ command # None => ended = None

\* The rule re-attests, and a candidate gave it its key.
Founded(ir) ==
  /\ Attested(ir.citation) /\ ir.citation \in In("revisions")
  /\ \E c \in In("candidates") : c.key = ir.key /\ c.revision = ir.citation

\* What a file has of the joins, of the compilations and of what it quotes; only those of
\* a join, and sidecars, have names that do not follow from what they hold.
FileIsTrue(f) ==
  /\ f.dir = "candidates" => f.holds \in CandidateRecord
  /\ f.dir = "rules" => \E n \in DOMAIN joins : \E c \in joins[n].candidates :
       f = RuleFile(RuleIR(c, joins[n].mapping))
  /\ f.dir = "unmapped" => \E n \in DOMAIN joins :
       f = File("unmapped", "unmapped.json", {c \in joins[n].candidates : joins[n].mapping[c.key] = None})
  /\ f.dir = "compiled" =>
       \/ f.called = f.holds /\ f.called.part = "ids"
       \/ \E s \in compiled : f.called = [ir |-> s.ir, part |-> "sidecar"] /\ f.holds = s
  /\ f.dir \notin {"rules", "unmapped", "compiled"} => f.called = f.holds
  /\ f.dir = "rules" => Founded(f.holds)
  /\ f.dir = "directories" => f.holds \in Handmade \/ Founded(f.holds)
  /\ f.dir = "manifests" => \A s \in f.holds :
       s \in compiled /\ s.ir.citation # None /\ (s.ir \in Handmade \/ Founded(s.ir))

FilesAreTrue == \A f \in Written : FileIsTrue(f)

\* A manifest is installed after what it lists.
ManifestsAreLast ==
  /\ \A f \in disk : f.dir = "manifests" => ReleaseFiles(f.holds) \subseteq disk
  /\ \A p \in pending : p.file.dir = "manifests" =>
       \A g \in ReleaseFiles(p.file.holds) :
         g \in disk \/ \E q \in pending : q.file = g /\ q.turn < p.turn

\* The last join has an outcome for each of its candidates among what is written.
JoinIsUnderWay ==
  command = "join" \/ ended = "join" =>
    /\ joins # << >>
    /\ \A c \in joins[Len(joins)].candidates :
         IF joins[Len(joins)].mapping[c.key] = None
         THEN \E f \in Written : f.dir = "unmapped" /\ c \in f.holds
         ELSE RuleFile(RuleIR(c, joins[Len(joins)].mapping)) \in Written

FilesInvariant ==
  /\ CommandsType /\ FilesAreTrue /\ ManifestsAreLast
  /\ JoinIsUnderWay /\ ConflictsAreOfJoins

\* The instance names what this module names.
LEMMA RulesSame ==
  /\ \A dir : Rules!In(dir) = In(dir)
  /\ \A dir, bytes : Rules!Addressed(dir, bytes) = [dir |-> dir, called |-> bytes, holds |-> bytes]
  /\ \A dir, name, bytes : Rules!File(dir, name, bytes) = [dir |-> dir, called |-> name, holds |-> bytes]
  /\ \A r : Rules!Attested(r) = Attested(r)
  /\ \A c, mapping : Rules!RuleIR(c, mapping) = RuleIR(c, mapping)
  /\ \A ir : Rules!RuleFile(ir) = RuleFile(ir)
  /\ \A rules : Rules!ReleaseFiles(rules) = ReleaseFiles(rules)
<1>1. \A dir : Rules!In(dir) = In(dir)
  BY DEF Rules!In, In
<1>2. \A dir, bytes : Rules!Addressed(dir, bytes) = [dir |-> dir, called |-> bytes, holds |-> bytes]
  BY DEF Rules!Addressed, Rules!File
<1>3. \A dir, name, bytes : Rules!File(dir, name, bytes) = [dir |-> dir, called |-> name, holds |-> bytes]
  BY DEF Rules!File
<1>4. \A r : Rules!Attested(r) = Attested(r)
  BY DEF Rules!Attested, Attested
<1>5. \A c, mapping : Rules!RuleIR(c, mapping) = RuleIR(c, mapping)
  BY DEF Rules!RuleIR, RuleIR
<1>6. \A ir : Rules!RuleFile(ir) = RuleFile(ir)
  BY DEF Rules!RuleFile, RuleFile, Rules!File, File
<1>7. \A rules : Rules!ReleaseFiles(rules) = ReleaseFiles(rules)
  BY DEF Rules!ReleaseFiles, ReleaseFiles, Rules!Addressed, Addressed, Rules!File, File
<1> QED  BY <1>1, <1>2, <1>3, <1>4, <1>5, <1>6, <1>7

LEMMA AddressedAs ==
  ASSUME NEW dir, NEW bytes
  PROVE  /\ Rules!Addressed(dir, bytes).dir = dir
         /\ Rules!Addressed(dir, bytes).called = bytes
         /\ Rules!Addressed(dir, bytes).holds = bytes
BY DEF Rules!Addressed, Rules!File

\* What is true of a file stays so: files stay, and joins and compilations are only added.
LEMMA FilesStayTrue ==
  ASSUME joins \in Seq(Join), disk \subseteq disk', compiled \subseteq compiled',
         joins' = joins \/ \E j \in Join : joins' = Append(joins, j),
         NEW f, FileIsTrue(f)
  PROVE  FileIsTrue(f)'
<1>1. \A n \in DOMAIN joins : n \in DOMAIN joins' /\ joins'[n] = joins[n]
  OBVIOUS
<1>2. \A ir : Founded(ir) => Founded(ir)'
  BY DEF Founded, In, Attested
<1>3. f.dir = "rules" => \E n \in DOMAIN joins' : \E c \in joins'[n].candidates :
        f = RuleFile(RuleIR(c, joins'[n].mapping))
  BY <1>1 DEF FileIsTrue
<1>4. f.dir = "unmapped" => \E n \in DOMAIN joins' :
        f = File("unmapped", "unmapped.json", {c \in joins'[n].candidates : joins'[n].mapping[c.key] = None})
  <2> SUFFICES ASSUME f.dir = "unmapped"
               PROVE  \E n \in DOMAIN joins' :
                        f = File("unmapped", "unmapped.json",
                                 {c \in joins'[n].candidates : joins'[n].mapping[c.key] = None})
    OBVIOUS
  <2>1. PICK n \in DOMAIN joins :
          f = File("unmapped", "unmapped.json", {c \in joins[n].candidates : joins[n].mapping[c.key] = None})
    BY DEF FileIsTrue
  <2>2. n \in DOMAIN joins' /\ joins'[n] = joins[n]
    BY <1>1
  <2> QED  BY <2>1, <2>2
<1> QED  BY <1>2, <1>3, <1>4 DEF FileIsTrue

\* A command that starts with what may be written.
LEMMA CommandStarts ==
  ASSUME FilesInvariant, NEW name \in Commands, NEW new, Rules!Start(name, new), UNCHANGED disk,
         compiled \subseteq compiled', \A s \in compiled' : s = [ir |-> s.ir, version |-> s.version],
         joins' = joins \/ \E j \in Join : joins' = Append(joins, j),
         \A p \in new : p.turn \in Nat /\ FileIsTrue(p.file)',
         \A p \in new : p.file.dir = "manifests" =>
           \A g \in ReleaseFiles(p.file.holds) : \E q \in new : q.file = g /\ q.turn < p.turn,
         None \notin Commands, None # "refused",
         name = "join" => JoinIsUnderWay'
  PROVE  FilesInvariant'
<1>1. command = None /\ pending = {} /\ command' = name /\ pending' = new /\ ended' = None
  BY DEF Rules!Start, FilesInvariant, CommandsType
<1>2. joins \in Seq(Join) /\ joins' \in Seq(Join)
  BY DEF FilesInvariant, CommandsType
<1>3. CommandsType'
  BY <1>1, <1>2 DEF CommandsType, FilesInvariant
<1>4. \A f \in Written : FileIsTrue(f)'
  BY <1>2, FilesStayTrue DEF FilesInvariant, FilesAreTrue
<1>5. FilesAreTrue'
  BY <1>1, <1>4 DEF FilesAreTrue, Written
<1>6. ManifestsAreLast'
  BY <1>1 DEF ManifestsAreLast, FilesInvariant
<1>7. JoinIsUnderWay' /\ ConflictsAreOfJoins'
  <2>1. None # "join"
    BY DEF Commands
  <2> QED  BY <1>1, <2>1 DEF JoinIsUnderWay, ConflictsAreOfJoins
<1> QED  BY <1>3, <1>5, <1>6, <1>7 DEF FilesInvariant

LEMMA TurnsOf ==
  /\ \A k, new : \A p \in Rules!Turn(k, new) : p.turn = k /\ p.file \in new
  /\ \A k, new : \A f \in new : \E p \in Rules!Turn(k, new) : p.turn = k /\ p.file = f
<1>1. \A k, new : \A p \in Rules!Turn(k, new) : p.turn = k /\ p.file \in new
  BY DEF Rules!Turn
<1>2. ASSUME NEW k, NEW new, NEW f \in new
      PROVE  \E p \in Rules!Turn(k, new) : p.turn = k /\ p.file = f
  <2>1. [turn |-> k, file |-> f] \in Rules!Turn(k, new)
    BY <1>2 DEF Rules!Turn
  <2> QED  BY <2>1
<1> QED  BY <1>1, <1>2

\* A file that quotes nothing.
LEMMA PlainIsTrue ==
  ASSUME NEW f, f.called = f.holds,
         \/ f.dir \in {"extractions", "revisions", "batches", "released"}
         \/ f.dir = "candidates" /\ f.holds \in CandidateRecord
  PROVE  FileIsTrue(f)'
BY DEF FileIsTrue

LEMMA FilesInit ==
  ASSUME Rules!ConstantsAssumption, Rules!Init
  PROVE  FilesInvariant
<1>1. /\ disk = {} /\ pending = {} /\ command = None /\ ended = None /\ joins = << >> /\ compiled = {}
      /\ None # "join" /\ None # "refused"
  BY DEF Rules!Init, Rules!ConstantsAssumption
<1>2. joins \in Seq(Join)
  BY <1>1
<1> QED  BY <1>1, <1>2 DEF FilesInvariant, CommandsType, FilesAreTrue, Written, ManifestsAreLast,
              JoinIsUnderWay, ConflictsAreOfJoins, Commands

\* What the two commands write that make candidates.
LEMMA CandidatesAreWritten ==
  ASSUME Rules!ConstantsAssumption, FilesInvariant,
         Rules!ProvisionalBatch \/ Rules!ProvisionalRule
  PROVE  FilesInvariant'
<1>0. None \notin Commands /\ None # "join" /\ None # "refused"
  BY DEF Rules!ConstantsAssumption, Commands
<1>1. CASE Rules!ProvisionalBatch
  <2>1. PICK says \in Extractions, revision \in Revision :
          LET Rev(r) == Rules!RevisionOf(r, revision, TRUE)
              mentioned == {r \in Record : says[r] # "unprocessed"}
              ruled == {r \in Record : says[r] \in RuleKey}
          IN  /\ Rules!Start("batch",
                   Rules!Turn(1, {Rules!ExtractionFile(says)}
                                   \cup {Rules!Addressed("revisions", Rev(r)) : r \in mentioned})
                     \cup Rules!Turn(2, {Rules!Addressed("candidates", [revision |-> Rev(r), key |-> says[r]])
                                           : r \in ruled})
                     \cup Rules!Turn(3, {Rules!Addressed("batches", [says |-> says, number |-> revision])}))
              /\ UNCHANGED <<disk, joins, compiled, rows>>
    BY <1>1 DEF Rules!ProvisionalBatch
  <2> DEFINE Rev(r) == Rules!RevisionOf(r, revision, TRUE)
             one == {Rules!ExtractionFile(says)}
                      \cup {Rules!Addressed("revisions", Rev(r)) : r \in {q \in Record : says[q] # "unprocessed"}}
             two == {Rules!Addressed("candidates", [revision |-> Rev(r), key |-> says[r]])
                       : r \in {q \in Record : says[q] \in RuleKey}}
             three == {Rules!Addressed("batches", [says |-> says, number |-> revision])}
             new == Rules!Turn(1, one) \cup Rules!Turn(2, two) \cup Rules!Turn(3, three)
  <2>2. /\ Rules!Start("batch", new) /\ UNCHANGED <<disk, joins, compiled, rows>>
        /\ \A s \in compiled' : s = [ir |-> s.ir, version |-> s.version]
    BY <2>1 DEF FilesInvariant, CommandsType
  <2>3. \A f \in one : f.called = f.holds /\ f.dir \in {"extractions", "revisions"}
    <3>1. \A x : /\ Rules!Addressed("revisions", x).called = Rules!Addressed("revisions", x).holds
                 /\ Rules!Addressed("revisions", x).dir = "revisions"
      BY AddressedAs
    <3>2. /\ Rules!ExtractionFile(says).called = Rules!ExtractionFile(says).holds
          /\ Rules!ExtractionFile(says).dir = "extractions"
      BY AddressedAs DEF Rules!ExtractionFile
    <3> QED  BY <3>1, <3>2
  <2>4. \A f \in two : f.called = f.holds /\ f.dir = "candidates" /\ f.holds \in CandidateRecord
    <3>1. \A r \in Record : says[r] \in RuleKey =>
            [revision |-> Rev(r), key |-> says[r]] \in CandidateRecord
      BY DEF Rules!RevisionOf, CandidateRecord
    <3>2. \A x : /\ Rules!Addressed("candidates", x).called = Rules!Addressed("candidates", x).holds
                 /\ Rules!Addressed("candidates", x).dir = "candidates"
                 /\ Rules!Addressed("candidates", x).holds = x
      BY AddressedAs
    <3> SUFFICES ASSUME NEW r \in Record, says[r] \in RuleKey,
                        NEW f, f = Rules!Addressed("candidates", [revision |-> Rev(r), key |-> says[r]])
                 PROVE  f.called = f.holds /\ f.dir = "candidates" /\ f.holds \in CandidateRecord
      OBVIOUS
    <3>3. f.holds = [revision |-> Rev(r), key |-> says[r]]
      BY <3>2
    <3> HIDE DEF Rev
    <3> QED  BY <3>1, <3>2, <3>3
  <2>5. \A f \in three : f.called = f.holds /\ f.dir = "batches"
    BY AddressedAs
  <2> HIDE DEF one, two, three
  <2>6. \A p \in new : p.turn \in Nat /\ p.file \in one \cup two \cup three
    BY TurnsOf
  <2>7. \A p \in new : p.turn \in Nat /\ FileIsTrue(p.file)' /\ p.file.dir # "manifests"
    BY <2>3, <2>4, <2>5, <2>6, PlainIsTrue
  <2> HIDE DEF new
  <2> QED  BY <1>0, <2>2, <2>7, CommandStarts DEF Commands
<1>2. CASE Rules!ProvisionalRule
  <2>1. PICK r \in Record, key \in RuleKey, revision \in Revision :
          LET rev == Rules!RevisionOf(r, revision, FALSE)
          IN  /\ Rules!Start("rule", Rules!Turn(1, {Rules!Addressed("revisions", rev)})
                   \cup Rules!Turn(2, {Rules!Addressed("candidates", [revision |-> rev, key |-> key])}))
              /\ UNCHANGED <<disk, joins, compiled, rows>>
    BY <1>2 DEF Rules!ProvisionalRule
  <2> DEFINE rev == Rules!RevisionOf(r, revision, FALSE)
             one == {Rules!Addressed("revisions", rev)}
             two == {Rules!Addressed("candidates", [revision |-> rev, key |-> key])}
             new == Rules!Turn(1, one) \cup Rules!Turn(2, two)
  <2>2. /\ Rules!Start("rule", new) /\ UNCHANGED <<disk, joins, compiled, rows>>
        /\ \A s \in compiled' : s = [ir |-> s.ir, version |-> s.version]
    BY <2>1 DEF FilesInvariant, CommandsType
  <2>3. \A f \in one : f.called = f.holds /\ f.dir = "revisions"
    <3>1. \A x : /\ Rules!Addressed("revisions", x).called = Rules!Addressed("revisions", x).holds
                 /\ Rules!Addressed("revisions", x).dir = "revisions"
      BY AddressedAs
    <3> QED  BY <3>1
  <2>4. \A f \in two : f.called = f.holds /\ f.dir = "candidates" /\ f.holds \in CandidateRecord
    <3>1. [revision |-> rev, key |-> key] \in CandidateRecord
      BY DEF Rules!RevisionOf, CandidateRecord
    <3> QED  BY <3>1, AddressedAs
  <2> HIDE DEF one, two
  <2>5. \A p \in new : p.turn \in Nat /\ p.file \in one \cup two
    BY TurnsOf
  <2>6. \A p \in new : p.turn \in Nat /\ FileIsTrue(p.file)' /\ p.file.dir # "manifests"
    BY <2>3, <2>4, <2>5, PlainIsTrue
  <2> HIDE DEF new
  <2> QED  BY <1>0, <2>2, <2>6, CommandStarts DEF Commands
<1> QED  BY <1>1, <1>2

\* A command that is refused before it writes, and the projection, which writes no file.
LEMMA NothingIsWritten ==
  ASSUME FilesInvariant, UNCHANGED <<disk, halfLinked, pending, command, joins, compiled>>, command = None,
         None # "join", ended' \notin {"join", "refused"} \/ ended' = ended
  PROVE  FilesInvariant'
<1>1. CommandsType'
  BY DEF FilesInvariant, CommandsType
<1>2. joins \in Seq(Join) /\ \A f \in Written : f \in Written' /\ FileIsTrue(f)
  BY DEF FilesInvariant, CommandsType, FilesAreTrue, Written
<1>3. FilesAreTrue'
  <2>1. \A f \in Written : FileIsTrue(f)'
    BY <1>2, FilesStayTrue
  <2> QED  BY <2>1 DEF FilesAreTrue, Written
<1>4. ManifestsAreLast'
  BY DEF FilesInvariant, ManifestsAreLast
<1>5. JoinIsUnderWay' /\ ConflictsAreOfJoins'
  BY DEF FilesInvariant, JoinIsUnderWay, ConflictsAreOfJoins, Written
<1> QED  BY <1>1, <1>3, <1>4, <1>5 DEF FilesInvariant

\* The join of the candidates that are there.
LEMMA CandidatesAreJoined ==
  ASSUME Rules!ConstantsAssumption, FilesInvariant, Rules!CandidateToRuleIR
  PROVE  FilesInvariant'
<1>0. None \notin Commands /\ None # "join" /\ None # "refused"
  BY DEF Rules!ConstantsAssumption, Commands
<1>1. PICK mapping \in Mappings :
        LET shown == In("candidates")
            mapped == shown \ Rules!Unmapped(shown, mapping)
        IN  IF \A c \in shown : Rules!Joinable(c)
            THEN /\ Rules!Start("join",
                      Rules!Turn(1, {RuleFile(RuleIR(c, mapping)) : c \in mapped})
                        \cup Rules!Turn(2, {Rules!File("unmapped", "unmapped.json",
                                                       Rules!Unmapped(shown, mapping))}))
                 /\ joins' = Append(joins, [candidates |-> shown, mapping |-> mapping])
                 /\ UNCHANGED <<disk, compiled>>
            ELSE Rules!Refuses("rejected") /\ UNCHANGED <<disk, halfLinked, pending, command, joins, compiled>>
  BY RulesSame DEF Rules!CandidateToRuleIR
<1> DEFINE shown == In("candidates")
           unmapped == {c \in shown : mapping[c.key] = None}
           mapped == shown \ unmapped
           j == [candidates |-> shown, mapping |-> mapping]
           one == {RuleFile(RuleIR(c, mapping)) : c \in mapped}
           two == {File("unmapped", "unmapped.json", unmapped)}
           new == Rules!Turn(1, one) \cup Rules!Turn(2, two)
<1>2. CASE \A c \in shown : Rules!Joinable(c)
  <2>1. Rules!Start("join", new) /\ joins' = Append(joins, j) /\ UNCHANGED <<disk, compiled>>
    <3>1. unmapped = Rules!Unmapped(shown, mapping)
      BY DEF Rules!Unmapped
    <3>2. Rules!File("unmapped", "unmapped.json", unmapped) = File("unmapped", "unmapped.json", unmapped)
      BY RulesSame DEF File
    <3> HIDE DEF unmapped
    <3> QED  BY <1>1, <1>2, <3>1, <3>2
  <2>2. shown \subseteq CandidateRecord
    <3>1. \A f \in disk : f.dir = "candidates" => f.holds \in CandidateRecord
      BY DEF FilesInvariant, FilesAreTrue, Written, FileIsTrue
    <3> QED  BY <3>1 DEF In
  <2>3. \A c \in shown : Attested(c.revision) /\ c.revision \in In("revisions")
    BY <1>2, RulesSame DEF Rules!Joinable
  <2>4. j \in Join
    BY <2>2 DEF Join
  <2>5. joins \in Seq(Join)
    BY DEF FilesInvariant, CommandsType
  <2>6. Len(joins') \in DOMAIN joins' /\ joins'[Len(joins')] = j /\ joins' # << >>
    BY <2>1, <2>4, <2>5
  <2>7. \A c \in shown : Founded(RuleIR(c, mapping))'
    <3>1. \A c \in shown : Founded(RuleIR(c, mapping))
      BY <2>3 DEF Founded, RuleIR
    <3>2. In("candidates")' = In("candidates") /\ In("revisions")' = In("revisions")
      BY <2>1 DEF In
    <3> QED  BY <3>1, <3>2 DEF Founded, Attested
  <2>8. \A f \in one : /\ f.dir = "rules" /\ FileIsTrue(f)'
    <3> SUFFICES ASSUME NEW c \in mapped
                 PROVE  /\ RuleFile(RuleIR(c, mapping)).dir = "rules"
                        /\ FileIsTrue(RuleFile(RuleIR(c, mapping)))'
      OBVIOUS
    <3>1. PICK f : f = RuleFile(RuleIR(c, mapping))
      OBVIOUS
    <3>2. f.dir = "rules" /\ f.holds = RuleIR(c, mapping)
      BY <3>1 DEF RuleFile, File
    <3>3. c \in joins'[Len(joins')].candidates /\ joins'[Len(joins')].mapping = mapping
      BY <2>6
    <3>4. FileIsTrue(f)'
      BY <2>6, <2>7, <3>1, <3>2, <3>3 DEF FileIsTrue
    <3> QED  BY <3>1, <3>2, <3>4
  <2>9. \A f \in two : f.dir = "unmapped" /\ FileIsTrue(f)'
    <3>1. PICK f : f = File("unmapped", "unmapped.json", unmapped)
      OBVIOUS
    <3>2. f.dir = "unmapped"
      BY <3>1 DEF File
    <3>3. unmapped = {c \in joins'[Len(joins')].candidates : joins'[Len(joins')].mapping[c.key] = None}
      BY <2>6
    <3>4. FileIsTrue(f)'
      <4> HIDE DEF unmapped
      <4> QED  BY <2>6, <3>1, <3>2, <3>3 DEF FileIsTrue
    <3> QED  BY <3>1, <3>2, <3>4
  <2>10. JoinIsUnderWay'
    <3>1. Written' = disk \cup {p.file : p \in new}
      BY <2>1 DEF Written, Rules!Start
    <3>2. one \subseteq Written' /\ two \subseteq Written'
      <4> HIDE DEF one, two
      <4> QED  BY <3>1, TurnsOf
    <3>3. \A c \in shown :
            IF mapping[c.key] = None
            THEN \E f \in Written' : f.dir = "unmapped" /\ c \in f.holds
            ELSE RuleFile(RuleIR(c, mapping)) \in Written'
      <4>1. File("unmapped", "unmapped.json", unmapped).dir = "unmapped"
            /\ File("unmapped", "unmapped.json", unmapped).holds = unmapped
        BY DEF File
      <4>2. \A c \in shown : mapping[c.key] = None => c \in unmapped
        OBVIOUS
      <4>3. \A c \in shown : mapping[c.key] # None => c \in mapped
        OBVIOUS
      <4> HIDE DEF unmapped
      <4> QED  BY <3>2, <4>1, <4>2, <4>3
    <3> HIDE DEF shown
    <3> QED  BY <2>6, <3>3 DEF JoinIsUnderWay
  <2> HIDE DEF one, two, j, shown
  <2>12. \A s \in compiled' : s = [ir |-> s.ir, version |-> s.version]
    BY <2>1 DEF FilesInvariant, CommandsType
  <2>11. \A p \in new : p.turn \in Nat /\ FileIsTrue(p.file)' /\ p.file.dir # "manifests"
    BY <2>8, <2>9, TurnsOf
  <2> HIDE DEF new
  <2> QED  BY <1>0, <2>1, <2>4, <2>10, <2>11, <2>12, CommandStarts DEF Commands
<1>3. CASE ~(\A c \in shown : Rules!Joinable(c))
  <2>1. command = None /\ ended' = "rejected"
        /\ UNCHANGED <<disk, halfLinked, pending, command, joins, compiled>>
    BY <1>1, <1>3 DEF Rules!Refuses
  <2> QED  BY <1>0, <2>1, NothingIsWritten
<1> QED  BY <1>2, <1>3

\* What compiles a rule and what releases the compiled ones.
LEMMA RulesAreReleased ==
  ASSUME Rules!ConstantsAssumption, FilesInvariant, Rules!CompileNativeRule \/ Rules!RuleRelease
  PROVE  FilesInvariant'
<1>0. None \notin Commands /\ None # "join" /\ None # "refused"
  BY DEF Rules!ConstantsAssumption, Commands
<1>1. \A f \in disk : FileIsTrue(f)
  BY DEF FilesInvariant, FilesAreTrue, Written
<1>2. CASE Rules!CompileNativeRule
  <2>1. PICK ir \in In("rules") \cup Handmade, version \in Version :
          /\ Rules!Start("compile", Rules!Turn(1, {Rules!Addressed("directories", ir)})
               \cup Rules!Turn(2, {Rules!IdsFile(ir)}) \cup Rules!Turn(3, {Rules!Sidecar(ir, version)}))
          /\ compiled' = compiled \cup {[ir |-> ir, version |-> version]}
          /\ UNCHANGED <<disk, joins>>
    BY <1>2, RulesSame DEF Rules!CompileNativeRule
  <2> DEFINE one == {Rules!Addressed("directories", ir)}
             two == {Rules!IdsFile(ir)}
             three == {Rules!Sidecar(ir, version)}
             new == Rules!Turn(1, one) \cup Rules!Turn(2, two) \cup Rules!Turn(3, three)
  <2>2. /\ Rules!Start("compile", new) /\ UNCHANGED <<disk, joins>> /\ compiled \subseteq compiled'
        /\ \A s \in compiled' : s = [ir |-> s.ir, version |-> s.version]
    BY <2>1 DEF FilesInvariant, CommandsType
  <2>3. ir \in Handmade \/ Founded(ir)
    BY <1>1 DEF In, FileIsTrue
  <2>4. ir \in Handmade \/ Founded(ir)'
    BY <2>2, <2>3 DEF Founded, In, Attested
  <2>5. \A f \in one : f.dir = "directories" /\ FileIsTrue(f)'
    <3>1. PICK f : f = [dir |-> "directories", called |-> ir, holds |-> ir]
      OBVIOUS
    <3>2. f.dir = "directories" /\ f.called = f.holds /\ f.holds = ir
      BY <3>1
    <3>3. FileIsTrue(f)'
      BY <2>4, <3>2 DEF FileIsTrue
    <3> QED  BY <3>1, <3>2, <3>3, RulesSame
  <2>6. \A f \in two : f.dir = "compiled" /\ FileIsTrue(f)'
    <3>1. PICK f : f = Rules!IdsFile(ir)
      OBVIOUS
    <3>2. f.dir = "compiled" /\ f.called = f.holds /\ f.called = [ir |-> ir, part |-> "ids"]
      BY <3>1, RulesSame DEF Rules!IdsFile
    <3>3. FileIsTrue(f)'
      BY <3>2 DEF FileIsTrue
    <3> QED  BY <3>1, <3>2, <3>3
  <2>9. \A f \in three : f.dir = "compiled" /\ FileIsTrue(f)'
    <3>1. PICK f : f = Rules!Sidecar(ir, version)
      OBVIOUS
    <3>2. /\ f.dir = "compiled" /\ f.called = [ir |-> ir, part |-> "sidecar"]
          /\ f.holds = [ir |-> ir, version |-> version]
      BY <3>1, RulesSame DEF Rules!Sidecar
    <3>3. \E s \in compiled' : f.called = [ir |-> s.ir, part |-> "sidecar"] /\ f.holds = s
      BY <2>1, <3>2
    <3>4. FileIsTrue(f)'
      BY <3>2, <3>3 DEF FileIsTrue
    <3> QED  BY <3>1, <3>2, <3>4
  <2> HIDE DEF one, two, three
  <2>7. \A p \in new : p.turn \in Nat /\ p.file \in one \cup two \cup three
    BY TurnsOf
  <2>8. \A p \in new : p.turn \in Nat /\ FileIsTrue(p.file)' /\ p.file.dir # "manifests"
    BY <2>5, <2>6, <2>7, <2>9
  <2> HIDE DEF new
  <2> QED  BY <1>0, <2>2, <2>8, CommandStarts DEF Commands
<1>3. CASE Rules!RuleRelease
  <2> DEFINE rules == UNION {{[ir |-> ir, version |-> v] : v \in Rules!Sidecars(ir)} : ir \in In("directories")}
             one == ReleaseFiles(rules)
             two == {Rules!Manifest(rules)}
             new == Rules!Turn(1, one) \cup Rules!Turn(2, two)
  <2>1. \/ /\ Rules!Start("release", new) /\ UNCHANGED <<disk, joins, compiled>>
           /\ \A ir \in In("directories") : Rules!Releasable(ir)
        \/ /\ Rules!Refuses("incomplete")
           /\ UNCHANGED <<disk, halfLinked, pending, command, joins, compiled>>
    BY <1>3, RulesSame DEF Rules!RuleRelease, Rules!Directories
  <2>2. CASE /\ Rules!Start("release", new) /\ UNCHANGED <<disk, joins, compiled>>
             /\ \A ir \in In("directories") : Rules!Releasable(ir)
    <3>1. \A s \in rules : s \in compiled /\ s.ir.citation # None /\ (s.ir \in Handmade \/ Founded(s.ir))
      <4> SUFFICES ASSUME NEW ir \in In("directories"), NEW v \in Rules!Sidecars(ir)
                   PROVE  /\ [ir |-> ir, version |-> v] \in compiled /\ ir.citation # None
                          /\ ir \in Handmade \/ Founded(ir)
        OBVIOUS
      <4>1. ir.citation # None /\ (ir \in Handmade \/ Founded(ir))
        BY <1>1, <2>2 DEF In, FileIsTrue, Rules!Releasable
      <4>2. PICK f \in disk : f = Rules!Sidecar(ir, v)
        BY DEF Rules!Sidecars
      <4>3. /\ f.dir = "compiled" /\ f.called = [ir |-> ir, part |-> "sidecar"]
            /\ f.holds = [ir |-> ir, version |-> v]
        BY <4>2, RulesSame DEF Rules!Sidecar
      <4>4. f.called.part # "ids"
        BY <4>3
      <4>5. f.holds \in compiled
        BY <1>1, <4>3, <4>4 DEF FileIsTrue
      <4> QED  BY <4>1, <4>3, <4>5
    <3>2. \A s \in rules : s \in compiled' /\ s.ir.citation # None /\ (s.ir \in Handmade \/ Founded(s.ir)')
      <4> HIDE DEF rules
      <4> QED  BY <2>2, <3>1 DEF Founded, In, Attested
    <3> HIDE DEF rules
    <3>7. \A s \in compiled' : s = [ir |-> s.ir, version |-> s.version]
      BY <2>2 DEF FilesInvariant, CommandsType
    <3>3. \A f \in one : f.called = f.holds /\ f.dir = "released"
      BY DEF ReleaseFiles, Addressed, File
    <3>4. \A f \in two : f.dir = "manifests" /\ f.holds = rules /\ FileIsTrue(f)'
      <4>1. PICK f : f = [dir |-> "manifests", called |-> rules, holds |-> rules]
        OBVIOUS
      <4>2. f.dir = "manifests" /\ f.called = f.holds /\ f.holds = rules
        BY <4>1
      <4>3. \A s \in f.holds : s \in compiled' /\ s.ir.citation # None /\ (s.ir \in Handmade \/ Founded(s.ir)')
        BY <3>2, <4>2
      <4>4. FileIsTrue(f)'
        BY <4>2, <4>3 DEF FileIsTrue
      <4> QED  BY <4>1, <4>2, <4>4, RulesSame DEF Rules!Manifest
    <3> HIDE DEF one, two
    <3>5. \A p \in new : p.turn \in Nat /\ FileIsTrue(p.file)'
      <4>1. \A p \in new : p.turn \in Nat /\ p.file \in one \cup two
        BY TurnsOf
      <4> QED  BY <3>3, <3>4, <4>1, PlainIsTrue
    <3>6. ASSUME NEW p \in new, p.file.dir = "manifests", NEW g \in ReleaseFiles(p.file.holds)
          PROVE  \E q \in new : q.file = g /\ q.turn < p.turn
      <4>1. p \in Rules!Turn(2, two) /\ p.turn = 2
        BY <3>3, <3>6, TurnsOf
      <4>2. p.file \in two
        BY <4>1, TurnsOf
      <4>3. g \in one
        BY <3>4, <4>2 DEF one
      <4>4. PICK q \in Rules!Turn(1, one) : q.turn = 1 /\ q.file = g
        BY <4>3, TurnsOf
      <4> QED  BY <4>1, <4>4
    <3> HIDE DEF new
    <3> QED  BY <1>0, <2>2, <3>5, <3>6, <3>7, CommandStarts DEF Commands
  <2>3. CASE /\ Rules!Refuses("incomplete")
             /\ UNCHANGED <<disk, halfLinked, pending, command, joins, compiled>>
    BY <1>0, <2>3, NothingIsWritten DEF Rules!Refuses
  <2> QED  BY <2>1, <2>2, <2>3
<1> QED  BY <1>2, <1>3

\* A file is installed, or met with other content.
LEMMA FileIsInstalled ==
  ASSUME Rules!ConstantsAssumption, FilesInvariant, Rules!Install
  PROVE  FilesInvariant'
<1>0. None \notin Commands /\ None # "join" /\ None # "refused"
  BY DEF Rules!ConstantsAssumption, Commands
<1>1. PICK p \in pending :
        /\ \A q \in pending : p.turn <= q.turn
        /\ IF Rules!Conflicts(p.file)
           THEN pending' = {} /\ command' = None /\ ended' = "refused" /\ UNCHANGED disk
           ELSE /\ disk' = disk \cup {p.file}
                /\ pending' = pending \ {p}
                /\ UNCHANGED <<command, ended>>
        /\ UNCHANGED <<halfLinked, joins, compiled>>
  BY DEF Rules!Install, Rules!IsNext
<1>2. joins \in Seq(Join) /\ \A f \in Written : FileIsTrue(f)
  BY DEF FilesInvariant, CommandsType, FilesAreTrue
<1>3. disk \subseteq disk'
  BY <1>1
<1>4. \A f \in Written : FileIsTrue(f)'
  BY <1>1, <1>2, <1>3, FilesStayTrue
<1>5. CommandsType'
  BY <1>1 DEF FilesInvariant, CommandsType
<1>6. CASE ~Rules!Conflicts(p.file)
  <2>1. Written' = Written
    BY <1>1, <1>6 DEF Written
  <2>2. FilesAreTrue'
    BY <1>4, <2>1 DEF FilesAreTrue
  <2>3. ManifestsAreLast'
    <3>1. ASSUME NEW f \in disk', f.dir = "manifests" PROVE ReleaseFiles(f.holds) \subseteq disk'
      <4>1. CASE f \in disk
        BY <1>3, <3>1, <4>1 DEF FilesInvariant, ManifestsAreLast
      <4>2. CASE f \notin disk
        <5>1. f = p.file
          BY <1>1, <1>6, <4>2
        <5>2. \A q \in pending : p.turn \in Nat /\ q.turn \in Nat /\ ~(q.turn < p.turn)
          BY <1>1 DEF FilesInvariant, CommandsType
        <5>3. \A g \in ReleaseFiles(p.file.holds) : g \in disk
          BY <3>1, <5>1, <5>2 DEF FilesInvariant, ManifestsAreLast
        <5> QED  BY <1>3, <5>1, <5>3
      <4> QED  BY <4>1, <4>2
    <3>2. ASSUME NEW r \in pending', r.file.dir = "manifests", NEW g \in ReleaseFiles(r.file.holds)
          PROVE  g \in disk' \/ \E q \in pending' : q.file = g /\ q.turn < r.turn
      <4>1. r \in pending /\ pending' = pending \ {p} /\ disk' = disk \cup {p.file}
        BY <1>1, <1>6
      <4>2. g \in disk \/ \E q \in pending : q.file = g /\ q.turn < r.turn
        BY <3>2, <4>1 DEF FilesInvariant, ManifestsAreLast
      <4> QED  BY <4>1, <4>2
    <3> QED  BY <3>1, <3>2 DEF ManifestsAreLast
  <2>4. JoinIsUnderWay' /\ ConflictsAreOfJoins'
    BY <1>1, <1>6, <2>1 DEF FilesInvariant, JoinIsUnderWay, ConflictsAreOfJoins
  <2> QED  BY <1>5, <2>2, <2>3, <2>4 DEF FilesInvariant
<1>7. CASE Rules!Conflicts(p.file)
  <2>1. pending' = {} /\ command' = None /\ ended' = "refused" /\ UNCHANGED <<disk, halfLinked, joins, compiled>>
    BY <1>1, <1>7
  <2>2. FilesAreTrue'
    BY <1>4, <2>1 DEF FilesAreTrue, Written
  <2>3. ManifestsAreLast'
    BY <2>1 DEF ManifestsAreLast, FilesInvariant
  <2>4. JoinIsUnderWay'
    BY <1>0, <2>1 DEF JoinIsUnderWay
  <2>8. \/ \E m, n \in DOMAIN joins : joins[m] # joins[n]
        \/ \E n \in DOMAIN joins : \E c, d \in joins[n].candidates : c # d /\ c.key = d.key
        \/ \E s, t \in compiled : s.ir = t.ir /\ s.version # t.version
        \/ halfLinked # {}
    <3> SUFFICES ASSUME p.file \notin halfLinked
                 PROVE  \/ \E m, n \in DOMAIN joins : joins[m] # joins[n]
                        \/ \E n \in DOMAIN joins : \E c, d \in joins[n].candidates : c # d /\ c.key = d.key
                        \/ \E s, t \in compiled : s.ir = t.ir /\ s.version # t.version
      OBVIOUS
    <3>5. PICK g \in disk : g.dir = p.file.dir /\ g.called = p.file.called /\ g.holds # p.file.holds
      BY <1>7 DEF Rules!Conflicts
    <3> DEFINE f == p.file
    <3>6. FileIsTrue(g) /\ FileIsTrue(f)
      BY <1>2 DEF Written
    <3>7. g.dir = f.dir /\ g.called = f.called /\ g.holds # f.holds
      BY <3>5
    <3> HIDE DEF f
    <3>1. f.dir \in {"rules", "unmapped", "compiled"}
      BY <3>6, <3>7 DEF FileIsTrue
    <3>2. CASE f.dir = "rules"
      <4>1. PICK n \in DOMAIN joins : \E c \in joins[n].candidates : f = RuleFile(RuleIR(c, joins[n].mapping))
        BY <3>6, <3>2 DEF FileIsTrue
      <4>2. PICK c \in joins[n].candidates : f = RuleFile(RuleIR(c, joins[n].mapping))
        BY <4>1
      <4>3. PICK m \in DOMAIN joins : \E d \in joins[m].candidates : g = RuleFile(RuleIR(d, joins[m].mapping))
        BY <3>6, <3>7, <3>2 DEF FileIsTrue
      <4>4. PICK d \in joins[m].candidates : g = RuleFile(RuleIR(d, joins[m].mapping))
        BY <4>3
      <4>5. f.called = c.key /\ f.holds = RuleIR(c, joins[n].mapping)
        BY <4>2 DEF RuleFile, File, RuleIR
      <4>6. g.called = d.key /\ g.holds = RuleIR(d, joins[m].mapping)
        BY <4>4 DEF RuleFile, File, RuleIR
      <4>7. CASE joins[m] = joins[n]
        <5>1. c # d /\ c.key = d.key
          BY <3>7, <4>5, <4>6, <4>7
        <5> QED  BY <4>7, <5>1
      <4> QED  BY <4>7
    <3>3. CASE f.dir = "unmapped"
      <4>1. PICK n \in DOMAIN joins :
              f = File("unmapped", "unmapped.json", {c \in joins[n].candidates : joins[n].mapping[c.key] = None})
        BY <3>6, <3>3 DEF FileIsTrue
      <4>2. PICK m \in DOMAIN joins :
              g = File("unmapped", "unmapped.json", {c \in joins[m].candidates : joins[m].mapping[c.key] = None})
        BY <3>6, <3>7, <3>3 DEF FileIsTrue
      <4>3. joins[m] # joins[n]
        BY <3>7, <4>1, <4>2
      <4> QED  BY <4>3
    <3>4. CASE f.dir = "compiled"
      <4>1. f.called.part # "ids" /\ g.called.part # "ids"
        <5>1. CASE f.called.part = "ids"
          <6>1. \A s : [ir |-> s, part |-> "sidecar"].part # "ids"
            OBVIOUS
          <6> QED  BY <3>4, <3>6, <3>7, <5>1, <6>1 DEF FileIsTrue
        <5> QED  BY <3>7, <5>1
      <4>2. PICK s \in compiled : f.called = [ir |-> s.ir, part |-> "sidecar"] /\ f.holds = s
        BY <3>4, <3>6, <4>1 DEF FileIsTrue
      <4>3. PICK t \in compiled : g.called = [ir |-> t.ir, part |-> "sidecar"] /\ g.holds = t
        BY <3>4, <3>6, <3>7, <4>1 DEF FileIsTrue
      <4>4. s.ir = t.ir /\ s # t
        BY <3>7, <4>2, <4>3
      <4>5. s = [ir |-> s.ir, version |-> s.version] /\ t = [ir |-> t.ir, version |-> t.version]
        BY DEF FilesInvariant, CommandsType
      <4> QED  BY <4>4, <4>5
    <3> QED  BY <3>1, <3>2, <3>3, <3>4
  <2>9. ConflictsAreOfJoins'
    BY <2>1, <2>8 DEF ConflictsAreOfJoins
  <2> QED  BY <1>5, <2>2, <2>3, <2>4, <2>9 DEF FilesInvariant
<1> QED  BY <1>6, <1>7

\* The command under way returns, or stops half way.
LEMMA CommandEnds ==
  ASSUME Rules!ConstantsAssumption, FilesInvariant, Rules!Return \/ Rules!Crash
  PROVE  FilesInvariant'
<1>1. /\ command # None /\ command' = None /\ pending' = {} /\ UNCHANGED <<joins, compiled>>
      /\ \/ pending = {} /\ ended' = command /\ UNCHANGED disk
         \/ ended' = "crashed" /\ UNCHANGED disk
         \/ ended' = "crashed" /\ \E p \in pending : Rules!Halfway(p)
      /\ None # "join" /\ "refused" \notin Commands /\ None # "refused"
  BY DEF Rules!Return, Rules!Crash, Rules!ConstantsAssumption, Commands
<1>2. CommandsType'
  BY <1>1 DEF FilesInvariant, CommandsType
<1>3. joins \in Seq(Join) /\ \A f \in Written : FileIsTrue(f)
  BY DEF FilesInvariant, CommandsType, FilesAreTrue
<1>4. disk \subseteq disk' /\ Written' \subseteq Written
  BY <1>1 DEF Written, Rules!Halfway, Rules!IsNext
<1>5. FilesAreTrue'
  <2>1. \A f \in Written : FileIsTrue(f)'
    BY <1>1, <1>3, <1>4, FilesStayTrue
  <2> QED  BY <1>4, <2>1 DEF FilesAreTrue
<1>6. ManifestsAreLast'
  <2>1. CASE UNCHANGED disk
    BY <1>1, <2>1 DEF FilesInvariant, ManifestsAreLast
  <2>2. CASE \E p \in pending : Rules!Halfway(p)
    <3>1. PICK p \in pending : disk' = disk \cup {p.file} /\ \A q \in pending : p.turn <= q.turn
      BY <2>2 DEF Rules!Halfway, Rules!IsNext
    <3>2. \A q \in pending : ~(q.turn < p.turn)
      BY <3>1 DEF FilesInvariant, CommandsType
    <3>3. p.file.dir = "manifests" => ReleaseFiles(p.file.holds) \subseteq disk
      BY <3>2 DEF FilesInvariant, ManifestsAreLast
    <3> QED  BY <1>1, <3>1, <3>3 DEF FilesInvariant, ManifestsAreLast
  <2> QED  BY <1>1, <2>1, <2>2
<1>7. JoinIsUnderWay'
  BY <1>1 DEF FilesInvariant, JoinIsUnderWay, Written
<1>8. ConflictsAreOfJoins'
  BY <1>1 DEF FilesInvariant, CommandsType, ConflictsAreOfJoins
<1> QED  BY <1>2, <1>5, <1>6, <1>7, <1>8 DEF FilesInvariant

LEMMA FilesStep ==
  ASSUME Rules!ConstantsAssumption, FilesInvariant, [Rules!Next]_Rules!pipeline
  PROVE  FilesInvariant'
<1>1. CASE Rules!BuildProjectionRows
  <2>1. /\ command = None /\ UNCHANGED <<disk, halfLinked, pending, command, joins, compiled>>
        /\ ended' \in {"projected", "unprojected"} /\ None # "join"
    BY <1>1 DEF Rules!BuildProjectionRows, Rules!ConstantsAssumption
  <2> QED  BY <2>1, NothingIsWritten
<1>2. CASE UNCHANGED Rules!pipeline
  <2>1. UNCHANGED <<disk, halfLinked, pending, command, ended, joins, compiled>>
    BY <1>2 DEF Rules!pipeline
  <2>2. joins \in Seq(Join) /\ Written' = Written
    BY <2>1 DEF FilesInvariant, CommandsType, Written
  <2>3. FilesAreTrue'
    BY <2>1, <2>2, FilesStayTrue DEF FilesInvariant, FilesAreTrue
  <2>4. CommandsType' /\ ManifestsAreLast' /\ JoinIsUnderWay' /\ ConflictsAreOfJoins'
    BY <2>1, <2>2 DEF FilesInvariant, CommandsType, ManifestsAreLast, JoinIsUnderWay, ConflictsAreOfJoins
  <2> QED  BY <2>3, <2>4 DEF FilesInvariant
<1> QED  BY <1>1, <1>2, CandidatesAreWritten, CandidatesAreJoined, RulesAreReleased, FileIsInstalled,
            CommandEnds DEF Rules!Next, Rules!Done

(* For any transcript, extraction, mapping, rule file and compiler version and    *)
(* any order and number of commands, any of which may stop between two files or    *)
(* between the two halves of one installation: what a join that returned was shown *)
(* has its outcome on disk, a manifest lists what is there, compiled so, and cites *)
(* a transcript, of a record that re-attests unless the operator wrote the rule,   *)
(* and a command is refused only for commands that disagree or stopped half way.   *)
THEOREM ReleaseHolds ==
  ASSUME Rules!ConstantsAssumption
  PROVE  Rules!Spec => []ReleaseIsFounded
<1>1. Rules!Init => FilesInvariant
  BY FilesInit
<1>2. FilesInvariant /\ [Rules!Next]_Rules!pipeline => FilesInvariant'
  BY FilesStep
<1>0. None # "join"
  BY DEF Rules!ConstantsAssumption
<1>3. FilesInvariant => ReleaseIsFounded
  <2> SUFFICES ASSUME FilesInvariant PROVE ReleaseIsFounded
    OBVIOUS
  <2>1. JoinIsWhole
    <3> SUFFICES ASSUME ended = "join", NEW c \in joins[Len(joins)].candidates
                 PROVE  IF joins[Len(joins)].mapping[c.key] = None
                        THEN \E f \in disk : f.dir = "unmapped" /\ c \in f.holds
                        ELSE RuleFile(RuleIR(c, joins[Len(joins)].mapping)) \in disk
      BY DEF JoinIsWhole
    <3>1. Written = disk
      BY <1>0 DEF FilesInvariant, CommandsType, Written
    <3> QED  BY <3>1 DEF FilesInvariant, JoinIsUnderWay
  <2>2. ManifestIsFounded
    BY DEF FilesInvariant, ManifestsAreLast, FilesAreTrue, FileIsTrue, Written, ManifestIsFounded, In, Founded
  <2> QED  BY <2>1, <2>2 DEF FilesInvariant, ReleaseIsFounded
<1> QED  BY <1>1, <1>2, <1>3, PTL DEF Rules!Spec

-----------------------------------------------------------------------------
\* The publication of a bundle.

\* What the natural numbers below a bound have, every non-empty set of them has: a least.
LEMMA LeastOf ==
  ASSUME NEW T, IsFiniteSet(T), T # {}, T \subseteq Nat
  PROVE  \E n \in T : \A m \in T : n <= m
<1> DEFINE UpTo(m) == {k \in T : k <= m}
           Family == {UpTo(m) : m \in T}
           R == StrictSubsetOrdering(T)
<1>1. IsWellFoundedOn(R, FiniteSubsetsOf(T))
  BY FS_StrictSubsetOrderingWellFounded
<1>2. Family \subseteq FiniteSubsetsOf(T)
  <2>1. \A m \in T : UpTo(m) \subseteq T /\ IsFiniteSet(UpTo(m))
    BY FS_Subset
  <2> QED  BY <2>1 DEF FiniteSubsetsOf
<1>3. Family # {}
  OBVIOUS
<1> HIDE DEF R, Family
<1>4. PICK X \in Family : \A Y \in Family : ~(<<Y, X>> \in R)
  BY <1>1, <1>2, <1>3, WFMin
<1>5. PICK n \in T : X = UpTo(n)
  BY <1>4 DEF Family
<1>6. ASSUME NEW m \in T, ~(n <= m) PROVE FALSE
  <2>1. UpTo(m) \in Family
    BY DEF Family
  <2>2. UpTo(m) \subseteq UpTo(n) /\ n \in UpTo(n) /\ n \notin UpTo(m)
    <3>1. m \in Nat /\ n \in Nat /\ m < n
      BY <1>6
    <3>2. \A k \in T : k <= m => k <= n
      BY <3>1
    <3>3. UpTo(m) \subseteq UpTo(n)
      BY <3>2
    <3>4. n \in UpTo(n) /\ n \notin UpTo(m)
      BY <3>1
    <3> QED  BY <3>3, <3>4
  <2>3. UpTo(m) \subseteq T /\ UpTo(n) \subseteq T
    OBVIOUS
  <2> HIDE DEF UpTo
  <2>4. <<UpTo(m), UpTo(n)>> \in R
    BY <2>2, <2>3 DEF R, StrictSubsetOrdering
  <2> QED  BY <1>4, <1>5, <2>1, <2>4
<1> QED  BY <1>6

BundleStages == {"returned", "refused", "needs_review", "accepted_candidate", "published", "raised"}

\* What is written is what is decided of the response that was ingested.
BundleInvariant ==
  /\ response \in Bundle!Responses
  /\ stage \in BundleStages
  /\ stage \notin {"returned", "refused"} => Bundle!Reconciles(response)
  /\ stage = "published" => out = Bundle!Published
  /\ IngestedIsPublished

LEMMA BundleSame ==
  /\ \A x : Bundle!Cited(x) = Cited(x)
  /\ Bundle!CitesUnknown <=> CitesUnknown
  /\ \A f : Bundle!Range(f) = {f[i] : i \in DOMAIN f}
<1>1. \A x : Bundle!Cited(x) = Cited(x)
  BY DEF Bundle!Cited, Cited
<1>2. Bundle!CitesUnknown <=> CitesUnknown
  BY <1>1 DEF Bundle!CitesUnknown, CitesUnknown
<1>3. \A f : Bundle!Range(f) = {f[i] : i \in DOMAIN f}
  BY DEF Bundle!Range
<1> QED  BY <1>1, <1>2, <1>3

\* What a response accepts, and the merge of each.
Accepted == {response.accepted[i] : i \in DOMAIN response.accepted}
Merged(c) == {c} \cup Bundle!MergeOf(c).sources

LEMMA AcceptedAre ==
  ASSUME response \in Bundle!Responses, Bundle!Reconciles(response)
  PROVE  /\ DOMAIN response.accepted \subseteq Nat /\ IsFiniteSet(DOMAIN response.accepted)
         /\ \A i, j \in DOMAIN response.accepted : response.accepted[i] = response.accepted[j] => i = j
         /\ \A c \in Accepted : Bundle!MergeOf(c) \in response.merged /\ Bundle!MergeOf(c).target = c
         /\ \A x \in response.merged : x.target \in Accepted /\ x = Bundle!MergeOf(x.target)
         /\ Accepted \subseteq Candidate
<1>1. PICK n \in Nat : response.accepted \in [1..n -> Bundle!Id]
  <2>1. response.accepted \in Seq(Bundle!Id)
    BY DEF Bundle!Responses
  <2>2. Len(response.accepted) \in Nat
    BY <2>1
  <2> QED  BY <2>1, <2>2
<1>2. IsFiniteSet(1..n)
  BY FS_Interval
<1>3. /\ Bundle!IsInjective(response.accepted) /\ Bundle!OneDecisionEach(response)
      /\ {x.target : x \in response.merged} = Accepted
      /\ Accepted \subseteq Candidate
  BY BundleSame DEF Bundle!Reconciles, Accepted
<1>4. \A c \in Accepted : Bundle!MergeOf(c) \in response.merged /\ Bundle!MergeOf(c).target = c
  BY <1>3 DEF Bundle!MergeOf
<1>5. \A x \in response.merged : x.target \in Accepted /\ x = Bundle!MergeOf(x.target)
  BY <1>3, <1>4 DEF Bundle!OneDecisionEach
<1>6. \A i, j \in DOMAIN response.accepted : response.accepted[i] = response.accepted[j] => i = j
  BY <1>3 DEF Bundle!IsInjective
<1> QED  BY <1>1, <1>2, <1>3, <1>4, <1>5, <1>6

\* What the rules are before and after those of one meaning are made one.
Plain == Bundle!Rules(response.accepted)

\* The evidence of the rules after i that mean the same.
Others(i) ==
  {[candidate |-> Plain[j].candidate, sources |-> Plain[j].sources] :
     j \in {k \in DOMAIN Plain : k > i /\ Bundle!SameMeaning(Plain[i], Plain[k])}}

LEMMA RulesAre ==
  ASSUME response \in Bundle!Responses, Bundle!Reconciles(response)
  PROVE  /\ DOMAIN Plain = {i \in DOMAIN response.accepted : Bundle!Certain(response.accepted[i])}
         /\ \A i \in DOMAIN Plain :
              /\ Plain[i].candidate = response.accepted[i]
              /\ Plain[i].sources = Bundle!MergeOf(response.accepted[i]).sources
         /\ DOMAIN Bundle!Deduplicate(Plain) = Bundle!First(Plain)
         /\ Bundle!First(Plain) \subseteq DOMAIN Plain
         /\ \A i \in Bundle!First(Plain) :
              /\ Bundle!Deduplicate(Plain)[i].candidate = Plain[i].candidate
              /\ Bundle!Deduplicate(Plain)[i].sources = Plain[i].sources
              /\ Bundle!Deduplicate(Plain)[i].corroborating = Others(i)
<1>1. DOMAIN Plain = {i \in DOMAIN response.accepted : Bundle!Certain(response.accepted[i])}
  BY DEF Plain, Bundle!Rules
<1>2. \A i \in DOMAIN Plain :
        Plain[i] = [candidate |-> response.accepted[i],
                    sources |-> Bundle!MergeOf(response.accepted[i]).sources, corroborating |-> {}]
  BY DEF Plain, Bundle!Rules, Bundle!Rule
<1>3. Bundle!First(Plain) \subseteq DOMAIN Plain
  BY DEF Bundle!First
<1>4. DOMAIN Bundle!Deduplicate(Plain) = Bundle!First(Plain)
  BY DEF Bundle!Deduplicate
<1>5. ASSUME NEW i \in Bundle!First(Plain)
      PROVE  /\ Bundle!Deduplicate(Plain)[i].candidate = Plain[i].candidate
             /\ Bundle!Deduplicate(Plain)[i].sources = Plain[i].sources
             /\ Bundle!Deduplicate(Plain)[i].corroborating = Others(i)
  <2>1. Bundle!Deduplicate(Plain)[i] = [Plain[i] EXCEPT !.corroborating = Others(i)]
    BY DEF Bundle!Deduplicate, Others
  <2> QED  BY <1>2, <1>3, <2>1
<1>6. \A i \in DOMAIN Plain :
        /\ Plain[i].candidate = response.accepted[i]
        /\ Plain[i].sources = Bundle!MergeOf(response.accepted[i]).sources
  BY <1>2
<1> QED  BY <1>1, <1>3, <1>4, <1>5, <1>6

\* Every meaning has a first rule.
LEMMA FirstOfMeaning ==
  ASSUME response \in Bundle!Responses, Bundle!Reconciles(response), NEW i \in DOMAIN Plain
  PROVE  \E k \in Bundle!First(Plain) : k <= i /\ Bundle!SameMeaning(Plain[k], Plain[i])
<1> DEFINE T == {j \in DOMAIN Plain : Bundle!SameMeaning(Plain[i], Plain[j])}
<1>1. DOMAIN Plain \subseteq Nat /\ IsFiniteSet(DOMAIN Plain)
  <2>1. DOMAIN Plain \subseteq DOMAIN response.accepted
    BY RulesAre
  <2> QED  BY <2>1, AcceptedAre, FS_Subset
<1>2. T \subseteq DOMAIN Plain /\ i \in T
  BY DEF Bundle!SameMeaning
<1>3. IsFiniteSet(T)
  BY <1>1, <1>2, FS_Subset
<1>4. PICK k \in T : \A m \in T : k <= m
  BY <1>1, <1>2, <1>3, LeastOf
<1>5. k \in Bundle!First(Plain)
  BY <1>4 DEF Bundle!First, Bundle!SameMeaning
<1> QED  BY <1>2, <1>4, <1>5 DEF Bundle!SameMeaning

\* What is deferred: an accepted candidate that is doubtful, what the validator defers, and
\* what it does not mention.
Doubtful == {c \in Accepted : ~Bundle!Certain(c)}
AsDoubtful(c) ==
  [reason |-> "accepted", decision |-> Bundle!Own(c), names |-> Merged(c), shows |-> {c}]
AsAsked(x) == [reason |-> "validator", decision |-> x, names |-> {x.id}, shows |-> Cited(x)]
AsMissing(c) == [reason |-> "unaccounted", decision |-> [id |-> c], names |-> {c}, shows |-> {c}]

\* The candidates of what is accepted and waits for review.
Waiting == UNION {Merged(c) : c \in Doubtful}

LEMMA DeferredAre ==
  Bundle!Deferred = {AsDoubtful(c) : c \in Doubtful} \cup {AsAsked(x) : x \in response.deferred}
                      \cup {AsMissing(c) : c \in Bundle!Unaccounted(response)}
<1>1. Doubtful = {d \in Bundle!Range(response.accepted) : ~Bundle!Certain(d)}
  BY BundleSame DEF Doubtful, Accepted
<1>2. \A c : AsDoubtful(c) =
             Bundle!Record("accepted", Bundle!Own(c), {c} \cup Bundle!MergeOf(c).sources, {c})
  BY DEF AsDoubtful, Merged, Bundle!Record
<1>3. \A x : AsAsked(x) = Bundle!Record("validator", x, {x.id}, Bundle!Cited(x))
  BY BundleSame DEF AsAsked, Bundle!Record
<1>4. \A c : AsMissing(c) = Bundle!Record("unaccounted", [id |-> c], {c}, {c})
  BY DEF AsMissing, Bundle!Record
<1> QED  BY <1>1, <1>2, <1>3, <1>4 DEF Bundle!Deferred

LEMMA PublishedIs ==
  ASSUME Bundle!Reconciles(response)
  PROVE  /\ Bundle!Published.rules = Bundle!Deduplicate(Plain)
         /\ Bundle!Published.rejected = Bundle!RejectedRecords
         /\ Bundle!Published.deferred = Bundle!Deferred
BY DEF Bundle!Published, Plain

\* A candidate that is among the sources of its merge is in no deferred record.
LEMMA NothingRepeats ==
  ASSUME response \in Bundle!Responses, Bundle!Reconciles(response),
         MergesAreOfTheirTargets \/ \A x \in response.deferred : ~x.repeats
  PROVE  \A c \in Accepted : Bundle!Own(c) = [candidate |-> c]
<1>1. SUFFICES ASSUME NEW c \in Accepted PROVE Bundle!Repeating(c) = {}
  BY DEF Bundle!Own
<1>2. CASE \A x \in response.deferred : ~x.repeats
  BY <1>2 DEF Bundle!Repeating
<1>3. CASE MergesAreOfTheirTargets
  <2>1. Bundle!MergeOf(c) \in response.merged /\ Bundle!MergeOf(c).target = c
    BY AcceptedAre
  <2>2. c \in Bundle!Sources(response)
    BY <1>3, <2>1 DEF MergesAreOfTheirTargets, Bundle!Sources
  <2>3. Bundle!Sources(response) \cap {x.id : x \in response.deferred} = {}
    BY DEF Bundle!Reconciles, Bundle!OneDecisionEach, Bundle!Ids
  <2> QED  BY <2>2, <2>3 DEF Bundle!Repeating
<1> QED  BY <1>2, <1>3

\* The check after the files are written has nothing to refuse, if no text is broken.
LEMMA PublishedIsValid ==
  ASSUME response \in Bundle!Responses, Bundle!Reconciles(response), broken = {},
         MergesAreOfTheirTargets \/ \A x \in response.deferred : ~x.repeats
  PROVE  Bundle!Valid(Bundle!Published)
<1> DEFINE o == Bundle!Published
<1>0. ~Bundle!Breaks(Bundle!Printed(o), "separator")
  BY DEF Bundle!Breaks
<1>1. /\ DOMAIN o.rules = Bundle!First(Plain) /\ Bundle!First(Plain) \subseteq DOMAIN Plain
      /\ \A i \in DOMAIN o.rules : o.rules[i].candidate = Plain[i].candidate
      /\ \A i \in DOMAIN o.rules : o.rules[i].candidate = response.accepted[i]
  BY PublishedIs, RulesAre
<1>2. /\ \A i \in DOMAIN Plain : i \in DOMAIN response.accepted /\ Bundle!Certain(response.accepted[i])
      /\ \A i, j \in DOMAIN response.accepted : response.accepted[i] = response.accepted[j] => i = j
      /\ DOMAIN response.accepted \subseteq Nat
  BY RulesAre, AcceptedAre
<1>3. \A x, y \in o.deferred : x.decision = y.decision => x = y
  <2>1. o.deferred = {AsDoubtful(c) : c \in Doubtful} \cup {AsAsked(x) : x \in response.deferred}
                       \cup {AsMissing(c) : c \in Bundle!Unaccounted(response)}
    BY PublishedIs, DeferredAre
  <2>2. \A c \in Doubtful : /\ AsDoubtful(c).decision = [candidate |-> c]
                          /\ DOMAIN [candidate |-> c] = {"candidate"}
    BY NothingRepeats DEF AsDoubtful, Doubtful
  <2>3. \A x \in response.deferred : AsAsked(x).decision = x /\ DOMAIN x = {"id", "cites", "repeats"}
    <3>1. response.deferred \subseteq Bundle!Audit
      BY DEF Bundle!Responses
    <3> QED  BY <3>1 DEF AsAsked, Bundle!Audit
  <2>4. \A c : AsMissing(c).decision = [id |-> c] /\ DOMAIN [id |-> c] = {"id"}
    BY DEF AsMissing
  <2>5. /\ {"candidate"} # {"id", "cites", "repeats"} /\ {"candidate"} # {"id"}
        /\ {"id", "cites", "repeats"} # {"id"}
    <3>1. "candidate" \in {"candidate"} /\ "candidate" \notin {"id", "cites", "repeats"}
      OBVIOUS
    <3>2. "candidate" \notin {"id"} /\ "cites" \in {"id", "cites", "repeats"} /\ "cites" \notin {"id"}
      OBVIOUS
    <3> QED  BY <3>1, <3>2
  <2>6. /\ \A c \in Doubtful : AsDoubtful(c).decision.candidate = c
        /\ \A c : AsMissing(c).decision.id = c
    <3>1. \A c : [candidate |-> c].candidate = c /\ [id |-> c].id = c
      OBVIOUS
    <3> QED  BY <2>2, <2>4, <3>1
  <2>10. /\ \A c, d \in Doubtful : AsDoubtful(c).decision = AsDoubtful(d).decision => c = d
         /\ \A c, d : AsMissing(c).decision = AsMissing(d).decision => c = d
    BY <2>6
  <2>11. /\ \A c \in Doubtful : DOMAIN AsDoubtful(c).decision = {"candidate"}
         /\ \A c : DOMAIN AsMissing(c).decision = {"id"}
    BY <2>2, <2>4
  <2>12. \A a \in response.deferred : DOMAIN AsAsked(a).decision = {"id", "cites", "repeats"}
    BY <2>3
  <2> HIDE DEF o
  <2> SUFFICES ASSUME NEW x \in o.deferred, NEW y \in o.deferred, x.decision = y.decision PROVE x = y
    OBVIOUS
  <2>7. CASE \E c \in Doubtful : x = AsDoubtful(c)
    <3>1. PICK c \in Doubtful : x = AsDoubtful(c)
      BY <2>7
    <3>2. DOMAIN y.decision = {"candidate"}
      BY <2>11, <3>1
    <3>3. PICK d \in Doubtful : y = AsDoubtful(d)
      BY <2>1, <2>5, <2>11, <2>12, <3>2
    <3>4. c = d
      BY <2>10, <3>1, <3>3
    <3> QED  BY <3>1, <3>3, <3>4
  <2>8. CASE \E a \in response.deferred : x = AsAsked(a)
    <3>1. PICK a \in response.deferred : x = AsAsked(a)
      BY <2>8
    <3>2. DOMAIN y.decision = {"id", "cites", "repeats"}
      BY <2>12, <3>1
    <3>3. PICK b \in response.deferred : y = AsAsked(b)
      BY <2>1, <2>5, <2>11, <2>12, <3>2
    <3> QED  BY <2>3, <3>1, <3>3
  <2>9. CASE \E c \in Bundle!Unaccounted(response) : x = AsMissing(c)
    <3>1. PICK c \in Bundle!Unaccounted(response) : x = AsMissing(c)
      BY <2>9
    <3>2. DOMAIN y.decision = {"id"}
      BY <2>11, <3>1
    <3>3. PICK d \in Bundle!Unaccounted(response) : y = AsMissing(d)
      BY <2>1, <2>5, <2>11, <2>12, <3>2
    <3>4. c = d
      BY <2>10, <3>1, <3>3
    <3> QED  BY <3>1, <3>3, <3>4
  <2> QED  BY <2>1, <2>7, <2>8, <2>9
<1> HIDE DEF o
<1>4. \A i, j \in DOMAIN o.rules : o.rules[i].candidate = o.rules[j].candidate => i = j
  BY <1>1, <1>2
<1>5. \A i \in DOMAIN o.rules : Bundle!Certain(o.rules[i].candidate)
  BY <1>1, <1>2
<1>6. ASSUME NEW i \in DOMAIN o.rules, NEW j \in DOMAIN o.rules, Bundle!SameMeaning(o.rules[i], o.rules[j])
      PROVE  i = j
  <2>1. Bundle!SameMeaning(Plain[i], Plain[j]) /\ Bundle!SameMeaning(Plain[j], Plain[i])
    BY <1>1, <1>6 DEF Bundle!SameMeaning
  <2>2. i <= j /\ j <= i
    BY <1>1, <2>1 DEF Bundle!First
  <2>3. i \in Nat /\ j \in Nat
    BY <1>1, <1>2
  <2> QED  BY <2>2, <2>3
<1> QED  BY <1>0, <1>3, <1>4, <1>5, <1>6 DEF Bundle!Valid, o

\* Where each candidate is found in a publication.
LEMMA FoundInRules ==
  ASSUME response \in Bundle!Responses, Bundle!Reconciles(response), out.rules = Bundle!Deduplicate(Plain)
  PROVE  InRules = UNION {Merged(c) : c \in Accepted \ Doubtful}
<1>1. \A i \in DOMAIN Plain : {Plain[i].candidate} \cup Plain[i].sources = Merged(response.accepted[i])
  BY RulesAre DEF Merged
<1>2. \A i \in DOMAIN Plain : response.accepted[i] \in Accepted \ Doubtful
  BY RulesAre DEF Accepted, Doubtful
<1>3. \A c \in Accepted \ Doubtful : \E i \in DOMAIN Plain : response.accepted[i] = c
  BY RulesAre DEF Accepted, Doubtful
<1>4. ASSUME NEW k \in Bundle!First(Plain)
      PROVE  InRule(out.rules[k]) =
               Merged(response.accepted[k])
                 \cup UNION {Merged(response.accepted[j]) :
                               j \in {m \in DOMAIN Plain : m > k /\ Bundle!SameMeaning(Plain[k], Plain[m])}}
  <2> DEFINE J == {m \in DOMAIN Plain : m > k /\ Bundle!SameMeaning(Plain[k], Plain[m])}
  <2>1. /\ out.rules[k].candidate = Plain[k].candidate /\ out.rules[k].sources = Plain[k].sources
        /\ out.rules[k].corroborating = {[candidate |-> Plain[j].candidate, sources |-> Plain[j].sources] : j \in J}
        /\ k \in DOMAIN Plain
    BY RulesAre DEF Others
  <2>2. {{x.candidate} \cup x.sources : x \in out.rules[k].corroborating} =
          {{Plain[j].candidate} \cup Plain[j].sources : j \in J}
    <3> DEFINE e(j) == [candidate |-> Plain[j].candidate, sources |-> Plain[j].sources]
    <3>1. \A j : {e(j).candidate} \cup e(j).sources = {Plain[j].candidate} \cup Plain[j].sources
      OBVIOUS
    <3>2. out.rules[k].corroborating = {e(j) : j \in J}
      BY <2>1
    <3> HIDE DEF e, J
    <3>3. {{x.candidate} \cup x.sources : x \in {e(j) : j \in J}} = {{e(j).candidate} \cup e(j).sources : j \in J}
      OBVIOUS
    <3>4. {{e(j).candidate} \cup e(j).sources : j \in J} = {{Plain[j].candidate} \cup Plain[j].sources : j \in J}
      BY <3>1
    <3> QED  BY <3>2, <3>3, <3>4
  <2>3. {{Plain[j].candidate} \cup Plain[j].sources : j \in J} = {Merged(response.accepted[j]) : j \in J}
    BY <1>1
  <2>4. {out.rules[k].candidate} \cup out.rules[k].sources = Merged(response.accepted[k])
    BY <1>1, <2>1
  <2> HIDE DEF J
  <2>5. InRule(out.rules[k]) = Merged(response.accepted[k]) \cup UNION {Merged(response.accepted[j]) : j \in J}
    BY <2>2, <2>3, <2>4 DEF InRule
  <2> QED  BY <2>5 DEF J
<1>5. DOMAIN out.rules = Bundle!First(Plain) /\ Bundle!First(Plain) \subseteq DOMAIN Plain
      /\ DOMAIN Plain \subseteq Nat
  BY RulesAre, AcceptedAre
<1>6. ASSUME NEW c \in InRules PROVE \E a \in Accepted \ Doubtful : c \in Merged(a)
  <2>1. PICK k \in DOMAIN out.rules : c \in InRule(out.rules[k])
    BY <1>6 DEF InRules
  <2>2. \E j \in DOMAIN Plain : c \in Merged(response.accepted[j])
    BY <1>4, <1>5, <2>1
  <2> QED  BY <1>2, <2>2
<1>7. ASSUME NEW a \in Accepted \ Doubtful, NEW c \in Merged(a) PROVE c \in InRules
  <2>1. PICK i \in DOMAIN Plain : response.accepted[i] = a
    BY <1>3
  <2>2. PICK k \in Bundle!First(Plain) : k <= i /\ Bundle!SameMeaning(Plain[k], Plain[i])
    BY FirstOfMeaning
  <2>3. k \in Nat /\ i \in Nat
    BY <1>5
  <2>4. CASE k = i
    BY <1>4, <1>5, <1>7, <2>1, <2>2, <2>4 DEF InRules
  <2>5. CASE i > k
    <3>1. c \in InRule(out.rules[k])
      BY <1>4, <1>7, <2>1, <2>2, <2>5
    <3> QED  BY <1>5, <2>2, <3>1 DEF InRules
  <2> QED  BY <2>2, <2>3, <2>4, <2>5
<1> QED  BY <1>6, <1>7

LEMMA FoundInTheOthers ==
  ASSUME Bundle!Reconciles(response), out = Bundle!Published
  PROVE  /\ InRejected = {x.id : x \in response.rejected}
         /\ InDeferred = Waiting \cup {x.id : x \in response.deferred}
                           \cup Bundle!Unaccounted(response)
         /\ \A c \in Shown :
              \/ c \in Doubtful \cup Bundle!Unaccounted(response)
              \/ \E x \in response.rejected \cup response.deferred : c \in Cited(x)
<1> DEFINE entry(x) == [reason |-> "rejected", decision |-> x, names |-> {x.id}, shows |-> Cited(x)]
<1>1. out.rejected = {entry(x) : x \in response.rejected}
  BY PublishedIs, BundleSame DEF Bundle!RejectedRecords, Bundle!Record
<1>2. InRejected = {x.id : x \in response.rejected}
  <2>1. \A x \in response.rejected : entry(x).names = {x.id}
    OBVIOUS
  <2> HIDE DEF entry
  <2> QED  BY <1>1, <2>1 DEF InRejected
<1>3. InDeferred = Waiting \cup {x.id : x \in response.deferred}
                     \cup Bundle!Unaccounted(response)
  <2>1. out.deferred = {AsDoubtful(c) : c \in Doubtful} \cup {AsAsked(x) : x \in response.deferred}
                         \cup {AsMissing(c) : c \in Bundle!Unaccounted(response)}
    BY PublishedIs, DeferredAre
  <2>2. \A c : AsDoubtful(c).names = Merged(c) /\ AsMissing(c).names = {c}
    BY DEF AsDoubtful, AsMissing
  <2>3. \A x \in response.deferred : AsAsked(x).names = {x.id}
    BY DEF AsAsked
  <2>4. ASSUME NEW c \in InDeferred
        PROVE  \/ \E d \in Doubtful : c \in Merged(d)
               \/ \E x \in response.deferred : c = x.id
               \/ c \in Bundle!Unaccounted(response)
    <3>1. PICK x \in out.deferred : c \in x.names
      BY <2>4 DEF InDeferred
    <3> QED  BY <2>1, <2>2, <2>3, <3>1
  <2>5. ASSUME NEW d \in Doubtful, NEW c \in Merged(d) PROVE c \in InDeferred
    <3>1. AsDoubtful(d) \in out.deferred /\ AsDoubtful(d).names = Merged(d)
      BY <2>1, <2>2
    <3> QED  BY <2>5, <3>1 DEF InDeferred
  <2>6. ASSUME NEW x \in response.deferred PROVE x.id \in InDeferred
    <3>1. AsAsked(x) \in out.deferred /\ AsAsked(x).names = {x.id}
      BY <2>1, <2>3
    <3> QED  BY <3>1 DEF InDeferred
  <2>7. ASSUME NEW c \in Bundle!Unaccounted(response) PROVE c \in InDeferred
    <3>1. AsMissing(c) \in out.deferred /\ AsMissing(c).names = {c}
      BY <2>1, <2>2
    <3> QED  BY <3>1 DEF InDeferred
  <2> DEFINE ids == {x.id : x \in response.deferred}
             rest == Bundle!Unaccounted(response)
  <2>8. ids \subseteq InDeferred /\ rest \subseteq InDeferred
    BY <2>6, <2>7
  <2>9. Waiting \subseteq InDeferred
    BY <2>5 DEF Waiting
  <2>10. InDeferred \subseteq Waiting \cup ids \cup rest
    <3> SUFFICES ASSUME NEW c \in InDeferred PROVE c \in Waiting \cup ids \cup rest
      OBVIOUS
    <3>1. \/ \E d \in Doubtful : c \in Merged(d)
          \/ \E x \in response.deferred : c = x.id
          \/ c \in rest
      BY <2>4
    <3> QED  BY <3>1 DEF Waiting
  <2> HIDE DEF ids, rest
  <2>11. InDeferred = Waiting \cup ids \cup rest
    BY <2>8, <2>9, <2>10
  <2> QED  BY <2>11 DEF ids, rest
<1>4. ASSUME NEW c \in Shown
      PROVE  \/ c \in Doubtful \cup Bundle!Unaccounted(response)
             \/ \E x \in response.rejected \cup response.deferred : c \in Cited(x)
  <2>1. PICK r \in out.rejected \cup out.deferred : c \in r.shows
    BY <1>4 DEF Shown
  <2>2. out.deferred = {AsDoubtful(d) : d \in Doubtful} \cup {AsAsked(x) : x \in response.deferred}
                         \cup {AsMissing(d) : d \in Bundle!Unaccounted(response)}
    BY PublishedIs, DeferredAre
  <2>3. \A d : AsDoubtful(d).shows = {d} /\ AsMissing(d).shows = {d}
    BY DEF AsDoubtful, AsMissing
  <2>4. \A x : AsAsked(x).shows = Cited(x) /\ entry(x).shows = Cited(x)
    BY DEF AsAsked
  <2> HIDE DEF entry
  <2> QED  BY <1>1, <2>1, <2>2, <2>3, <2>4
<1> QED  BY <1>2, <1>3, <1>4

\* What the sources of the merges are made of.
LEMMA SourcesAre ==
  ASSUME response \in Bundle!Responses, Bundle!Reconciles(response)
  PROVE  /\ Bundle!Sources(response) = UNION {Bundle!MergeOf(c).sources : c \in Accepted}
         /\ \A c, d \in Accepted : c # d => Bundle!MergeOf(c).sources \cap Bundle!MergeOf(d).sources = {}
         /\ Bundle!Sources(response) \cap {x.id : x \in response.rejected} = {}
         /\ Bundle!Sources(response) \cap {x.id : x \in response.deferred} = {}
         /\ {x.id : x \in response.rejected} \cap {x.id : x \in response.deferred} = {}
         /\ Bundle!Unaccounted(response) =
              Candidate \ (Bundle!Sources(response) \cup {x.id : x \in response.rejected}
                             \cup {x.id : x \in response.deferred})
<1>1. Bundle!OneDecisionEach(response)
  BY DEF Bundle!Reconciles
<1>2. Bundle!Sources(response) = UNION {Bundle!MergeOf(c).sources : c \in Accepted}
  BY AcceptedAre DEF Bundle!Sources
<1>3. \A c, d \in Accepted : c # d => Bundle!MergeOf(c).sources \cap Bundle!MergeOf(d).sources = {}
  BY <1>1, AcceptedAre DEF Bundle!OneDecisionEach
<1> QED  BY <1>1, <1>2, <1>3 DEF Bundle!OneDecisionEach, Bundle!Ids, Bundle!Unaccounted, Bundle!Classified

LEMMA PublishedIsOneFate ==
  ASSUME Bundle!ConstantsAssumption, BundleInvariant, stage = "published"
  PROVE  EveryCandidateIsKept /\ OneFateEach
<1>1. /\ response \in Bundle!Responses /\ Bundle!Reconciles(response)
      /\ out = Bundle!Published
  BY DEF BundleInvariant
<1>2. InRules = UNION {Merged(c) : c \in Accepted \ Doubtful}
  BY <1>1, PublishedIs, FoundInRules
<1>3. /\ InRejected = {x.id : x \in response.rejected}
      /\ InDeferred = Waiting \cup {x.id : x \in response.deferred}
                        \cup Bundle!Unaccounted(response)
      /\ \A c \in Shown :
           \/ c \in Doubtful \cup Bundle!Unaccounted(response)
           \/ \E x \in response.rejected \cup response.deferred : c \in Cited(x)
  BY <1>1, FoundInTheOthers
<1>4. Doubtful \subseteq Accepted
  BY DEF Doubtful
<1> DEFINE sources(c) == Bundle!MergeOf(c).sources
           all == Bundle!Sources(response)
           rejected == {x.id : x \in response.rejected}
           deferred == {x.id : x \in response.deferred}
           rest == Bundle!Unaccounted(response)
<1>5. /\ all = UNION {sources(c) : c \in Accepted}
      /\ \A c, d \in Accepted : c # d => sources(c) \cap sources(d) = {}
      /\ all \cap rejected = {} /\ all \cap deferred = {} /\ rejected \cap deferred = {}
      /\ rest = Candidate \ (all \cup rejected \cup deferred)
  BY <1>1, SourcesAre
<1>6. \A c : Merged(c) = {c} \cup sources(c)
  BY DEF Merged
<1>7. MergesAreOfTheirTargets => \A c \in Accepted : c \in sources(c)
  BY <1>1, AcceptedAre DEF MergesAreOfTheirTargets
<1>10. InRejected = rejected /\ InDeferred = Waiting \cup deferred \cup rest
  BY <1>3
<1>11. /\ \A c \in Shown : \/ c \in Doubtful \cup rest
                         \/ \E x \in response.rejected \cup response.deferred : c \in Cited(x)
       /\ \A x \in response.rejected \cup response.deferred : x.id \in rejected \cup deferred
  BY <1>3
<1> HIDE DEF sources, all, rejected, deferred, rest
<1>8. EveryCandidateIsKept
  <2> SUFFICES ASSUME NEW c \in Candidate PROVE c \in InRules \cup InRejected \cup InDeferred
    BY DEF EveryCandidateIsKept
  <2>1. CASE c \in all
    <3>1. PICK a \in Accepted : c \in sources(a)
      BY <1>5, <2>1
    <3> QED  BY <1>2, <1>6, <1>10, <3>1 DEF Waiting
  <2>2. CASE c \in rejected
    BY <1>10, <2>2
  <2>3. CASE c \in deferred
    BY <1>10, <2>3
  <2>4. CASE c \in rest
    BY <1>10, <2>4
  <2> QED  BY <1>5, <2>1, <2>2, <2>3, <2>4
<1>9. OneFateEach
  <2> SUFFICES ASSUME \A c \in Accepted : c \in sources(c)
               PROVE  /\ InRules \cap InRejected = {}
                      /\ InRules \cap InDeferred = {}
                      /\ InRejected \cap InDeferred = {}
                      /\ \A c \in Shown \cap InRules :
                           \E x \in response.rejected \cup response.deferred : x.id # c /\ c \in Cited(x)
    BY <1>7 DEF OneFateEach
  <2>1. InRules = UNION {sources(c) : c \in Accepted \ Doubtful}
    BY <1>2, <1>6
  <2>2. Waiting = UNION {sources(c) : c \in Doubtful}
    BY <1>4, <1>6 DEF Waiting
  <2>3. InDeferred = Waiting \cup deferred \cup rest
    BY <1>10
  <2>4. InRules \subseteq all /\ Waiting \subseteq all
    BY <1>4, <1>5, <2>1, <2>2
  <2>5. InRules \cap Waiting = {}
    BY <1>4, <1>5, <2>1, <2>2
  <2>6. rest \cap all = {} /\ rest \cap rejected = {}
    BY <1>5
  <2>7. /\ all \cap rejected = {} /\ all \cap deferred = {} /\ rejected \cap deferred = {}
    BY <1>5
  <2>8. InRejected = rejected
    BY <1>10
  <2>9. ASSUME NEW c \in Shown, c \in InRules
        PROVE  \E x \in response.rejected \cup response.deferred : x.id # c /\ c \in Cited(x)
    <3>1. c \in all /\ c \notin rest
      BY <2>4, <2>6, <2>9
    <3>2. c \notin Doubtful
      BY <1>4, <2>2, <2>5, <2>9
    <3>3. PICK x \in response.rejected \cup response.deferred : c \in Cited(x)
      BY <1>11, <2>9, <3>1, <3>2
    <3>4. x.id # c
      BY <1>11, <2>7, <3>1
    <3> QED  BY <3>3, <3>4
  <2> QED  BY <2>3, <2>4, <2>5, <2>6, <2>7, <2>8, <2>9
<1> QED  BY <1>8, <1>9

\* What is to be published follows from the response and from what it accepts.
LEMMA PublishedStays ==
  ASSUME UNCHANGED <<response, content>>
  PROVE  Bundle!Published' = Bundle!Published
<1>1. \A c : Bundle!MergeOf(c)' = Bundle!MergeOf(c)
  BY DEF Bundle!MergeOf
<1>2. \A c : Bundle!Certain(c)' <=> Bundle!Certain(c)
  BY DEF Bundle!Certain
<1>3. \A r, s : Bundle!SameMeaning(r, s)' <=> Bundle!SameMeaning(r, s)
  BY DEF Bundle!SameMeaning
<1>4. \A c : Bundle!Rule(c)' = Bundle!Rule(c)
  BY <1>1 DEF Bundle!Rule
<1>5. \A v : Bundle!Rules(v)' = Bundle!Rules(v)
  BY <1>2, <1>4 DEF Bundle!Rules
<1>6. \A v : Bundle!First(v)' = Bundle!First(v)
  BY <1>3 DEF Bundle!First
<1>7. \A v : Bundle!Deduplicate(v)' = Bundle!Deduplicate(v)
  BY <1>3, <1>6 DEF Bundle!Deduplicate
<1>8. Bundle!RejectedRecords' = Bundle!RejectedRecords
  BY DEF Bundle!RejectedRecords
<1>9. Bundle!Deferred' = Bundle!Deferred
  <2>1. \A c : Bundle!Own(c)' = Bundle!Own(c)
    BY DEF Bundle!Own, Bundle!Repeating
  <2> QED  BY <1>1, <1>2, <2>1 DEF Bundle!Deferred
<1> QED  BY <1>5, <1>7, <1>8, <1>9 DEF Bundle!Published

LEMMA BundleInit ==
  ASSUME Bundle!Init
  PROVE  BundleInvariant
BY DEF Bundle!Init, BundleInvariant, BundleStages, IngestedIsPublished

LEMMA BundleStep ==
  ASSUME BundleInvariant, [Bundle!Next]_Bundle!bundle
  PROVE  BundleInvariant'
<1>0. ASSUME UNCHANGED <<response, broken>>
      PROVE  /\ Bundle!Reconciles(response)' <=> Bundle!Reconciles(response)
             /\ CitesUnknown' <=> CitesUnknown
             /\ MergesAreOfTheirTargets' <=> MergesAreOfTheirTargets
             /\ (\E x \in response.deferred : x.repeats)' <=> \E x \in response.deferred : x.repeats
  BY <1>0 DEF CitesUnknown, MergesAreOfTheirTargets
<1>1. CASE Bundle!Ingest
  <2>1. /\ stage = "returned" /\ UNCHANGED <<response, broken, out>>
        /\ stage' \in {"refused", "needs_review", "accepted_candidate"}
        /\ stage' # "refused" => Bundle!Reconciles(response)
    BY <1>1 DEF Bundle!Ingest
  <2> QED  BY <1>0, <2>1 DEF BundleInvariant, BundleStages, IngestedIsPublished
<1>2. CASE Bundle!Publish
  <2>1. /\ stage \in {"needs_review", "accepted_candidate"} /\ UNCHANGED <<response, content, broken>>
        /\ out' = (IF Bundle!Writable(Bundle!Published) THEN Bundle!Published ELSE Bundle!NoRecords)
        /\ stage' = (IF Bundle!Writable(Bundle!Published) /\ Bundle!Valid(Bundle!Published)
                     THEN "published" ELSE "raised")
    BY <1>2 DEF Bundle!Publish
  <2>2. response \in Bundle!Responses /\ Bundle!Reconciles(response)
    BY <2>1 DEF BundleInvariant
  <2>3. ASSUME ~CitesUnknown, broken = {},
               MergesAreOfTheirTargets \/ \A x \in response.deferred : ~x.repeats
        PROVE  Bundle!Writable(Bundle!Published) /\ Bundle!Valid(Bundle!Published)
    <3>1. Bundle!Valid(Bundle!Published)
      BY <2>2, <2>3, PublishedIsValid
    <3> QED  BY <2>3, <3>1, BundleSame DEF Bundle!Writable, Bundle!Breaks
  <2>4. Bundle!Published' = Bundle!Published
    BY <2>1, PublishedStays
  <2>5. stage' = "published" => out' = Bundle!Published
    BY <2>1
  <2>6. IngestedIsPublished'
    BY <1>0, <2>1, <2>3 DEF IngestedIsPublished
  <2>7. stage' \in BundleStages
    BY <2>1 DEF BundleStages
  <2> QED  BY <1>0, <2>1, <2>2, <2>4, <2>5, <2>6, <2>7 DEF BundleInvariant
<1>3. CASE UNCHANGED Bundle!bundle
  <2>1. UNCHANGED <<response, content, broken, stage, out>>
    BY <1>3 DEF Bundle!bundle
  <2>2. Bundle!Published' = Bundle!Published
    BY <2>1, PublishedStays
  <2>3. IngestedIsPublished' <=> IngestedIsPublished
    BY <1>0, <2>1 DEF IngestedIsPublished
  <2>4. (response \in Bundle!Responses)' <=> response \in Bundle!Responses
    BY <2>1
  <2> QED  BY <1>0, <2>1, <2>2, <2>3, <2>4 DEF BundleInvariant
<1> QED  BY <1>1, <1>2, <1>3 DEF Bundle!Next, Bundle!Done

(* For any candidates and any answer of the validator, of any number of accepted *)
(* candidates, merges and citations: no candidate is lost, none is named as two  *)
(* of a rule, rejected and deferred, what a rule is made of is shown among the   *)
(* others only where it is cited, and what was ingested is published unless it   *)
(* cites what is in neither pass, has a text that the files cannot hold, or      *)
(* repeats as deferred what it accepts by a merge of other candidates.           *)
THEOREM FatesHold ==
  ASSUME Bundle!ConstantsAssumption
  PROVE  Bundle!Spec => []CandidatesHaveOneFate
<1>1. Bundle!Init => BundleInvariant
  BY BundleInit
<1>2. BundleInvariant /\ [Bundle!Next]_Bundle!bundle => BundleInvariant'
  BY BundleStep
<1>3. BundleInvariant => CandidatesHaveOneFate
  <2> SUFFICES ASSUME BundleInvariant PROVE CandidatesHaveOneFate
    OBVIOUS
  <2>1. IngestedIsPublished
    BY DEF BundleInvariant, IngestedIsPublished
  <2>2. CASE stage = "published"
    BY <2>1, <2>2, PublishedIsOneFate DEF CandidatesHaveOneFate
  <2>3. CASE stage # "published"
    BY <2>1, <2>3 DEF CandidatesHaveOneFate, EveryCandidateIsKept, OneFateEach
  <2> QED  BY <2>2, <2>3
<1> QED  BY <1>1, <1>2, <1>3, PTL DEF Bundle!Spec

-----------------------------------------------------------------------------
\* The report of a run.
Verdicts == {"pass", "fail", "indeterminate"}
ReasonCodes == {"schema_mismatch", "no_subjects_but_required", "no_subjects_and_prohibited",
                "no_subjects_nothing_checked", "prohibited_subjects_present",
                "no_requirements_nothing_asserted"}
RequirementRecord ==
  [passed : Nat, failed : Nat, indeterminate : Nat, status : Verdicts, listed : Nat, omitted : Nat,
   reason : ReasonCodes \cup {None}, caveat : ReasonCodes \cup {None}]
OutcomeRecord ==
  [status : Verdicts, reason : ReasonCodes \cup {None},
   applicability : {"applies", "does_not_apply", "undetermined"},
   passed : Nat, failed : Nat, indeterminate : Nat, requirements : Seq(RequirementRecord)]
PackReport ==
  [passed : Nat, failed : Nat, indeterminate : Nat, status : Verdicts,
   specifications : Seq(OutcomeRecord)]

LEMMA CardinalityOfModel ==
  \A S : Model!Cardinality(S) = Cardinality(S)
<1>1. ASSUME NEW S PROVE Model!Cardinality(S) = Cardinality(S)
  BY DEF Model!Cardinality, Cardinality, Model!IsFiniteSet, IsFiniteSet
<1> QED  BY <1>1

LEMMA AggregateOfModel ==
  ASSUME NEW passed \in Nat, NEW failed \in Nat, NEW indeterminate \in Nat
  PROVE  Model!Aggregate(passed, failed, indeterminate) \in Verdicts
BY DEF Model!Aggregate, Verdicts

\* What the counts of a requirement say of the elements it looked at.
OfFacet(r, facet) ==
  /\ r.failed > 0 <=> \E e \in DOMAIN facet : facet[e] = "broken"
  /\ r.indeterminate > 0 <=> \E e \in DOMAIN facet : facet[e] \in {"missing", "unrecognised"}
  /\ r.passed + r.failed + r.indeterminate = 0 <=> facet = <<>>
  /\ r.status = Model!Aggregate(r.passed, r.failed, r.indeterminate)
  /\ r.listed + r.omitted = r.failed + r.indeterminate
  /\ r.reason = None /\ r.caveat = None

LEMMA RequirementIsOfFacet ==
  ASSUME Model!ConstantsAssumption, NEW facet \in Seq(Model!Reason)
  PROVE  /\ Model!Requirement(facet) \in RequirementRecord
         /\ OfFacet(Model!Requirement(facet), facet)
<1> DEFINE all == DOMAIN facet
           good == {e \in DOMAIN facet : facet[e] = "ok"}
           failing == Model!Found(facet, "fail")
           doubtful == Model!Found(facet, "indeterminate")
           bad == {e \in DOMAIN facet : facet[e] # "ok"}
           found == Cardinality(bad)
<1>1. IsFiniteSet(all) /\ (all = {} <=> facet = <<>>)
  <2>1. all = 1..Len(facet) /\ Len(facet) \in Nat
    OBVIOUS
  <2>2. IsFiniteSet(all)
    BY <2>1, FS_Interval
  <2>3. facet = <<>> <=> Len(facet) = 0
    OBVIOUS
  <2>4. \A m \in Nat : 1..m = {} <=> m = 0
    OBVIOUS
  <2>5. all = {} <=> Len(facet) = 0
    BY <2>1, <2>4
  <2> QED  BY <2>2, <2>3, <2>5
<1>2. /\ failing = {e \in all : facet[e] = "broken"}
      /\ doubtful = {e \in all : facet[e] \in {"missing", "unrecognised"}}
      /\ bad = {e \in all : facet[e] # "ok"} /\ good = {e \in all : facet[e] = "ok"}
  <2>1. \A e \in all : facet[e] \in Model!Reason
    OBVIOUS
  <2>2. \A e \in all : e \in failing <=> facet[e] = "broken"
    BY <2>1 DEF Model!Found, Model!Classify
  <2>3. \A e \in all : e \in doubtful <=> facet[e] \in {"missing", "unrecognised"}
    BY <2>1 DEF Model!Found, Model!Classify, Model!Reason
  <2>4. failing \subseteq all /\ doubtful \subseteq all
    BY DEF Model!Found
  <2> HIDE DEF failing, doubtful
  <2> QED  BY <2>2, <2>3, <2>4
<1>split. /\ good \in SUBSET all /\ bad \in SUBSET all /\ failing \in SUBSET bad
          /\ doubtful \in SUBSET bad
          /\ failing \cup doubtful = bad /\ failing \cap doubtful = {} /\ good \cup bad = all
  <2>1. \A e \in all : facet[e] \in Model!Reason
    OBVIOUS
  <2> HIDE DEF good, bad, failing, doubtful, all
  <2> QED  BY <1>2, <2>1 DEF Model!Reason
<1> HIDE DEF good, bad, failing, doubtful
<1>3. IsFiniteSet(good) /\ IsFiniteSet(bad)
  BY <1>1, <1>split, FS_Subset
<1>4. IsFiniteSet(failing) /\ IsFiniteSet(doubtful)
  BY <1>split, <1>3, FS_Subset
<1>5. /\ Cardinality(good) \in Nat /\ found \in Nat
      /\ Cardinality(failing) \in Nat /\ Cardinality(doubtful) \in Nat
  BY <1>3, <1>4, FS_CardinalityType
<1>6. found = Cardinality(failing) + Cardinality(doubtful)
  <2>1. Cardinality(failing \cup doubtful) = Cardinality(failing) + Cardinality(doubtful) - Cardinality(failing \cap doubtful)
    BY <1>4, FS_Union
  <2>2. Cardinality(failing \cup doubtful) = found
    BY <1>split, Zenon
  <2>3. Cardinality(failing \cap doubtful) = 0
    BY <1>split, FS_EmptySet
  <2> QED  BY <2>1, <2>2, <2>3, <1>5
<1>7. /\ Cardinality(good) = 0 <=> good = {}
      /\ Cardinality(failing) = 0 <=> failing = {}
      /\ Cardinality(doubtful) = 0 <=> doubtful = {}
  BY <1>3, <1>4, FS_EmptySet
<1> DEFINE r == Model!Requirement(facet)
<1>8. /\ r.passed = Cardinality(good) /\ r.failed = Cardinality(failing)
      /\ r.indeterminate = Cardinality(doubtful)
      /\ r.status = Model!Aggregate(r.passed, r.failed, r.indeterminate)
      /\ r.listed = (IF found < EntityLimit THEN found ELSE EntityLimit)
      /\ r.omitted = (IF found > EntityLimit THEN found - EntityLimit ELSE 0)
      /\ r.reason = None /\ r.caveat = None
  BY CardinalityOfModel DEF Model!Requirement, good, bad, failing, doubtful
<1>9. r \in RequirementRecord
  <2>1. EntityLimit \in Nat
    BY DEF Model!ConstantsAssumption
  <2>2. /\ r.listed \in Nat /\ r.omitted \in Nat
        /\ r.passed \in Nat /\ r.failed \in Nat /\ r.indeterminate \in Nat
    BY <1>5, <1>8, <2>1
  <2>3. r.status \in Verdicts
    BY <1>8, <2>2, AggregateOfModel
  <2>4. r = [passed |-> r.passed, failed |-> r.failed, indeterminate |-> r.indeterminate,
             status |-> r.status, listed |-> r.listed, omitted |-> r.omitted,
             reason |-> r.reason, caveat |-> r.caveat]
    BY DEF Model!Requirement
  <2> QED  BY <2>2, <2>3, <2>4, <1>8 DEF RequirementRecord
<1>10. r.listed + r.omitted = r.failed + r.indeterminate
  <2>1. EntityLimit \in Nat
    BY DEF Model!ConstantsAssumption
  <2> QED  BY <2>1, <1>5, <1>6, <1>8
<1>11. r.passed + r.failed + r.indeterminate = 0 <=> facet = <<>>
  <2>1. facet = <<>> <=> good = {} /\ failing = {} /\ doubtful = {}
    BY <1>1, <1>split, Zenon
  <2> QED  BY <2>1, <1>5, <1>7, <1>8
<1>12. /\ r.failed > 0 <=> \E e \in DOMAIN facet : facet[e] = "broken"
       /\ r.indeterminate > 0 <=> \E e \in DOMAIN facet : facet[e] \in {"missing", "unrecognised"}
  BY <1>2, <1>5, <1>7, <1>8
<1> HIDE DEF r
<1> QED  BY <1>8, <1>9, <1>10, <1>11, <1>12 DEF OfFacet, r

\* What the sums over some requirements of a specification say of them.
JudgedOf(s, j) ==
  /\ j.requirements \in Seq(RequirementRecord)
  /\ j.passed \in Nat /\ j.failed \in Nat /\ j.indeterminate \in Nat
  /\ Len(j.requirements) <= Len(s.requirements)
  /\ \A q \in 1..Len(j.requirements) : OfFacet(j.requirements[q], s.requirements[q])
  /\ j.failed > 0 <=> \E q \in 1..Len(j.requirements) : j.requirements[q].failed > 0
  /\ j.indeterminate > 0 <=> \E q \in 1..Len(j.requirements) : j.requirements[q].indeterminate > 0

Sound(s, o) == o \in OutcomeRecord /\ o.status = Established(s) /\ Explained(s, o)

LEMMA JudgeIsSound ==
  ASSUME Model!ConstantsAssumption, NEW s \in Model!Specification, Model!LookedAt(s),
         NEW failed \in Nat, NEW indeterminate \in Nat,
         failed > 0 <=> Says(s, {"broken"}),
         indeterminate > 0 <=> Says(s, {"missing", "unrecognised"})
  PROVE  LET judgement == Model!Judge(s, failed, indeterminate)
         IN  /\ judgement.status \in Verdicts /\ judgement.reason \in ReasonCodes \cup {None}
             /\ judgement.applicability \in {"applies", "does_not_apply", "undetermined"}
             /\ judgement.status = Established(s)
             /\ EstablishedNothing(judgement.reason) <=>
                  judgement.status = "indeterminate"
                    /\ (s.schema => ~Says(s, {"missing", "unrecognised"}))
             /\ (\E q \in DOMAIN s.requirements : s.requirements[q] = <<>>) => judgement.reason # None
             /\ ~s.schema => judgement.reason # None /\ judgement.applicability = "undetermined"
<1> DEFINE doubted == Says(s, {"missing", "unrecognised"})
           bare == \E q \in DOMAIN s.requirements : s.requirements[q] = <<>>
<1>1. /\ s.cardinality \in {"required", "optional", "prohibited"} /\ s.schema \in BOOLEAN
      /\ s.matched \in Nat /\ s.requirements \in Seq(Seq(Model!Reason))
  BY DEF Model!Specification
<1>2. None \notin ReasonCodes
  BY DEF Model!ConstantsAssumption, ReasonCodes
<1>3. s.schema => \A q \in DOMAIN s.requirements : s.requirements[q] \in Seq(Model!Reason)
                    /\ Len(s.requirements[q]) = s.matched
  BY <1>1 DEF Model!LookedAt
<1>4. s.schema /\ s.matched = 0 => ~doubted
  <2> SUFFICES ASSUME s.schema, s.matched = 0, NEW q \in DOMAIN s.requirements,
                      NEW e \in DOMAIN s.requirements[q]
               PROVE  FALSE
    BY DEF Says
  <2> QED  BY <1>3
<1>5. s.schema /\ bare => s.matched = 0
  <2> SUFFICES ASSUME s.schema, NEW q \in DOMAIN s.requirements, s.requirements[q] = <<>>
               PROVE  s.matched = 0
    OBVIOUS
  <2> QED  BY <1>3
<1>6. s.requirements = <<>> => ~doubted /\ ~Says(s, {"broken"}) /\ ~bare
  BY DEF Says
<1> DEFINE judgement == Model!Judge(s, failed, indeterminate)
<1> HIDE DEF doubted, bare
<1>7. /\ judgement.status \in Verdicts /\ judgement.reason \in ReasonCodes \cup {None}
      /\ judgement.applicability \in {"applies", "does_not_apply", "undetermined"}
      /\ judgement.status = Established(s)
      /\ EstablishedNothing(judgement.reason) <=>
           judgement.status = "indeterminate" /\ (s.schema => ~doubted)
      /\ bare => judgement.reason # None
      /\ ~s.schema => judgement.reason # None /\ judgement.applicability = "undetermined"
  <2> USE <1>1, <1>2 DEF Model!Judge, Model!Judgement, Verdicts, ReasonCodes, Established, EstablishedNothing
  <2>1. CASE ~s.schema
    BY <2>1
  <2>2. CASE s.schema /\ s.matched = 0
    <3>1. ~doubted
      BY <2>2, <1>4
    <3>2. CASE s.cardinality = "required"
      BY <2>2, <3>1, <3>2
    <3>3. CASE s.cardinality = "prohibited"
      BY <2>2, <3>1, <3>3
    <3>4. CASE s.cardinality = "optional"
      BY <2>2, <3>1, <3>4
    <3> QED  BY <3>2, <3>3, <3>4
  <2>3. CASE s.schema /\ s.matched > 0 /\ s.cardinality = "prohibited"
    BY <2>3, <1>5
  <2>4. CASE s.schema /\ s.matched > 0 /\ s.cardinality = "optional" /\ s.requirements = <<>>
    <3>1. failed = 0 /\ indeterminate = 0 /\ ~doubted /\ ~bare
      BY <2>4, <1>6 DEF doubted
    <3>2. ~Says(s, {"broken"}) /\ ~Says(s, {"missing", "unrecognised"})
      BY <2>4, <1>6 DEF doubted
    <3> QED  BY <2>4, <3>1, <3>2
  <2>5. CASE s.schema /\ s.matched > 0 /\ s.cardinality # "prohibited"
             /\ ~(s.cardinality = "optional" /\ s.requirements = <<>>)
    <3>1. ~bare
      BY <2>5, <1>5
    <3>2. judgement = Model!Judgement("applies", Model!Aggregate(s.matched, failed, indeterminate), None)
      BY <2>5
    <3>3. judgement.status = Model!Aggregate(s.matched, failed, indeterminate)
          /\ judgement.reason = None /\ judgement.applicability = "applies"
      BY <3>2
    <3>4. Established(s) = IF Says(s, {"broken"}) THEN "fail" ELSE IF doubted THEN "indeterminate" ELSE "pass"
      BY <2>5 DEF doubted
    <3>5. judgement.status = Established(s)
      BY <3>3, <3>4, <2>5 DEF Model!Aggregate, doubted
    <3>6. judgement.status = "indeterminate" => doubted
      BY <3>4, <3>5
    <3>7. judgement.status \in Verdicts
      BY <3>4, <3>5
    <3>8. ~EstablishedNothing(judgement.reason)
      BY <3>3
    <3> HIDE DEF judgement
    <3> QED  BY <2>5, <3>1, <3>3, <3>5, <3>6, <3>7, <3>8
  <2> QED  BY <2>1, <2>2, <2>3, <2>4, <2>5
<1> HIDE DEF judgement
<1> QED  BY <1>7 DEF doubted, bare, judgement

LEMMA BackfillKeepsCounts ==
  ASSUME NEW r \in RequirementRecord, NEW judgement,
         judgement.reason \in ReasonCodes \cup {None}
  PROVE  LET b == Model!Backfill(r, judgement)
         IN  /\ b \in RequirementRecord
             /\ b.passed = r.passed /\ b.failed = r.failed /\ b.indeterminate = r.indeterminate
             /\ b.status = r.status /\ b.listed = r.listed /\ b.omitted = r.omitted
             /\ b.reason = IF Model!Silent(r) THEN judgement.reason ELSE r.reason
             /\ b.caveat = IF ~Model!Silent(r) /\ judgement.applicability = "undetermined"
                           THEN judgement.reason ELSE r.caveat
<1> DEFINE reason == [r EXCEPT !.reason = judgement.reason]
           caveat == [r EXCEPT !.caveat = judgement.reason]
<1>1. /\ reason \in RequirementRecord /\ reason.reason = judgement.reason /\ reason.caveat = r.caveat
      /\ reason.passed = r.passed /\ reason.failed = r.failed /\ reason.indeterminate = r.indeterminate
      /\ reason.status = r.status /\ reason.listed = r.listed /\ reason.omitted = r.omitted
  BY DEF RequirementRecord
<1>2. /\ caveat \in RequirementRecord /\ caveat.caveat = judgement.reason /\ caveat.reason = r.reason
      /\ caveat.passed = r.passed /\ caveat.failed = r.failed /\ caveat.indeterminate = r.indeterminate
      /\ caveat.status = r.status /\ caveat.listed = r.listed /\ caveat.omitted = r.omitted
  BY DEF RequirementRecord
<1>3. Model!Backfill(r, judgement) =
        IF Model!Silent(r) THEN reason
        ELSE IF judgement.applicability = "undetermined" THEN caveat ELSE r
  BY DEF Model!Backfill
<1> HIDE DEF reason, caveat
<1> QED  BY <1>1, <1>2, <1>3

LEMMA OutcomeIsSound ==
  ASSUME Model!ConstantsAssumption, NEW s \in Model!Specification, Model!LookedAt(s),
         NEW j, JudgedOf(s, j), Len(j.requirements) = Len(s.requirements)
  PROVE  Sound(s, Model!Outcome(s, j))
<1> DEFINE judgement == Model!Judge(s, j.failed, j.indeterminate)
           o == Model!Outcome(s, j)
<1>1. /\ j.requirements \in Seq(RequirementRecord)
      /\ j.passed \in Nat /\ j.failed \in Nat /\ j.indeterminate \in Nat
      /\ DOMAIN j.requirements = 1..Len(j.requirements)
      /\ DOMAIN j.requirements = DOMAIN s.requirements
  BY DEF JudgedOf, Model!Specification
<1>2. /\ j.failed > 0 <=> Says(s, {"broken"})
      /\ j.indeterminate > 0 <=> Says(s, {"missing", "unrecognised"})
  BY <1>1 DEF JudgedOf, OfFacet, Says
<1>3. /\ judgement.status \in Verdicts /\ judgement.reason \in ReasonCodes \cup {None}
      /\ judgement.applicability \in {"applies", "does_not_apply", "undetermined"}
      /\ judgement.status = Established(s)
      /\ EstablishedNothing(judgement.reason) <=>
           judgement.status = "indeterminate" /\ (s.schema => ~Says(s, {"missing", "unrecognised"}))
      /\ (\E q \in DOMAIN s.requirements : s.requirements[q] = <<>>) => judgement.reason # None
      /\ ~s.schema => judgement.reason # None /\ judgement.applicability = "undetermined"
  BY <1>1, <1>2, JudgeIsSound
<1> DEFINE filled == [q \in DOMAIN j.requirements |-> Model!Backfill(j.requirements[q], judgement)]
<1> HIDE DEF judgement
<1>4. ASSUME NEW q \in DOMAIN j.requirements
      PROVE  LET r == filled[q]
             IN  /\ r \in RequirementRecord
                 /\ r.status = "pass" => r.passed > 0
                 /\ r.status = "indeterminate" /\ r.indeterminate = 0 => r.reason # None
                 /\ ~s.schema => r.reason # None \/ r.caveat # None
                 /\ r.listed + r.omitted = r.failed + r.indeterminate
  <2> DEFINE r == j.requirements[q]
             b == Model!Backfill(r, judgement)
  <2>1. r \in RequirementRecord /\ OfFacet(r, s.requirements[q])
    BY <1>1 DEF JudgedOf
  <2>2. /\ b \in RequirementRecord
        /\ b.passed = r.passed /\ b.failed = r.failed /\ b.indeterminate = r.indeterminate
        /\ b.status = r.status /\ b.listed = r.listed /\ b.omitted = r.omitted
        /\ b.reason = IF Model!Silent(r) THEN judgement.reason ELSE r.reason
        /\ b.caveat = IF ~Model!Silent(r) /\ judgement.applicability = "undetermined"
                      THEN judgement.reason ELSE r.caveat
    BY <2>1, <1>3, BackfillKeepsCounts
  <2>3. r.passed \in Nat /\ r.failed \in Nat /\ r.indeterminate \in Nat
    BY <2>1 DEF RequirementRecord
  <2>4. Model!Silent(r) <=> s.requirements[q] = <<>>
    BY <2>1 DEF OfFacet, Model!Silent
  <2>5. Model!Silent(r) => judgement.reason # None
    BY <2>4, <1>1, <1>3
  <2>6. r.status = "pass" => r.passed > 0
    BY <2>1, <2>3 DEF OfFacet, Model!Aggregate
  <2>7. r.status = "indeterminate" /\ r.indeterminate = 0 => Model!Silent(r)
    BY <2>1, <2>3 DEF OfFacet, Model!Aggregate, Model!Silent
  <2>8. r.listed + r.omitted = r.failed + r.indeterminate
    BY <2>1 DEF OfFacet
  <2>9. filled[q] = b
    OBVIOUS
  <2> HIDE DEF b, r, filled
  <2> QED  BY <2>2, <2>5, <2>6, <2>7, <2>8, <2>9, <1>3
<1>5. filled \in Seq(RequirementRecord) /\ DOMAIN filled = DOMAIN s.requirements
  <2>1. DOMAIN filled = 1..Len(j.requirements) /\ DOMAIN filled = DOMAIN s.requirements
    BY <1>1
  <2>2. \A q \in DOMAIN filled : filled[q] \in RequirementRecord
    BY <1>4
  <2>3. filled = [q \in DOMAIN filled |-> filled[q]] /\ Len(j.requirements) \in Nat
    BY <1>1
  <2> HIDE DEF filled
  <2>4. filled \in [1..Len(j.requirements) -> RequirementRecord]
    BY <2>1, <2>2, <2>3
  <2> QED  BY <2>1, <2>3, <2>4
<1>6. /\ o.status = judgement.status /\ o.reason = judgement.reason
      /\ o.requirements = filled
  BY DEF Model!Outcome, judgement
<1>7. o = [status |-> judgement.status, reason |-> judgement.reason,
           applicability |-> judgement.applicability,
           passed |-> j.passed, failed |-> j.failed, indeterminate |-> j.indeterminate,
           requirements |-> filled]
  BY DEF Model!Outcome, judgement
<1> HIDE DEF filled, o
<1>8. o \in OutcomeRecord
  BY <1>1, <1>3, <1>5, <1>7 DEF OutcomeRecord
<1>9. Explained(s, o)
  BY <1>3, <1>4, <1>5, <1>6 DEF Explained
<1> QED  BY <1>3, <1>6, <1>8, <1>9 DEF Sound, o

\* What the counts of a report say of its specifications.
OfSpecifications(r) ==
  /\ r.passed > 0 <=> \E i \in DOMAIN r.specifications : r.specifications[i].status = "pass"
  /\ r.failed > 0 <=> \E i \in DOMAIN r.specifications : r.specifications[i].status = "fail"
  /\ r.indeterminate > 0 <=>
       \E i \in DOMAIN r.specifications : r.specifications[i].status = "indeterminate"
  /\ r.passed + r.failed + r.indeterminate = Len(r.specifications)

LEMMA ReportIsOfSpecifications ==
  ASSUME NEW xs \in Seq(OutcomeRecord)
  PROVE  /\ Model!Report(xs) \in PackReport /\ Model!Report(xs).specifications = xs
         /\ OfSpecifications(Model!Report(xs))
<1> DEFINE all == DOMAIN xs
           With(x) == {i \in all : xs[i].status = x}
           r == Model!Report(xs)
<1>1. all = 1..Len(xs) /\ Len(xs) \in Nat /\ IsFiniteSet(all) /\ Cardinality(all) = Len(xs)
  <2>1. all = 1..Len(xs) /\ Len(xs) \in Nat
    OBVIOUS
  <2> QED  BY <2>1, FS_Interval
<1>2. \A i \in all : xs[i].status \in Verdicts
  <2>1. \A i \in all : xs[i] \in OutcomeRecord
    OBVIOUS
  <2> QED  BY <2>1 DEF OutcomeRecord
<1>3. ASSUME NEW x PROVE /\ IsFiniteSet(With(x)) /\ Cardinality(With(x)) \in Nat
                         /\ Cardinality(With(x)) > 0 <=> \E i \in all : xs[i].status = x
  <2>1. IsFiniteSet(With(x))
    <3>1. With(x) \in SUBSET all
      OBVIOUS
    <3> QED  BY <3>1, <1>1, FS_Subset
  <2>2. Cardinality(With(x)) \in Nat /\ (Cardinality(With(x)) = 0 <=> With(x) = {})
    BY <2>1, FS_CardinalityType, FS_EmptySet
  <2>3. With(x) = {} <=> ~\E i \in all : xs[i].status = x
    OBVIOUS
  <2> HIDE DEF With, all
  <2> QED  BY <2>1, <2>2, <2>3
<1>4. /\ Cardinality(With("pass") \cup With("fail")) = Cardinality(With("pass")) + Cardinality(With("fail"))
      /\ IsFiniteSet(With("pass") \cup With("fail"))
  <2>1. With("pass") \cap With("fail") = {}
    OBVIOUS
  <2>2. Cardinality(With("pass") \cap With("fail")) = 0
    BY <2>1, FS_EmptySet
  <2>3. /\ IsFiniteSet(With("pass")) /\ IsFiniteSet(With("fail"))
        /\ Cardinality(With("pass")) \in Nat /\ Cardinality(With("fail")) \in Nat
    BY <1>3
  <2> HIDE DEF With
  <2> DEFINE a == With("pass")
             b == With("fail")
  <2> HIDE DEF a, b
  <2>4. IsFiniteSet(a \cup b) /\ Cardinality(a \cup b) = Cardinality(a) + Cardinality(b) - Cardinality(a \cap b)
    BY <2>3, FS_Union DEF a, b
  <2> QED  BY <2>2, <2>3, <2>4 DEF a, b
<1>5. Cardinality((With("pass") \cup With("fail")) \cup With("indeterminate"))
        = Cardinality(With("pass")) + Cardinality(With("fail")) + Cardinality(With("indeterminate"))
  <2>1. (With("pass") \cup With("fail")) \cap With("indeterminate") = {}
    OBVIOUS
  <2>2. Cardinality((With("pass") \cup With("fail")) \cap With("indeterminate")) = 0
    BY <2>1, FS_EmptySet
  <2>3. /\ IsFiniteSet(With("indeterminate")) /\ Cardinality(With("indeterminate")) \in Nat
        /\ Cardinality(With("pass")) \in Nat /\ Cardinality(With("fail")) \in Nat
    BY <1>3
  <2> HIDE DEF With
  <2> DEFINE a == With("pass") \cup With("fail")
             b == With("indeterminate")
  <2> HIDE DEF a, b
  <2>4. Cardinality(a \cup b) = Cardinality(a) + Cardinality(b) - Cardinality(a \cap b)
    BY <1>4, <2>3, FS_Union DEF a, b
  <2> QED  BY <1>4, <2>2, <2>3, <2>4 DEF a, b
<1>6. (With("pass") \cup With("fail")) \cup With("indeterminate") = all
  <2> HIDE DEF all
  <2> QED  BY <1>2 DEF Verdicts
<1>7. Cardinality(With("pass")) + Cardinality(With("fail")) + Cardinality(With("indeterminate")) = Len(xs)
  <2> HIDE DEF With, all
  <2>1. Cardinality((With("pass") \cup With("fail")) \cup With("indeterminate")) = Cardinality(all)
    BY <1>6, Zenon
  <2> QED  BY <2>1, <1>1, <1>5
<1>8. /\ r.passed = Cardinality(With("pass")) /\ r.failed = Cardinality(With("fail"))
      /\ r.indeterminate = Cardinality(With("indeterminate"))
      /\ r.status = Model!Aggregate(r.passed, r.failed, r.indeterminate)
      /\ r.specifications = xs
  BY CardinalityOfModel DEF Model!Report, Model!Count
<1>9. r = [passed |-> r.passed, failed |-> r.failed, indeterminate |-> r.indeterminate,
           status |-> r.status, specifications |-> r.specifications]
  BY DEF Model!Report
<1> HIDE DEF r, With
<1>10. r.passed \in Nat /\ r.failed \in Nat /\ r.indeterminate \in Nat
  BY <1>3, <1>8
<1>11. r.status \in Verdicts
  BY <1>8, <1>10, AggregateOfModel
<1>12. r \in PackReport
  BY <1>8, <1>9, <1>10, <1>11 DEF PackReport
<1> QED  BY <1>3, <1>7, <1>8, <1>12 DEF OfSpecifications, r

\* The places of a pack follow those of the packs before it.
Packs == Seq(Seq(Model!Specification))

LEMMA BeforeGrows ==
  ASSUME selection \in Packs, NEW k \in 1..Len(selection), IsFiniteSet(Before(k))
  PROVE  /\ IsFiniteSet(Before(k + 1))
         /\ Cardinality(Before(k)) \in Nat
         /\ Cardinality(Before(k + 1)) = Cardinality(Before(k)) + Len(selection[k])
<1> DEFINE own == {k} \X DOMAIN selection[k]
<1>1. DOMAIN selection[k] = 1..Len(selection[k]) /\ Len(selection[k]) \in Nat
  BY DEF Packs
<1>2. IsFiniteSet(DOMAIN selection[k]) /\ Cardinality(DOMAIN selection[k]) = Len(selection[k])
  <2>1. \A m \in Nat : IsFiniteSet(1..m) /\ Cardinality(1..m) = m
    BY FS_Interval
  <2> QED  BY <1>1, <2>1
<1>3. IsFiniteSet({k}) /\ Cardinality({k}) = 1
  BY FS_Singleton
<1>4. IsFiniteSet(own) /\ Cardinality(own) = Cardinality({k}) * Cardinality(DOMAIN selection[k])
  BY <1>2, <1>3, FS_Product
<1>5. Cardinality(own) = Len(selection[k])
  BY <1>1, <1>2, <1>3, <1>4
<1>6. Before(k + 1) = Before(k) \cup own
  <2>1. ASSUME NEW x PROVE x \in Before(k + 1) <=> x \in Before(k) \/ x \in own
    <3>1. (k + 1) - 1 = k /\ k \in Nat
      OBVIOUS
    <3>2. \A m : x \in Before(m) <=> \E j \in 1..m - 1 : x \in {j} \X DOMAIN selection[j]
      BY DEF Before
    <3>3. \A j : j \in 1..(k + 1) - 1 <=> j \in 1..k - 1 \/ j = k
      BY <3>1
    <3> QED  BY <3>2, <3>3
  <2> HIDE DEF own
  <2> QED  BY <2>1
<1>7. Before(k) \cap own = {}
  <2> SUFFICES ASSUME NEW x \in Before(k), x \in own PROVE FALSE
    OBVIOUS
  <2>1. PICK j \in 1..k - 1 : x \in {j} \X DOMAIN selection[j]
    BY DEF Before
  <2>2. x[1] = j /\ x[1] = k
    BY <2>1
  <2> QED  BY <2>2
<1>8. Cardinality(Before(k) \cap own) = 0
  BY <1>7, FS_EmptySet
<1> HIDE DEF own
<1>9. Cardinality(Before(k)) \in Nat
  BY FS_CardinalityType
<1>10. /\ IsFiniteSet(Before(k) \cup own)
       /\ Cardinality(Before(k) \cup own) = Cardinality(Before(k)) + Cardinality(own) - Cardinality(Before(k) \cap own)
  BY <1>4, FS_Union
<1>11. IsFiniteSet(Before(k + 1)) /\ Cardinality(Before(k + 1)) = Cardinality(Before(k) \cup own)
  BY <1>6, <1>10, Zenon
<1> QED  BY <1>1, <1>5, <1>8, <1>9, <1>10, <1>11

LEMMA PlaceIsWithin ==
  ASSUME selection \in Packs, NEW n \in Nat, n <= Len(selection), IsFiniteSet(Before(n + 1)),
         NEW k \in 1..n, NEW i \in 1..Len(selection[k])
  PROVE  Place(k, i) \in 1..Cardinality(Before(n + 1))
<1>1. Before(k + 1) \subseteq Before(n + 1) /\ Before(k) \subseteq Before(n + 1)
  <2>1. 1..(k + 1) - 1 \subseteq 1..(n + 1) - 1 /\ 1..k - 1 \subseteq 1..(n + 1) - 1
    OBVIOUS
  <2> QED  BY <2>1 DEF Before
<1>2. IsFiniteSet(Before(k + 1)) /\ IsFiniteSet(Before(k))
  BY <1>1, FS_Subset
<1>3. Cardinality(Before(k + 1)) <= Cardinality(Before(n + 1))
  BY <1>1, FS_Subset
<1>4. /\ Cardinality(Before(k)) \in Nat
      /\ Cardinality(Before(k + 1)) = Cardinality(Before(k)) + Len(selection[k])
  BY <1>2, BeforeGrows
<1>5. Cardinality(Before(n + 1)) \in Nat /\ Len(selection[k]) \in Nat
  BY FS_CardinalityType DEF Packs
<1> QED  BY <1>3, <1>4, <1>5 DEF Place

LEMMA PlacesStay ==
  ASSUME selection' = selection
  PROVE  /\ \A k : Before(k)' = Before(k)
         /\ \A k, i : Place(k, i)' = Place(k, i)
<1>1. \A k : Before(k)' = Before(k)
  BY DEF Before
<1> QED  BY <1>1 DEF Place

LEMMA NothingBefore ==
  IsFiniteSet(Before(1)) /\ Cardinality(Before(1)) = 0
<1>1. Before(1) = {}
  <2>1. 1..1 - 1 = {}
    OBVIOUS
  <2> QED  BY <2>1 DEF Before
<1> QED  BY <1>1, FS_EmptySet

\* What is laid after a sequence is at its end, and leaves what is in it.
LEMMA LaidAfter ==
  ASSUME NEW S, NEW s, NEW t, s \in Seq(S), t \in Seq(S)
  PROVE  /\ s \o t \in Seq(S) /\ Len(s \o t) = Len(s) + Len(t)
         /\ \A i \in 1..Len(s) : (s \o t)[i] = s[i]
         /\ \A i \in 1..Len(t) : (s \o t)[Len(s) + i] = t[i]
OBVIOUS

JudgingIsSound ==
  /\ reports \in Seq(PackReport) /\ Len(reports) <= Len(selection)
  /\ outcomes \in Seq(OutcomeRecord)
  /\ Len(reports) < Len(selection) =>
       /\ Len(outcomes) <= Len(Model!Pack)
       /\ \A i \in 1..Len(outcomes) : Sound(Model!Pack[i], outcomes[i])
  /\ Len(reports) = Len(selection) => outcomes = <<>>
  /\ IF Model!UnderWay THEN JudgedOf(Model!Subject, judged) ELSE judged = Model!NothingJudged

SoundReport(r, pack) ==
  /\ Len(r.specifications) = Len(pack)
  /\ \A i \in 1..Len(pack) : Sound(pack[i], r.specifications[i])
  /\ OfSpecifications(r)

ReportsAreSound == \A k \in 1..Len(reports) : SoundReport(reports[k], selection[k])

\* The report of the run, of as many reports as it has combined.
SumsAreOfReports ==
  /\ combined.passed \in Nat /\ combined.failed \in Nat /\ combined.indeterminate \in Nat
  /\ combined.passed + combined.failed + combined.indeterminate = Len(combined.specifications)
  /\ combined.passed > 0 <=> \E k \in 1..combined.reports : reports[k].passed > 0
  /\ combined.failed > 0 <=> \E k \in 1..combined.reports : reports[k].failed > 0
  /\ combined.indeterminate > 0 <=> \E k \in 1..combined.reports : reports[k].indeterminate > 0

CombinedInOrder ==
  /\ combined.reports \in Nat /\ combined.reports <= Len(reports)
  /\ combined.reports > 0 => Len(reports) = Len(selection)
  /\ combined.specifications \in Seq(OutcomeRecord)
  /\ IsFiniteSet(Before(combined.reports + 1))
  /\ Len(combined.specifications) = Cardinality(Before(combined.reports + 1))
  /\ \A k \in 1..combined.reports : \A i \in 1..Len(selection[k]) :
       combined.specifications[Place(k, i)] = reports[k].specifications[i]
  /\ combined.status # None =>
       /\ combined.reports = Len(selection)
       /\ combined.status = Model!Aggregate(combined.passed, combined.failed, combined.indeterminate)

AttributedRecord == [outcome : OutcomeRecord, pack : Nat]
AttributedInOrder ==
  /\ attributed.reports \in Nat /\ attributed.reports <= Len(reports)
  /\ attributed.reports > 0 => combined.status # None
  /\ attributed.specifications \in Seq(AttributedRecord)
  /\ Len(attributed.specifications) = Cardinality(Before(attributed.reports + 1))
  /\ \A k \in 1..attributed.reports : \A i \in 1..Len(selection[k]) :
       attributed.specifications[Place(k, i)] = [outcome |-> reports[k].specifications[i], pack |-> k]

VerdictInvariant ==
  /\ selection \in Selections /\ JudgingIsSound /\ ReportsAreSound
  /\ SumsAreOfReports /\ CombinedInOrder /\ AttributedInOrder

LEMMA SelectionIsPacks ==
  ASSUME Model!ConstantsAssumption, selection \in Selections
  PROVE  /\ selection \in Packs /\ Len(selection) \in Nat \ {0}
         /\ \A k \in 1..Len(selection) :
              /\ selection[k] \in Seq(Model!Specification) /\ Len(selection[k]) \in Nat \ {0}
              /\ \A i \in 1..Len(selection[k]) :
                   selection[k][i] \in Model!Specification /\ Model!LookedAt(selection[k][i])
<1>1. /\ selection \in Packs /\ selection # <<>>
      /\ \A k \in DOMAIN selection :
           selection[k] # <<>> /\ \A i \in DOMAIN selection[k] : Model!LookedAt(selection[k][i])
  BY DEF Model!ConstantsAssumption, Packs
<1>2. \A k \in DOMAIN selection : selection[k] \in Seq(Model!Specification)
  BY <1>1 DEF Packs
<1>3. DOMAIN selection = 1..Len(selection) /\ Len(selection) \in Nat \ {0}
  BY <1>1 DEF Packs
<1>4. \A k \in DOMAIN selection : DOMAIN selection[k] = 1..Len(selection[k]) /\ Len(selection[k]) \in Nat \ {0}
  BY <1>1, <1>2
<1>5. \A k \in DOMAIN selection : \A i \in 1..Len(selection[k]) : selection[k][i] \in Model!Specification
  BY <1>2
<1> QED  BY <1>1, <1>2, <1>3, <1>4, <1>5

\* A specification of which no requirement has been looked at yet.
LEMMA NothingJudgedYet ==
  ASSUME NEW s \in Model!Specification
  PROVE  JudgedOf(s, Model!NothingJudged)
<1>1. Len(s.requirements) \in Nat
  BY DEF Model!Specification
<1> QED  BY <1>1 DEF JudgedOf, Model!NothingJudged

LEMMA VerdictInit ==
  Model!ConstantsAssumption /\ Model!Init => VerdictInvariant
<1> SUFFICES ASSUME Model!ConstantsAssumption, Model!Init PROVE VerdictInvariant
  OBVIOUS
<1>1. /\ selection \in Selections /\ reports = <<>> /\ outcomes = <<>>
      /\ judged = Model!NothingJudged
      /\ combined.reports = 0 /\ combined.status = None /\ combined.specifications = <<>>
      /\ combined.passed = 0 /\ combined.failed = 0 /\ combined.indeterminate = 0
      /\ attributed.reports = 0 /\ attributed.specifications = <<>>
  BY DEF Model!Init
<1>2. /\ Len(selection) \in Nat \ {0}
      /\ selection[1] \in Seq(Model!Specification) /\ Len(selection[1]) \in Nat \ {0}
      /\ selection[1][1] \in Model!Specification
  BY <1>1, SelectionIsPacks
<1>3. JudgingIsSound
  <2>1. Model!Pack = selection[1] /\ Model!Subject = selection[1][1] /\ Model!UnderWay
    BY <1>1, <1>2 DEF Model!Pack, Model!Subject, Model!UnderWay
  <2>2. JudgedOf(Model!Subject, judged)
    BY <1>1, <1>2, <2>1, NothingJudgedYet
  <2> QED  BY <1>1, <1>2, <2>1, <2>2 DEF JudgingIsSound
<1>4. ReportsAreSound
  BY <1>1 DEF ReportsAreSound
<1>5. SumsAreOfReports
  BY <1>1 DEF SumsAreOfReports
<1>6. CombinedInOrder
  BY <1>1, NothingBefore DEF CombinedInOrder
<1>7. AttributedInOrder
  BY <1>1, NothingBefore DEF AttributedInOrder
<1> QED  BY <1>1, <1>3, <1>4, <1>5, <1>6, <1>7 DEF VerdictInvariant

\* While packs are being judged nothing is combined.
LEMMA JudgingLeavesTheReport ==
  ASSUME SumsAreOfReports, CombinedInOrder, AttributedInOrder, Len(reports) < Len(selection),
         reports \in Seq(PackReport), Len(selection) \in Nat,
         UNCHANGED <<selection, combined, attributed>>, reports' \in Seq(PackReport)
  PROVE  SumsAreOfReports' /\ CombinedInOrder' /\ AttributedInOrder'
<1>1. combined.reports = 0 /\ combined.status = None
  BY DEF CombinedInOrder
<1>2. attributed.reports = 0
  BY <1>1 DEF AttributedInOrder
<1>3. Len(reports') \in Nat
  OBVIOUS
<1>4. SumsAreOfReports'
  BY <1>1 DEF SumsAreOfReports
<1>5. CombinedInOrder'
  BY <1>1, <1>3, PlacesStay DEF CombinedInOrder
<1>6. AttributedInOrder'
  BY <1>1, <1>2, <1>3, PlacesStay DEF AttributedInOrder
<1> QED  BY <1>4, <1>5, <1>6

LEMMA JudgeRequirementKeeps ==
  ASSUME Model!ConstantsAssumption, VerdictInvariant, Model!JudgeRequirement
  PROVE  VerdictInvariant'
<1> USE DEF VerdictInvariant
<1> DEFINE s == selection[Len(reports) + 1][Len(outcomes) + 1]
           n == Len(judged.requirements)
           r == Model!Requirement(s.requirements[n + 1])
<1>1. /\ Model!UnderWay /\ Model!Subject = s /\ n < Len(s.requirements)
      /\ Model!Pack = selection[Len(reports) + 1]
      /\ judged' = [requirements |-> Append(judged.requirements, r), passed |-> judged.passed + r.passed,
                    failed |-> judged.failed + r.failed,
                    indeterminate |-> judged.indeterminate + r.indeterminate]
      /\ UNCHANGED <<selection, outcomes, reports, combined, attributed>>
  BY DEF Model!JudgeRequirement, Model!Subject, Model!Pack
<1>2. Len(reports) < Len(selection) /\ Len(outcomes) < Len(selection[Len(reports) + 1])
      /\ Len(reports) \in Nat /\ Len(outcomes) \in Nat
  BY <1>1 DEF Model!UnderWay, JudgingIsSound
<1>3. s \in Model!Specification
  BY <1>2, SelectionIsPacks
<1>4. JudgedOf(s, judged)
  BY <1>1 DEF JudgingIsSound
<1>5. n \in Nat /\ n + 1 \in 1..Len(s.requirements) /\ s.requirements \in Seq(Seq(Model!Reason))
  <2>1. s.requirements \in Seq(Seq(Model!Reason))
    BY <1>3 DEF Model!Specification
  <2>2. n \in Nat
    BY <1>4 DEF JudgedOf
  <2>3. Len(s.requirements) \in Nat
    BY <2>1
  <2>4. \A k, m \in Nat : k < m => k + 1 \in 1..m
    OBVIOUS
  <2>5. n + 1 \in 1..Len(s.requirements)
    BY <1>1, <2>2, <2>3, <2>4
  <2> QED  BY <2>1, <2>2, <2>5
<1>6. r \in RequirementRecord /\ OfFacet(r, s.requirements[n + 1])
  <2>1. \A q \in 1..Len(s.requirements) : s.requirements[q] \in Seq(Model!Reason)
    BY <1>5
  <2>2. s.requirements[n + 1] \in Seq(Model!Reason)
    BY <1>5, <2>1
  <2> QED  BY <2>2, RequirementIsOfFacet
<1>7. JudgedOf(s, judged')
  <2> HIDE DEF r, s
  <2>1. /\ judged.requirements \in Seq(RequirementRecord)
        /\ judged.passed \in Nat /\ judged.failed \in Nat /\ judged.indeterminate \in Nat
        /\ r.passed \in Nat /\ r.failed \in Nat /\ r.indeterminate \in Nat
    BY <1>4, <1>6 DEF JudgedOf, RequirementRecord
  <2>2. /\ judged'.requirements = Append(judged.requirements, r)
        /\ judged'.passed = judged.passed + r.passed /\ judged'.failed = judged.failed + r.failed
        /\ judged'.indeterminate = judged.indeterminate + r.indeterminate
    BY <1>1
  <2>3. /\ judged'.requirements \in Seq(RequirementRecord)
        /\ Len(judged'.requirements) = n + 1 /\ judged'.requirements[n + 1] = r
        /\ \A q \in 1..n : judged'.requirements[q] = judged.requirements[q]
    BY <2>1, <2>2, <1>6
  <2>4. \A q \in 1..n + 1 : q \in 1..n \/ q = n + 1
    BY <1>5
  <2>5. 1..n \subseteq 1..n + 1 /\ n + 1 \in 1..n + 1
    BY <1>5
  <2>6. \A q \in 1..n + 1 : OfFacet(judged'.requirements[q], s.requirements[q])
    BY <2>3, <2>4, <1>4, <1>6 DEF JudgedOf
  <2>7. judged'.failed > 0 <=> \E q \in 1..n + 1 : judged'.requirements[q].failed > 0
    <3>1. judged.failed > 0 <=> \E q \in 1..n : judged.requirements[q].failed > 0
      BY <1>4 DEF JudgedOf
    <3>2. judged'.failed > 0 <=> judged.failed > 0 \/ r.failed > 0
      BY <2>1, <2>2
    <3>3. (\E q \in 1..n + 1 : judged'.requirements[q].failed > 0)
            <=> (\E q \in 1..n : judged.requirements[q].failed > 0) \/ r.failed > 0
      <4> HIDE DEF n
      <4> QED  BY <2>3, <2>4, <2>5
    <3> QED  BY <3>1, <3>2, <3>3
  <2>8. judged'.indeterminate > 0 <=> \E q \in 1..n + 1 : judged'.requirements[q].indeterminate > 0
    <3>1. judged.indeterminate > 0 <=> \E q \in 1..n : judged.requirements[q].indeterminate > 0
      BY <1>4 DEF JudgedOf
    <3>2. judged'.indeterminate > 0 <=> judged.indeterminate > 0 \/ r.indeterminate > 0
      BY <2>1, <2>2
    <3>3. (\E q \in 1..n + 1 : judged'.requirements[q].indeterminate > 0)
            <=> (\E q \in 1..n : judged.requirements[q].indeterminate > 0) \/ r.indeterminate > 0
      <4> HIDE DEF n
      <4> QED  BY <2>3, <2>4, <2>5
    <3> QED  BY <3>1, <3>2, <3>3
  <2>9. n + 1 <= Len(s.requirements)
    BY <1>5
  <2>10. judged'.passed \in Nat /\ judged'.failed \in Nat /\ judged'.indeterminate \in Nat
    <3>1. \A x, y \in Nat : x + y \in Nat
      OBVIOUS
    <3> QED  BY <2>1, <2>2, <3>1
  <2> HIDE DEF n
  <2> QED  BY <2>3, <2>6, <2>7, <2>8, <2>9, <2>10 DEF JudgedOf
<1>8. JudgingIsSound'
  <2>1. Model!Pack' = Model!Pack /\ Model!Subject' = s /\ Model!UnderWay'
    BY <1>1 DEF Model!Pack, Model!Subject, Model!UnderWay
  <2>2. JudgedOf(Model!Subject, judged)'
    BY <1>7, <2>1 DEF JudgedOf
  <2> QED  BY <1>1, <1>2, <2>1, <2>2 DEF JudgingIsSound
<1>9. ReportsAreSound'
  BY <1>1 DEF ReportsAreSound
<1>10. SumsAreOfReports' /\ CombinedInOrder' /\ AttributedInOrder'
  <2>1. Len(selection) \in Nat /\ reports \in Seq(PackReport)
    BY SelectionIsPacks DEF JudgingIsSound
  <2> QED  BY <1>1, <1>2, <2>1, JudgingLeavesTheReport
<1> QED  BY <1>1, <1>8, <1>9, <1>10

LEMMA JudgeNextKeeps ==
  ASSUME Model!ConstantsAssumption, VerdictInvariant, Model!JudgeNext
  PROVE  VerdictInvariant'
<1> USE DEF VerdictInvariant
<1> DEFINE p == selection[Len(reports) + 1]
           s == p[Len(outcomes) + 1]
           o == Model!Outcome(s, judged)
<1>1. /\ Model!UnderWay /\ Model!Subject = s /\ Model!Pack = p
      /\ Len(judged.requirements) = Len(s.requirements)
      /\ outcomes' = Append(outcomes, o) /\ judged' = Model!NothingJudged
      /\ UNCHANGED <<selection, reports, combined, attributed>>
  BY DEF Model!JudgeNext, Model!Subject, Model!Pack
<1>2. /\ Len(reports) < Len(selection) /\ Len(outcomes) < Len(p)
      /\ Len(reports) \in Nat /\ Len(outcomes) \in Nat
      /\ outcomes \in Seq(OutcomeRecord) /\ reports \in Seq(PackReport)
  BY <1>1 DEF Model!UnderWay, JudgingIsSound
<1>3. /\ p \in Seq(Model!Specification) /\ Len(p) \in Nat /\ Len(selection) \in Nat
      /\ \A i \in 1..Len(p) : p[i] \in Model!Specification /\ Model!LookedAt(p[i])
  BY <1>2, SelectionIsPacks
<1>4. Sound(s, o)
  <2>1. s \in Model!Specification /\ Model!LookedAt(s)
    BY <1>2, <1>3
  <2>2. JudgedOf(s, judged)
    BY <1>1 DEF JudgingIsSound
  <2> HIDE DEF s, o
  <2> QED  BY <1>1, <2>1, <2>2, OutcomeIsSound DEF o
<1>5. JudgingIsSound'
  <2> HIDE DEF o
  <2>1. o \in OutcomeRecord
    BY <1>4 DEF Sound
  <2>2. /\ outcomes' \in Seq(OutcomeRecord) /\ Len(outcomes') = Len(outcomes) + 1
        /\ outcomes'[Len(outcomes) + 1] = o
        /\ \A i \in 1..Len(outcomes) : outcomes'[i] = outcomes[i]
    BY <1>1, <1>2, <2>1
  <2>3. /\ Model!Pack' = p
        /\ Model!UnderWay' <=> Len(outcomes) + 1 < Len(p)
    BY <1>1, <1>2, <2>2 DEF Model!Pack, Model!UnderWay
  <2>4. \A i \in 1..Len(outcomes) + 1 : Sound(p[i], outcomes'[i])
    <3>1. \A i \in 1..Len(outcomes) : Sound(p[i], outcomes[i])
      BY <1>1, <1>2 DEF JudgingIsSound
    <3>2. \A i \in 1..Len(outcomes) + 1 : i \in 1..Len(outcomes) \/ i = Len(outcomes) + 1
      BY <1>2
    <3> QED  BY <3>1, <3>2, <2>2, <1>4
  <2>5. IF Model!UnderWay' THEN JudgedOf(Model!Subject', judged') ELSE judged' = Model!NothingJudged
    <3>1. CASE Model!UnderWay'
      <4>1. Model!Subject' = p[Len(outcomes) + 2]
        BY <1>1, <1>2, <2>2, <2>3 DEF Model!Subject
      <4>2. p[Len(outcomes) + 2] \in Model!Specification
        BY <3>1, <2>3, <1>2, <1>3
      <4> QED  BY <3>1, <1>1, <4>1, <4>2, NothingJudgedYet
    <3>2. CASE ~Model!UnderWay'
      BY <3>2, <1>1
    <3> QED  BY <3>1, <3>2
  <2>6. (IF Model!UnderWay THEN JudgedOf(Model!Subject, judged) ELSE judged = Model!NothingJudged)'
    BY <2>5 DEF JudgedOf, Model!NothingJudged
  <2>7. (Len(reports) < Len(selection) =>
           /\ Len(outcomes) <= Len(Model!Pack)
           /\ \A i \in 1..Len(outcomes) : Sound(Model!Pack[i], outcomes[i]))'
    <3>1. Len(outcomes') <= Len(Model!Pack')
      BY <1>2, <1>3, <2>2, <2>3
    <3>2. \A i \in 1..Len(outcomes') : Sound(Model!Pack'[i], outcomes'[i])
      BY <2>2, <2>3, <2>4
    <3> QED  BY <3>1, <3>2
  <2> QED  BY <1>1, <1>2, <2>2, <2>6, <2>7 DEF JudgingIsSound
<1>6. ReportsAreSound'
  BY <1>1 DEF ReportsAreSound
<1>7. SumsAreOfReports' /\ CombinedInOrder' /\ AttributedInOrder'
  BY <1>1, <1>2, <1>3, JudgingLeavesTheReport
<1> QED  BY <1>1, <1>5, <1>6, <1>7

LEMMA EndPackKeeps ==
  ASSUME Model!ConstantsAssumption, VerdictInvariant, Model!EndPack
  PROVE  VerdictInvariant'
<1> USE DEF VerdictInvariant
<1> DEFINE n == Len(reports)
           p == selection[n + 1]
           r == Model!Report(outcomes)
<1>1. /\ n < Len(selection) /\ Len(outcomes) = Len(p) /\ Model!Pack = p
      /\ reports' = Append(reports, r) /\ outcomes' = <<>>
      /\ UNCHANGED <<selection, judged, combined, attributed>>
  BY DEF Model!EndPack, Model!Pack
<1>2. /\ n \in Nat /\ Len(outcomes) \in Nat /\ Len(selection) \in Nat
      /\ outcomes \in Seq(OutcomeRecord) /\ reports \in Seq(PackReport)
  BY SelectionIsPacks DEF JudgingIsSound
<1>3. judged = Model!NothingJudged
  BY <1>1, <1>2 DEF JudgingIsSound, Model!UnderWay
<1>4. r \in PackReport /\ r.specifications = outcomes /\ OfSpecifications(r)
  BY <1>2, ReportIsOfSpecifications
<1>5. SoundReport(r, p)
  <2>1. \A i \in 1..Len(outcomes) : Sound(p[i], outcomes[i])
    BY <1>1 DEF JudgingIsSound
  <2> HIDE DEF r
  <2> QED  BY <1>1, <1>4, <2>1 DEF SoundReport
<1> HIDE DEF r
<1>6. /\ reports' \in Seq(PackReport) /\ Len(reports') = n + 1 /\ reports'[n + 1] = r
      /\ \A k \in 1..n : reports'[k] = reports[k]
  BY <1>1, <1>2, <1>4
<1>7. JudgingIsSound'
  <2>1. Model!Pack' = selection[n + 2]
    BY <1>1, <1>2, <1>6 DEF Model!Pack
  <2>2. IF Model!UnderWay' THEN JudgedOf(Model!Subject', judged') ELSE judged' = Model!NothingJudged
    <3>1. CASE Model!UnderWay'
      <4>1. n + 2 \in 1..Len(selection)
        BY <3>1, <1>1, <1>2, <1>6 DEF Model!UnderWay
      <4>2. selection[n + 2][1] \in Model!Specification
        BY <4>1, SelectionIsPacks
      <4>3. Model!Subject' = selection[n + 2][1]
        BY <1>1, <2>1 DEF Model!Subject
      <4> QED  BY <3>1, <1>1, <1>3, <4>2, <4>3, NothingJudgedYet
    <3>2. CASE ~Model!UnderWay'
      BY <3>2, <1>1, <1>3
    <3> QED  BY <3>1, <3>2
  <2>3. (IF Model!UnderWay THEN JudgedOf(Model!Subject, judged) ELSE judged = Model!NothingJudged)'
    BY <2>2 DEF JudgedOf, Model!NothingJudged
  <2>4. (Len(reports) < Len(selection) =>
           /\ Len(outcomes) <= Len(Model!Pack)
           /\ \A i \in 1..Len(outcomes) : Sound(Model!Pack[i], outcomes[i]))'
    <3>1. Len(outcomes') = 0
      BY <1>1
    <3>2. Len(reports') < Len(selection') => Len(Model!Pack') \in Nat
      <4>1. n + 2 \in 1..Len(selection) => Len(selection[n + 2]) \in Nat
        BY SelectionIsPacks
      <4> QED  BY <1>1, <1>2, <1>6, <2>1, <4>1
    <3> QED  BY <3>1, <3>2
  <2> QED  BY <1>1, <1>2, <1>6, <2>3, <2>4 DEF JudgingIsSound
<1>8. ReportsAreSound'
  <2>1. \A k \in 1..n : SoundReport(reports'[k], selection[k])
    BY <1>6 DEF ReportsAreSound
  <2>2. \A k \in 1..n + 1 : k \in 1..n \/ k = n + 1
    BY <1>2
  <2>3. \A k \in 1..n + 1 : SoundReport(reports'[k], selection[k])
    BY <2>1, <2>2, <1>5, <1>6
  <2> QED  BY <2>3, <1>1, <1>6 DEF ReportsAreSound
<1>9. SumsAreOfReports' /\ CombinedInOrder' /\ AttributedInOrder'
  BY <1>1, <1>2, <1>6, JudgingLeavesTheReport
<1> QED  BY <1>1, <1>7, <1>8, <1>9

LEMMA CombineKeeps ==
  ASSUME Model!ConstantsAssumption, VerdictInvariant, Model!Combine
  PROVE  VerdictInvariant'
<1> USE DEF VerdictInvariant
<1> DEFINE n == combined.reports
           r == reports[n + 1]
           before == combined.specifications
<1>1. /\ Len(reports) = Len(selection) /\ n < Len(reports)
      /\ combined' = [reports |-> n + 1, status |-> None, passed |-> combined.passed + r.passed,
                      failed |-> combined.failed + r.failed,
                      indeterminate |-> combined.indeterminate + r.indeterminate,
                      specifications |-> before \o r.specifications]
      /\ UNCHANGED <<selection, judged, outcomes, reports, attributed>>
  BY DEF Model!Combine
<1>2. /\ combined'.reports = n + 1 /\ combined'.status = None
      /\ combined'.passed = combined.passed + r.passed
      /\ combined'.failed = combined.failed + r.failed
      /\ combined'.indeterminate = combined.indeterminate + r.indeterminate
      /\ combined'.specifications = before \o r.specifications
  BY <1>1
<1>3. /\ selection \in Packs /\ Len(selection) \in Nat /\ reports \in Seq(PackReport)
      /\ Len(selection[n + 1]) \in Nat
      /\ n \in Nat /\ n + 1 \in 1..Len(selection) /\ before \in Seq(OutcomeRecord)
  <2>1. /\ selection \in Packs /\ Len(selection) \in Nat /\ reports \in Seq(PackReport)
        /\ n \in Nat /\ before \in Seq(OutcomeRecord)
    BY SelectionIsPacks DEF JudgingIsSound, CombinedInOrder
  <2>2. n + 1 \in 1..Len(selection)
    BY <1>1, <2>1
  <2> QED  BY <2>1, <2>2, SelectionIsPacks
<1>4. r \in PackReport /\ SoundReport(r, selection[n + 1])
  BY <1>1, <1>3 DEF ReportsAreSound
<1>5. r.specifications \in Seq(OutcomeRecord) /\ Len(r.specifications) = Len(selection[n + 1])
  BY <1>4 DEF PackReport, SoundReport
<1>counts. r.passed \in Nat /\ r.failed \in Nat /\ r.indeterminate \in Nat
  BY <1>4 DEF PackReport
<1>sum. r.passed + r.failed + r.indeterminate = Len(r.specifications)
  BY <1>4 DEF SoundReport, OfSpecifications
<1>6. combined.status = None /\ attributed.reports = 0
  <2>1. combined.status = None
    BY <1>1, <1>3 DEF CombinedInOrder
  <2> QED  BY <2>1 DEF AttributedInOrder
<1>7. \A k \in 1..n + 1 : k \in 1..n \/ k = n + 1
  BY <1>3
<1>8. 1..n \subseteq 1..n + 1 /\ n + 1 \in 1..n + 1
  BY <1>3
<1> HIDE DEF n, r, before
<1>9. /\ combined'.specifications \in Seq(OutcomeRecord)
      /\ Len(combined'.specifications) = Len(before) + Len(r.specifications)
      /\ \A i \in 1..Len(before) : combined'.specifications[i] = before[i]
      /\ \A i \in 1..Len(r.specifications) : combined'.specifications[Len(before) + i] = r.specifications[i]
  <2> DEFINE after == r.specifications
  <2>0. before \in Seq(OutcomeRecord) /\ after \in Seq(OutcomeRecord)
    BY <1>3, <1>5
  <2> HIDE DEF after
  <2>1. /\ before \o after \in Seq(OutcomeRecord)
        /\ Len(before \o after) = Len(before) + Len(after)
        /\ \A i \in 1..Len(before) : (before \o after)[i] = before[i]
        /\ \A i \in 1..Len(after) : (before \o after)[Len(before) + i] = after[i]
    BY <2>0, LaidAfter
  <2> QED  BY <1>2, <2>1 DEF after
<1>10. SumsAreOfReports'
  <2>1. combined.passed \in Nat /\ combined.failed \in Nat /\ combined.indeterminate \in Nat
    BY DEF SumsAreOfReports
  <2>sum. combined.passed + combined.failed + combined.indeterminate = Len(before)
    BY DEF SumsAreOfReports, before
  <2>2. Len(before) \in Nat /\ Len(r.specifications) \in Nat
    BY <1>3, <1>5
  <2>3. /\ combined'.passed \in Nat /\ combined'.failed \in Nat /\ combined'.indeterminate \in Nat
        /\ combined'.passed + combined'.failed + combined'.indeterminate = Len(combined'.specifications)
    <3>1. Len(combined'.specifications) = Len(before) + Len(r.specifications)
      BY <1>9
    <3>2. combined'.passed \in Nat
      BY <1>2, <1>counts, <2>1
    <3>4. combined'.failed \in Nat
      BY <1>2, <1>counts, <2>1
    <3>5. combined'.indeterminate \in Nat
      BY <1>2, <1>counts, <2>1
    <3>3. combined'.passed + combined'.failed + combined'.indeterminate
            = (combined.passed + combined.failed + combined.indeterminate)
              + (r.passed + r.failed + r.indeterminate)
      BY <1>2, <1>counts, <2>1
    <3> QED  BY <1>sum, <2>sum, <2>2, <3>1, <3>2, <3>3, <3>4, <3>5
  <2>4. combined'.passed > 0 <=> \E k \in 1..n + 1 : reports[k].passed > 0
    <3>1. combined.passed > 0 <=> \E k \in 1..n : reports[k].passed > 0
      BY DEF SumsAreOfReports, n
    <3>2. combined'.passed > 0 <=> combined.passed > 0 \/ r.passed > 0
      BY <1>2, <1>counts, <2>1
    <3> QED  BY <3>1, <3>2, <1>7, <1>8 DEF r
  <2>5. combined'.failed > 0 <=> \E k \in 1..n + 1 : reports[k].failed > 0
    <3>1. combined.failed > 0 <=> \E k \in 1..n : reports[k].failed > 0
      BY DEF SumsAreOfReports, n
    <3>2. combined'.failed > 0 <=> combined.failed > 0 \/ r.failed > 0
      BY <1>2, <1>counts, <2>1
    <3> QED  BY <3>1, <3>2, <1>7, <1>8 DEF r
  <2>6. combined'.indeterminate > 0 <=> \E k \in 1..n + 1 : reports[k].indeterminate > 0
    <3>1. combined.indeterminate > 0 <=> \E k \in 1..n : reports[k].indeterminate > 0
      BY DEF SumsAreOfReports, n
    <3>2. combined'.indeterminate > 0 <=> combined.indeterminate > 0 \/ r.indeterminate > 0
      BY <1>2, <1>counts, <2>1
    <3> QED  BY <3>1, <3>2, <1>7, <1>8 DEF r
  <2> QED  BY <1>1, <1>2, <2>3, <2>4, <2>5, <2>6 DEF SumsAreOfReports
<1>11. CombinedInOrder'
  <2>1. /\ IsFiniteSet(Before(n + 1)) /\ Len(before) = Cardinality(Before(n + 1))
        /\ \A k \in 1..n : \A i \in 1..Len(selection[k]) : before[Place(k, i)] = reports[k].specifications[i]
    BY DEF CombinedInOrder, n, before
  <2>2. /\ IsFiniteSet(Before(n + 1 + 1))
        /\ Cardinality(Before(n + 1 + 1)) = Len(before) + Len(r.specifications)
    BY <1>3, <1>5, <2>1, BeforeGrows
  <2>3. ASSUME NEW k \in 1..n + 1, NEW i \in 1..Len(selection[k])
        PROVE  combined'.specifications[Place(k, i)] = reports[k].specifications[i]
    <3>1. CASE k \in 1..n
      <4>1. n <= Len(selection)
        BY <1>3
      <4>2. Place(k, i) \in 1..Len(before)
        BY <3>1, <4>1, <1>3, <2>1, PlaceIsWithin
      <4> QED  BY <3>1, <4>2, <1>9, <2>1
    <3>2. CASE k = n + 1
      <4>1. Place(k, i) = Len(before) + i /\ i \in 1..Len(r.specifications)
        BY <3>2, <1>5, <2>1 DEF Place
      <4> QED  BY <3>2, <4>1, <1>9 DEF r
    <3> QED  BY <3>1, <3>2, <1>7
  <2>4. n + 1 \in Nat /\ n + 1 <= Len(reports)
    BY <1>1, <1>3
  <2>5. /\ \A k : Before(k)' = Before(k)
        /\ \A k, i : Place(k, i)' = Place(k, i)
    BY <1>1, PlacesStay
  <2> QED  BY <1>1, <1>2, <1>9, <2>2, <2>3, <2>4, <2>5 DEF CombinedInOrder
<1>12. AttributedInOrder'
  <2>1. /\ \A k : Before(k)' = Before(k)
        /\ \A k, i : Place(k, i)' = Place(k, i)
    BY <1>1, PlacesStay
  <2> QED  BY <1>1, <1>6, <2>1 DEF AttributedInOrder
<1>13. JudgingIsSound'
  BY <1>1 DEF JudgingIsSound, Model!UnderWay, Model!Pack, Model!Subject
<1>14. ReportsAreSound'
  BY <1>1 DEF ReportsAreSound
<1> QED  BY <1>1, <1>10, <1>11, <1>12, <1>13, <1>14

LEMMA StatusFromCountsKeeps ==
  ASSUME Model!ConstantsAssumption, VerdictInvariant, Model!StatusFromCounts
  PROVE  VerdictInvariant'
<1> USE DEF VerdictInvariant
<1> DEFINE status == Model!Aggregate(combined.passed, combined.failed, combined.indeterminate)
<1>1. /\ combined.reports = Len(selection) /\ combined.status = None
      /\ combined' = [combined EXCEPT !.status = status]
      /\ UNCHANGED <<selection, judged, outcomes, reports, attributed>>
  BY DEF Model!StatusFromCounts
<1>2. /\ combined'.reports = combined.reports /\ combined'.passed = combined.passed
      /\ combined'.failed = combined.failed /\ combined'.indeterminate = combined.indeterminate
      /\ combined'.specifications = combined.specifications
  BY <1>1
<1>3. combined'.status \in {combined.status, status}
  BY <1>1
<1>4. /\ \A k : Before(k)' = Before(k)
      /\ \A k, i : Place(k, i)' = Place(k, i)
  BY <1>1, PlacesStay
<1>5. SumsAreOfReports'
  BY <1>1, <1>2 DEF SumsAreOfReports
<1> HIDE DEF status
<1>6. combined'.status # None =>
        /\ combined'.reports = Len(selection')
        /\ combined'.status = Model!Aggregate(combined'.passed, combined'.failed, combined'.indeterminate)
  BY <1>1, <1>2, <1>3 DEF status
<1>7. CombinedInOrder'
  BY <1>1, <1>2, <1>4, <1>6 DEF CombinedInOrder
<1>8. AttributedInOrder'
  BY <1>1, <1>4 DEF AttributedInOrder
<1>9. JudgingIsSound'
  BY <1>1 DEF JudgingIsSound, Model!UnderWay, Model!Pack, Model!Subject
<1>10. ReportsAreSound'
  BY <1>1 DEF ReportsAreSound
<1> QED  BY <1>1, <1>5, <1>7, <1>8, <1>9, <1>10

LEMMA AttributeKeeps ==
  ASSUME Model!ConstantsAssumption, VerdictInvariant, Model!Attribute
  PROVE  VerdictInvariant'
<1> USE DEF VerdictInvariant
<1> DEFINE n == attributed.reports
           r == reports[n + 1]
           before == attributed.specifications
           own == [i \in DOMAIN r.specifications |->
                     [outcome |-> combined.specifications[Len(before) + i], pack |-> n + 1]]
<1>1. /\ combined.status # None /\ n < Len(reports)
      /\ attributed' = [reports |-> n + 1, specifications |-> before \o own]
      /\ UNCHANGED <<selection, judged, outcomes, reports, combined>>
  BY DEF Model!Attribute
<1>2. attributed'.reports = n + 1 /\ attributed'.specifications = before \o own
  BY <1>1
<1>3. /\ selection \in Packs /\ Len(selection) \in Nat /\ reports \in Seq(PackReport)
      /\ n \in Nat /\ n + 1 \in 1..Len(selection) /\ n + 1 \in 1..Len(reports)
      /\ before \in Seq(AttributedRecord)
      /\ combined.reports = Len(selection) /\ Len(reports) = Len(selection)
  <2>1. /\ selection \in Packs /\ Len(selection) \in Nat /\ reports \in Seq(PackReport)
        /\ n \in Nat /\ before \in Seq(AttributedRecord) /\ Len(selection) > 0
    BY SelectionIsPacks DEF JudgingIsSound, AttributedInOrder
  <2>2. combined.reports = Len(selection) /\ Len(reports) = Len(selection)
    BY <1>1, <2>1 DEF CombinedInOrder
  <2> QED  BY <1>1, <2>1, <2>2
<1>4. r \in PackReport /\ SoundReport(r, selection[n + 1])
  BY <1>3 DEF ReportsAreSound
<1>5. r.specifications \in Seq(OutcomeRecord) /\ Len(r.specifications) = Len(selection[n + 1])
  BY <1>4 DEF PackReport, SoundReport
<1>6. \A k \in 1..n + 1 : k \in 1..n \/ k = n + 1
  BY <1>3
<1>7. /\ Len(before) = Cardinality(Before(n + 1))
      /\ \A k \in 1..n : \A i \in 1..Len(selection[k]) :
           before[Place(k, i)] = [outcome |-> reports[k].specifications[i], pack |-> k]
  BY DEF AttributedInOrder
<1>8. IsFiniteSet(Before(n + 1))
  <2>1. IsFiniteSet(Before(combined.reports + 1))
    BY DEF CombinedInOrder
  <2>2. 1..(n + 1) - 1 \subseteq 1..(combined.reports + 1) - 1
    BY <1>3
  <2>3. Before(n + 1) \subseteq Before(combined.reports + 1)
    BY <2>2 DEF Before
  <2> QED  BY <2>1, <2>3, FS_Subset
\* What is left to take begins with the report's own outcomes.
<1>9. \A i \in 1..Len(r.specifications) :
        /\ Place(n + 1, i) = Len(before) + i
        /\ combined.specifications[Len(before) + i] = r.specifications[i]
  <2>1. \A i \in 1..Len(r.specifications) : Place(n + 1, i) = Len(before) + i
    BY <1>7 DEF Place
  <2>2. \A i \in 1..Len(r.specifications) : combined.specifications[Place(n + 1, i)] = r.specifications[i]
    BY <1>3, <1>5 DEF CombinedInOrder
  <2> QED  BY <2>1, <2>2
<1>10. own = [i \in 1..Len(r.specifications) |-> [outcome |-> r.specifications[i], pack |-> n + 1]]
  <2>1. DOMAIN r.specifications = 1..Len(r.specifications)
    BY <1>5
  <2> QED  BY <2>1, <1>9
<1>11. own \in Seq(AttributedRecord) /\ Len(own) = Len(r.specifications)
  <2>1. \A i \in 1..Len(r.specifications) :
          [outcome |-> r.specifications[i], pack |-> n + 1] \in AttributedRecord
    BY <1>3, <1>5 DEF AttributedRecord
  <2>2. Len(r.specifications) \in Nat
    BY <1>5
  <2> HIDE DEF own, r
  <2> QED  BY <1>10, <2>1, <2>2
<1>12. \A i \in 1..Len(r.specifications) : own[i] = [outcome |-> r.specifications[i], pack |-> n + 1]
  <2> HIDE DEF own
  <2> QED  BY <1>10
<1> HIDE DEF n, r, before, own
<1>13. /\ attributed'.specifications \in Seq(AttributedRecord)
       /\ Len(attributed'.specifications) = Len(before) + Len(r.specifications)
       /\ \A i \in 1..Len(before) : attributed'.specifications[i] = before[i]
       /\ \A i \in 1..Len(r.specifications) : attributed'.specifications[Len(before) + i] = own[i]
  <2>1. /\ before \o own \in Seq(AttributedRecord)
        /\ Len(before \o own) = Len(before) + Len(own)
        /\ \A i \in 1..Len(before) : (before \o own)[i] = before[i]
        /\ \A i \in 1..Len(own) : (before \o own)[Len(before) + i] = own[i]
    <3>1. before \in Seq(AttributedRecord) /\ own \in Seq(AttributedRecord)
      BY <1>3, <1>11
    <3> QED  BY <3>1, LaidAfter
  <2> QED  BY <1>2, <1>11, <2>1
<1>14. AttributedInOrder'
  <2>1. Cardinality(Before(n + 1 + 1)) = Len(before) + Len(r.specifications)
    BY <1>3, <1>5, <1>7, <1>8, BeforeGrows
  <2>2. ASSUME NEW k \in 1..n + 1, NEW i \in 1..Len(selection[k])
        PROVE  attributed'.specifications[Place(k, i)] = [outcome |-> reports[k].specifications[i], pack |-> k]
    <3>1. CASE k \in 1..n
      <4>1. n <= Len(selection)
        BY <1>3
      <4>2. Place(k, i) \in 1..Len(before)
        BY <3>1, <4>1, <1>3, <1>7, <1>8, PlaceIsWithin
      <4> QED  BY <3>1, <4>2, <1>7, <1>13
    <3>2. CASE k = n + 1
      <4>1. i \in 1..Len(r.specifications) /\ Place(k, i) = Len(before) + i
        BY <3>2, <1>5, <1>9
      <4> QED  BY <3>2, <4>1, <1>12, <1>13 DEF r
    <3> QED  BY <3>1, <3>2, <1>6
  <2>3. n + 1 \in Nat /\ n + 1 <= Len(reports)
    BY <1>3
  <2>4. /\ \A k : Before(k)' = Before(k)
        /\ \A k, i : Place(k, i)' = Place(k, i)
    BY <1>1, PlacesStay
  <2> QED  BY <1>1, <1>2, <1>13, <2>1, <2>2, <2>3, <2>4 DEF AttributedInOrder
<1>15. SumsAreOfReports'
  BY <1>1 DEF SumsAreOfReports
<1>16. CombinedInOrder'
  <2>1. /\ \A k : Before(k)' = Before(k)
        /\ \A k, i : Place(k, i)' = Place(k, i)
    BY <1>1, PlacesStay
  <2> QED  BY <1>1, <2>1 DEF CombinedInOrder
<1>17. JudgingIsSound'
  BY <1>1 DEF JudgingIsSound, Model!UnderWay, Model!Pack, Model!Subject
<1>18. ReportsAreSound'
  BY <1>1 DEF ReportsAreSound
<1> QED  BY <1>1, <1>14, <1>15, <1>16, <1>17, <1>18

LEMMA VerdictStep ==
  ASSUME Model!ConstantsAssumption, VerdictInvariant, [Model!Next]_verdict
  PROVE  VerdictInvariant'
<1>1. CASE Model!JudgeRequirement
  BY <1>1, JudgeRequirementKeeps
<1>2. CASE Model!JudgeNext
  BY <1>2, JudgeNextKeeps
<1>3. CASE Model!EndPack
  BY <1>3, EndPackKeeps
<1>4. CASE Model!Combine
  BY <1>4, CombineKeeps
<1>5. CASE Model!StatusFromCounts
  BY <1>5, StatusFromCountsKeeps
<1>6. CASE Model!Attribute
  BY <1>6, AttributeKeeps
<1>7. CASE UNCHANGED verdict
  <2>1. UNCHANGED <<selection, judged, outcomes, reports, combined, attributed>>
    BY <1>7 DEF verdict
  <2>2. JudgingIsSound'
    BY <2>1 DEF VerdictInvariant, JudgingIsSound, Model!UnderWay, Model!Pack, Model!Subject
  <2>3. ReportsAreSound' /\ SumsAreOfReports'
    BY <2>1 DEF VerdictInvariant, ReportsAreSound, SumsAreOfReports
  <2>4. CombinedInOrder' /\ AttributedInOrder'
    BY <2>1, PlacesStay DEF VerdictInvariant, CombinedInOrder, AttributedInOrder
  <2> QED  BY <2>1, <2>2, <2>3, <2>4 DEF VerdictInvariant
<1> QED  BY <1>1, <1>2, <1>3, <1>4, <1>5, <1>6, <1>7 DEF Model!Next

\* What is written, of a selection that is judged, combined and attributed as above.
LEMMA WhatIsWritten ==
  ASSUME Model!ConstantsAssumption, VerdictInvariant, ReportWritten
  PROVE  /\ combined.reports = Len(selection) /\ Len(reports) = Len(selection)
         /\ combined.status = Model!Aggregate(combined.passed, combined.failed, combined.indeterminate)
         /\ \A k \in 1..Len(selection) : SoundReport(reports[k], selection[k])
         /\ \A k \in 1..Len(selection) : \A i \in 1..Len(selection[k]) :
              /\ attributed.specifications[Place(k, i)] =
                   [outcome |-> reports[k].specifications[i], pack |-> k]
              /\ OutcomeOf(k, i) = reports[k].specifications[i]
              /\ Sound(selection[k][i], OutcomeOf(k, i))
<1> USE DEF VerdictInvariant
<1>1. Len(selection) \in Nat \ {0} /\ attributed.reports = Len(selection)
  BY SelectionIsPacks DEF ReportWritten
<1>2. combined.status # None
  BY <1>1 DEF AttributedInOrder
<1>3. /\ combined.reports = Len(selection) /\ Len(reports) = Len(selection)
      /\ combined.status = Model!Aggregate(combined.passed, combined.failed, combined.indeterminate)
  BY <1>1, <1>2 DEF CombinedInOrder
<1>4. \A k \in 1..Len(selection) : SoundReport(reports[k], selection[k])
  BY <1>3 DEF ReportsAreSound
<1>5. ASSUME NEW k \in 1..Len(selection), NEW i \in 1..Len(selection[k])
      PROVE  /\ attributed.specifications[Place(k, i)] =
                  [outcome |-> reports[k].specifications[i], pack |-> k]
             /\ OutcomeOf(k, i) = reports[k].specifications[i]
             /\ Sound(selection[k][i], OutcomeOf(k, i))
  <2>1. attributed.specifications[Place(k, i)] = [outcome |-> reports[k].specifications[i], pack |-> k]
    BY <1>1 DEF AttributedInOrder
  <2>2. OutcomeOf(k, i) = reports[k].specifications[i]
    BY <2>1 DEF OutcomeOf
  <2>3. Sound(selection[k][i], reports[k].specifications[i])
    BY <1>4 DEF SoundReport
  <2> QED  BY <2>1, <2>2, <2>3
<1> QED  BY <1>3, <1>4, <1>5

LEMMA WrittenIsEstablished ==
  ASSUME Model!ConstantsAssumption, VerdictInvariant, ReportWritten
  PROVE  StatusIsEstablished
<1> DEFINE shown == {Established(s) : s \in Asked}
<1>1. /\ selection \in Packs /\ Len(selection) \in Nat \ {0}
      /\ DOMAIN selection = 1..Len(selection)
      /\ \A k \in 1..Len(selection) :
           Len(selection[k]) \in Nat \ {0} /\ DOMAIN selection[k] = 1..Len(selection[k])
  <2>1. /\ selection \in Packs /\ Len(selection) \in Nat \ {0}
        /\ \A k \in 1..Len(selection) :
             Len(selection[k]) \in Nat \ {0} /\ selection[k] \in Seq(Model!Specification)
    BY SelectionIsPacks DEF VerdictInvariant
  <2>2. DOMAIN selection = 1..Len(selection)
    BY <2>1 DEF Packs
  <2>3. \A k \in 1..Len(selection) : DOMAIN selection[k] = 1..Len(selection[k])
    BY <2>1
  <2> QED  BY <2>1, <2>2, <2>3
<1>2. /\ combined.reports = Len(selection)
      /\ combined.status = Model!Aggregate(combined.passed, combined.failed, combined.indeterminate)
      /\ \A k \in 1..Len(selection) : SoundReport(reports[k], selection[k])
      /\ \A k \in 1..Len(selection) : \A i \in 1..Len(selection[k]) :
           Sound(selection[k][i], OutcomeOf(k, i))
  BY WhatIsWritten
<1>3. \A k \in DOMAIN selection : \A i \in DOMAIN selection[k] :
        OutcomeOf(k, i).status = Established(selection[k][i])
  BY <1>1, <1>2 DEF Sound
\* A report has an outcome of some status exactly if one of its specifications has.
<1>4. ASSUME NEW x, NEW k \in 1..Len(selection)
      PROVE  (\E i \in DOMAIN reports[k].specifications : reports[k].specifications[i].status = x)
               <=> \E i \in DOMAIN selection[k] : Established(selection[k][i]) = x
  <2>1. Len(reports[k].specifications) = Len(selection[k])
        /\ \A i \in 1..Len(selection[k]) : Sound(selection[k][i], reports[k].specifications[i])
    BY <1>2 DEF SoundReport
  <2>2. DOMAIN reports[k].specifications = 1..Len(selection[k])
    <3>1. reports[k] \in PackReport
      BY WhatIsWritten DEF VerdictInvariant, JudgingIsSound
    <3>2. reports[k].specifications \in Seq(OutcomeRecord)
      BY <3>1 DEF PackReport
    <3> QED  BY <3>2, <2>1
  <2> QED  BY <2>1, <2>2, <1>1 DEF Sound
<1>5. ASSUME NEW x
      PROVE  x \in shown <=>
               \E k \in 1..Len(selection) : \E i \in DOMAIN selection[k] : Established(selection[k][i]) = x
  <2>1. \A s : s \in Asked <=> \E k \in 1..Len(selection) : \E i \in DOMAIN selection[k] : s = selection[k][i]
    <3>1. \A s : s \in Asked <=> \E k \in DOMAIN selection : s \in {selection[k][i] : i \in DOMAIN selection[k]}
      BY DEF Asked
    <3>2. \A s, k : s \in {selection[k][i] : i \in DOMAIN selection[k]}
                     <=> \E i \in DOMAIN selection[k] : s = selection[k][i]
      OBVIOUS
    <3> QED  BY <1>1, <3>1, <3>2
  <2> QED  BY <2>1
<1> HIDE DEF shown
<1>6. /\ combined.passed > 0 <=> "pass" \in shown
      /\ combined.failed > 0 <=> "fail" \in shown
      /\ combined.indeterminate > 0 <=> "indeterminate" \in shown
  <2>1. \A k \in 1..Len(selection) :
          /\ reports[k].passed > 0 <=> \E i \in DOMAIN selection[k] : Established(selection[k][i]) = "pass"
          /\ reports[k].failed > 0 <=> \E i \in DOMAIN selection[k] : Established(selection[k][i]) = "fail"
          /\ reports[k].indeterminate > 0 <=>
               \E i \in DOMAIN selection[k] : Established(selection[k][i]) = "indeterminate"
    <3> SUFFICES ASSUME NEW k \in 1..Len(selection)
                 PROVE  /\ reports[k].passed > 0 <=>
                             \E i \in DOMAIN selection[k] : Established(selection[k][i]) = "pass"
                        /\ reports[k].failed > 0 <=>
                             \E i \in DOMAIN selection[k] : Established(selection[k][i]) = "fail"
                        /\ reports[k].indeterminate > 0 <=>
                             \E i \in DOMAIN selection[k] : Established(selection[k][i]) = "indeterminate"
      OBVIOUS
    <3> DEFINE of == reports[k].specifications
    <3>1. /\ reports[k].passed > 0 <=> \E i \in DOMAIN of : of[i].status = "pass"
          /\ reports[k].failed > 0 <=> \E i \in DOMAIN of : of[i].status = "fail"
          /\ reports[k].indeterminate > 0 <=> \E i \in DOMAIN of : of[i].status = "indeterminate"
      BY <1>2 DEF SoundReport, OfSpecifications
    <3>2. (\E i \in DOMAIN of : of[i].status = "pass")
            <=> \E i \in DOMAIN selection[k] : Established(selection[k][i]) = "pass"
      BY <1>4
    <3>3. (\E i \in DOMAIN of : of[i].status = "fail")
            <=> \E i \in DOMAIN selection[k] : Established(selection[k][i]) = "fail"
      BY <1>4
    <3>4. (\E i \in DOMAIN of : of[i].status = "indeterminate")
            <=> \E i \in DOMAIN selection[k] : Established(selection[k][i]) = "indeterminate"
      BY <1>4
    <3> QED  BY <3>1, <3>2, <3>3, <3>4
  <2>2. /\ combined.passed > 0 <=> \E k \in 1..Len(selection) : reports[k].passed > 0
        /\ combined.failed > 0 <=> \E k \in 1..Len(selection) : reports[k].failed > 0
        /\ combined.indeterminate > 0 <=> \E k \in 1..Len(selection) : reports[k].indeterminate > 0
    BY <1>2 DEF VerdictInvariant, SumsAreOfReports
  <2> QED  BY <2>1, <2>2, <1>5
<1>7. "pass" \in shown \/ "fail" \in shown \/ "indeterminate" \in shown
  <2>1. 1 \in 1..Len(selection) /\ 1 \in DOMAIN selection[1]
    BY <1>1
  <2>2. Established(selection[1][1]) \in Verdicts
    BY DEF Established, Verdicts
  <2> QED  BY <2>1, <2>2, <1>5 DEF Verdicts
<1>8. /\ combined.passed \in Nat /\ combined.failed \in Nat /\ combined.indeterminate \in Nat
  BY DEF VerdictInvariant, SumsAreOfReports
<1>9. combined.status = IF "fail" \in shown THEN "fail"
                        ELSE IF "indeterminate" \in shown THEN "indeterminate" ELSE "pass"
  BY <1>2, <1>6, <1>7, <1>8 DEF Model!Aggregate
<1> QED  BY <1>3, <1>9 DEF StatusIsEstablished, shown

LEMMA WrittenHasItsPacks ==
  ASSUME Model!ConstantsAssumption, VerdictInvariant, ReportWritten
  PROVE  EveryVerdictHasItsPack /\ SilenceIsExplained
<1>1. /\ DOMAIN selection = 1..Len(selection)
      /\ \A k \in 1..Len(selection) : DOMAIN selection[k] = 1..Len(selection[k])
  <2>1. /\ selection \in Packs
        /\ \A k \in 1..Len(selection) : selection[k] \in Seq(Model!Specification)
    BY SelectionIsPacks DEF VerdictInvariant
  <2>2. DOMAIN selection = 1..Len(selection)
    BY <2>1 DEF Packs
  <2>3. \A k \in 1..Len(selection) : DOMAIN selection[k] = 1..Len(selection[k])
    BY <2>1
  <2> QED  BY <2>2, <2>3
<1>2. Len(attributed.specifications) = Cardinality(Before(Len(selection) + 1))
  BY DEF VerdictInvariant, AttributedInOrder, ReportWritten
<1>3. /\ Len(combined.specifications) = Cardinality(Before(Len(selection) + 1))
      /\ Len(combined.specifications) = combined.passed + combined.failed + combined.indeterminate
  BY WhatIsWritten DEF VerdictInvariant, CombinedInOrder, SumsAreOfReports
<1>4. \A k \in DOMAIN selection : \A i \in DOMAIN selection[k] :
        attributed.specifications[Place(k, i)] = [outcome |-> reports[k].specifications[i], pack |-> k]
  BY <1>1, WhatIsWritten
<1>5. \A k \in DOMAIN selection : \A i \in DOMAIN selection[k] :
        Explained(selection[k][i], OutcomeOf(k, i))
  BY <1>1, WhatIsWritten DEF Sound
<1>6. EveryVerdictHasItsPack
  BY <1>2, <1>3, <1>4 DEF EveryVerdictHasItsPack
<1>7. SilenceIsExplained
  BY <1>5 DEF SilenceIsExplained
<1> QED  BY <1>6, <1>7

(* A verdict is never better than what was established: no pass from nothing    *)
(* checked, no silence without its reason, and each verdict beside its pack.    *)
THEOREM VerdictHolds ==
  ASSUME Model!ConstantsAssumption PROVE Model!Spec => []VerdictIsEstablished
<1>1. Model!Init => VerdictInvariant
  BY VerdictInit
<1>2. VerdictInvariant /\ [Model!Next]_verdict => VerdictInvariant'
  BY VerdictStep
<1>3. VerdictInvariant => VerdictIsEstablished
  <2>1. CASE ~ReportWritten
    BY <2>1 DEF VerdictIsEstablished, StatusIsEstablished, EveryVerdictHasItsPack, SilenceIsExplained
  <2>2. CASE ReportWritten
    BY <2>2, WrittenIsEstablished, WrittenHasItsPacks DEF VerdictIsEstablished
  <2> QED  BY <2>1, <2>2
<1> QED  BY <1>1, <1>2, <1>3, PTL DEF Model!Spec, verdict, Model!verdict
=============================================================================
