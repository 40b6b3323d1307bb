------------------------------ MODULE RulePacks ------------------------------
(***************************************************************************)
(* The rule packs every workspace selects from: their rows and files, the  *)
(* processes that seed them, the check runs that cite and evaluate them,   *)
(* and what holds of these whoever seeds, loses a race or dies.            *)
(* RulePackCatalogue has the statements.                                   *)
(***************************************************************************)
EXTENDS Null

CONSTANTS
  Seeder,     \* calls of seed
  Evaluation  \* check runs, of which each cites one pack

VARIABLES
  packs,    \* rows: the name, and the seeder whose file it has
  storage,  \* files below rule-packs/: whose, and the bytes
  seeders,
  evaluations

catalogue == <<packs, storage, seeders, evaluations>>

Stored(who) == {f \in storage : f.of = who}

AtSeeder(s, pc) == seeders[s].pc = pc
SeedEnds == {"created", "skipped", "invalid", "raised", "crashed"}

-----------------------------------------------------------------------------
(* What a run evaluated are the bytes it cited, though they are read once to be *)
(* hashed and once to be evaluated; no pack it cites is lost or changed.        *)
EvaluatedIsCited ==
  \A r \in Evaluation :
    /\ evaluations[r].pc \notin {"mismatch", "unreadable"}
    /\ evaluations[r].pc = "evaluated" => evaluations[r].evaluated = {evaluations[r].cited}

(* Each pack has its file, and once no seeder is at work each file that none    *)
(* left behind in a crash has its pack, whoever lost the race.                  *)
FilesArePacks ==
  /\ \A p \in packs : Stored(p.file) # {}
  /\ (\A s \in Seeder : seeders[s].pc \in SeedEnds) =>
       \A f \in storage : seeders[f.of].pc = "crashed" \/ \E p \in packs : p.file = f.of

(* A seeder that says a pack is there is right, and one at most created it.     *)
SeedTellsTheTruth ==
  \A s \in Seeder :
    /\ seeders[s].pc \in {"created", "skipped", "lost"} =>
         \E p \in packs : p.name = seeders[s].ids.name
    /\ \A t \in Seeder :
         AtSeeder(s, "created") /\ AtSeeder(t, "created") /\ s # t
           => seeders[s].ids.name # seeders[t].ids.name

(* A run evaluates the bytes it cites, and there is a file to each pack and,    *)
(* when no seeder is at work, a pack to each file, whoever lost the race.       *)
CatalogueIsWhole == EvaluatedIsCited /\ FilesArePacks /\ SeedTellsTheTruth
=============================================================================
