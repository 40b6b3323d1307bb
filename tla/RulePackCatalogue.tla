-------------------------- MODULE RulePackCatalogue --------------------------
(***************************************************************************)
(* The statements of those who seed rule packs, each look-up, validation,  *)
(* write and insert a step of its own, and of check runs that cite a pack  *)
(* when they are requested and evaluate it later (RulePackService,         *)
(* RulePackManager, CheckRunExecutor._evaluate_selection).                 *)
(***************************************************************************)
EXTENDS RulePacks

CONSTANT
  Ids  \* IDS files: what they declare as title, that without blanks, and bytes

\* To strip a name once more changes nothing.
ConstantsAssumption ==
  /\ \A i \in Ids : DOMAIN i = {"title", "name", "bytes"}
  /\ \A i, j \in Ids : i.title = j.name => i.title = i.name

-----------------------------------------------------------------------------
\* RulePack.objects.matching, with the title as the file declares it.
Matching(name) == {p \in packs : p.name = name}
BytesOf(p) == {f.bytes : f \in Stored(p.file)}

GoesTo(s, pc) == seeders' = [seeders EXCEPT ![s].pc = pc]

Look(s) ==
  /\ AtSeeder(s, "called")
  /\ GoesTo(s, IF Matching(seeders[s].ids.title) = {} THEN "absent" ELSE "skipped")
  /\ UNCHANGED <<packs, storage, evaluations>>

\* full_clean looks for the identity once more, by the name as it will be saved.
Clean(s) ==
  /\ AtSeeder(s, "absent")
  /\ GoesTo(s, IF Matching(seeders[s].ids.name) = {} THEN "valid" ELSE "invalid")
  /\ UNCHANGED <<packs, storage, evaluations>>

\* FileField.pre_save writes the bytes ahead of the INSERT.
Store(s) ==
  /\ AtSeeder(s, "valid")
  /\ storage' = storage \cup {[of |-> s, bytes |-> seeders[s].ids.bytes]}
  /\ GoesTo(s, "stored")
  /\ UNCHANGED <<packs, evaluations>>

Insert(s) ==
  /\ AtSeeder(s, "stored")
  /\ Matching(seeders[s].ids.name) = {}
  /\ packs' = packs \cup {[name |-> seeders[s].ids.name, file |-> s]}
  /\ GoesTo(s, "created")
  /\ UNCHANGED <<storage, evaluations>>

\* Seeded fault: the bytes of the insert that lost stay.
WithdrawNothing(s) ==
  /\ AtSeeder(s, "stored") /\ Matching(seeders[s].ids.name) # {}
  /\ GoesTo(s, "lost")
  /\ UNCHANGED <<packs, storage, evaluations>>

\* unique_rule_pack_identity refuses the insert.
Withdraw(s) ==
  /\ AtSeeder(s, "stored")
  /\ Matching(seeders[s].ids.name) # {}
  /\ storage' = storage \ Stored(s)
  /\ GoesTo(s, "lost")
  /\ UNCHANGED <<packs, evaluations>>

LookAgain(s) ==
  /\ AtSeeder(s, "lost")
  /\ GoesTo(s, IF Matching(seeders[s].ids.title) = {} THEN "raised" ELSE "skipped")
  /\ UNCHANGED <<packs, storage, evaluations>>

Crash(s) ==
  /\ seeders[s].pc \notin SeedEnds
  /\ GoesTo(s, "crashed")
  /\ UNCHANGED <<packs, storage, evaluations>>

-----------------------------------------------------------------------------
\* snapshot: the citation has the checksum of the bytes there are.
Request(r) ==
  /\ evaluations[r].pc = "none"
  /\ \E p \in packs : \E b \in BytesOf(p) :
       evaluations' = [evaluations EXCEPT ![r] = [@ EXCEPT !.pc = "requested", !.pack = p, !.cited = b]]
  /\ UNCHANGED <<packs, storage, seeders>>

\* checksum_of reads the file, and local_path opens it again.
Checksum(r) ==
  /\ evaluations[r].pc = "requested"
  /\ evaluations' = [evaluations EXCEPT ![r].pc =
       IF BytesOf(evaluations[r].pack) = {} THEN "unreadable"
       ELSE IF BytesOf(evaluations[r].pack) = {evaluations[r].cited} THEN "checked" ELSE "mismatch"]
  /\ UNCHANGED <<packs, storage, seeders>>

Evaluate(r) ==
  /\ evaluations[r].pc = "checked"
  /\ LET read == BytesOf(evaluations[r].pack)
     IN  evaluations' = [evaluations EXCEPT ![r] =
           IF read = {} THEN [@ EXCEPT !.pc = "unreadable"]
           ELSE [@ EXCEPT !.pc = "evaluated", !.evaluated = read]]
  /\ UNCHANGED <<packs, storage, seeders>>

Init ==
  /\ packs = {} /\ storage = {}
  /\ seeders \in [Seeder -> [pc : {"called"}, ids : Ids]]
  /\ evaluations = [r \in Evaluation |-> [pc |-> "none", pack |-> None, cited |-> None, evaluated |-> {}]]

Next ==
  \/ \E s \in Seeder : Look(s) \/ Clean(s) \/ Store(s) \/ Insert(s) \/ Withdraw(s) \/ LookAgain(s) \/ Crash(s)
  \/ \E r \in Evaluation : Request(r) \/ Checksum(r) \/ Evaluate(r)

Spec == Init /\ [][Next]_catalogue /\ WF_catalogue(Next)
=============================================================================
