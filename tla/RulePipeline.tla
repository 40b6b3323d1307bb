---------------------------- MODULE RulePipeline ----------------------------
(***************************************************************************)
(* From a transcript to a release, by commands that may run in any order,  *)
(* many times, and stop half way: provisional-batch and provisional-rule   *)
(* write candidates, candidate-to-rule-ir joins them to the IFC mapping,   *)
(* compile-native-rule compiles a rule, rule-release pins what is compiled *)
(* and build_projection_rows makes the rows of the database.               *)
(***************************************************************************)
EXTENDS RuleFiles

CONSTANTS
  Record,      \* of the transcript
  RuleKey,     \* what the extraction may call a rule
  Extractions, \* bound: extraction files; per record nothing, no assertion, or a rule
  Mappings,    \* bound: IFC mapping files; per key the kind of its target
  Revision,    \* the values of --revision
  Version,     \* the values of --compiler-version
  MaxRuns      \* bound: commands

ConstantsAssumption ==
  /\ Unattested \subseteq Record /\ None \notin RuleKey
  /\ \A ir \in Handmade : ir.citation = None \/ ir.citation.record \in Record
  /\ None \notin [record : Record, revision : Revision, keyed : BOOLEAN]
  /\ Extractions \subseteq [Record -> {"unprocessed", "no_assertion"} \cup RuleKey]
  /\ Mappings \subseteq [RuleKey -> {None, "attribute", "property"}]
  /\ None \notin {"attribute", "property", "batch", "rule", "join", "compile", "release", "refused"}

VARIABLES
  pending,  \* what the command under way has yet to install, each with its turn
  command,  \* None, or the command under way
  rows,     \* what build_projection_rows last returned
  runs

pipeline == <<disk, halfLinked, pending, command, ended, joins, compiled, rows, runs>>

-----------------------------------------------------------------------------
Turn(k, files) == {[turn |-> k, file |-> f] : f \in files}

\* A transcript revision pins the text of a record; only provisional-batch
\* gives it the record's key.
RevisionOf(record, revision, keyed) == [record |-> record, revision |-> revision, keyed |-> keyed]

\* Seeded fault: the revision is found, and not attested again.
JoinableUnread(c) == c.revision \in In("revisions")

\* The citation of a candidate can be derived from its revision again.
Joinable(c) == c.revision \in In("revisions") /\ Attested(c.revision)

Unmapped(candidates, mapping) == {c \in candidates : mapping[c.key] = None}

ExtractionFile(says) == Addressed("extractions", says)

IdsFile(ir) == Addressed("compiled", [ir |-> ir, part |-> "ids"])
\* The name of a sidecar is the rule's; it holds the version of the compiler too.
Sidecar(ir, version) ==
  File("compiled", [ir |-> ir, part |-> "sidecar"], [ir |-> ir, version |-> version])
\* What has a directory below the compiled rules.
Directories == In("directories")
Sidecars(ir) == {v \in Version : Sidecar(ir, v) \in disk}
Complete(ir) == IdsFile(ir) \in disk /\ Sidecars(ir) # {}
\* Only the citation of a transcript has a source attestation.
Releasable(ir) == ir.citation # None

Manifest(rules) == Addressed("manifests", rules)

-----------------------------------------------------------------------------
Start(name, files) ==
  /\ command = None /\ runs < MaxRuns
  /\ command' = name /\ pending' = files /\ runs' = runs + 1 /\ ended' = None

Refuses(why) == command = None /\ runs < MaxRuns /\ runs' = runs + 1 /\ ended' = why

\* A record that the extraction does not mention gets no revision.
ProvisionalBatch ==
  \E says \in Extractions, revision \in Revision :
    LET Rev(r) == RevisionOf(r, revision, TRUE)
        mentioned == {r \in Record : says[r] # "unprocessed"}
        ruled == {r \in Record : says[r] \in RuleKey}
    IN  /\ Start("batch",
             Turn(1, {ExtractionFile(says)} \cup {Addressed("revisions", Rev(r)) : r \in mentioned})
               \cup Turn(2, {Addressed("candidates", [revision |-> Rev(r), key |-> says[r]]) : r \in ruled})
               \cup Turn(3, {Addressed("batches", [says |-> says, number |-> revision])}))
        /\ UNCHANGED <<disk, halfLinked, joins, compiled, rows>>

ProvisionalRule ==
  \E r \in Record, key \in RuleKey, revision \in Revision :
    LET rev == RevisionOf(r, revision, FALSE)
    IN  /\ Start("rule", Turn(1, {Addressed("revisions", rev)})
                           \cup Turn(2, {Addressed("candidates", [revision |-> rev, key |-> key])}))
        /\ UNCHANGED <<disk, halfLinked, joins, compiled, rows>>

\* One candidate that does not re-attest stops them all.
CandidateToRuleIR ==
  \E mapping \in Mappings :
    LET candidates == In("candidates")
        mapped == candidates \ Unmapped(candidates, mapping)
    IN  /\ candidates # {}
        /\ IF \A c \in candidates : Joinable(c)
           THEN /\ Start("join",
                     Turn(1, {RuleFile(RuleIR(c, mapping)) : c \in mapped})
                       \cup Turn(2, {File("unmapped", "unmapped.json", Unmapped(candidates, mapping))}))
                /\ joins' = Append(joins, [candidates |-> candidates, mapping |-> mapping])
                /\ UNCHANGED <<disk, halfLinked, compiled, rows>>
           ELSE Refuses("rejected")
                /\ UNCHANGED <<disk, halfLinked, pending, command, joins, compiled, rows>>

\* Of a rule of any file; the IDS does not tell the version.
CompileNativeRule ==
  \E ir \in In("rules") \cup Handmade, version \in Version :
    /\ Start("compile", Turn(1, {Addressed("directories", ir)}) \cup Turn(2, {IdsFile(ir)})
                          \cup Turn(3, {Sidecar(ir, version)}))
    /\ compiled' = compiled \cup {[ir |-> ir, version |-> version]}
    /\ UNCHANGED <<disk, halfLinked, joins, rows>>

RuleRelease ==
  LET rules == UNION {{[ir |-> ir, version |-> v] : v \in Sidecars(ir)} : ir \in Directories}
  IN  /\ Directories # {}
      /\ IF \A ir \in Directories : Complete(ir) /\ Releasable(ir)
         THEN /\ Start("release", Turn(1, ReleaseFiles(rules)) \cup Turn(2, {Manifest(rules)}))
              /\ UNCHANGED <<disk, halfLinked, joins, compiled, rows>>
         ELSE Refuses("incomplete")
              /\ UNCHANGED <<disk, halfLinked, pending, command, joins, compiled, rows>>

\* Only the attribute of a rule can become an IDS specification here.
HasIdsSpecification(ir) == ir.target = "attribute"
BuildProjectionRows ==
  \E rules \in In("manifests") :
    /\ command = None /\ runs < MaxRuns /\ runs' = runs + 1
    /\ IF \A s \in rules : HasIdsSpecification(s.ir)
       THEN rows' = rules /\ ended' = "projected"
       ELSE ended' = "unprojected" /\ UNCHANGED rows
    /\ UNCHANGED <<disk, halfLinked, pending, command, joins, compiled>>

-----------------------------------------------------------------------------
\* install_immutable_bytes: the same bytes again are welcome, in a file that has no
\* second link, and others are not.
Conflicts(f) ==
  f \in halfLinked \/ \E g \in disk : g.dir = f.dir /\ g.called = f.called /\ g.holds # f.holds

IsNext(p) == p \in pending /\ \A q \in pending : p.turn <= q.turn

\* The temporary file is linked to the name and unlinked.
Install ==
  /\ \E p \in pending :
       /\ IsNext(p)
       /\ IF Conflicts(p.file)
          THEN pending' = {} /\ command' = None /\ ended' = "refused" /\ UNCHANGED disk
          ELSE /\ disk' = disk \cup {p.file}
               /\ pending' = pending \ {p}
               /\ UNCHANGED <<command, ended>>
  /\ UNCHANGED <<halfLinked, joins, compiled, rows, runs>>

Return ==
  /\ command # None /\ pending = {}
  /\ command' = None /\ ended' = command
  /\ UNCHANGED <<disk, halfLinked, pending, joins, compiled, rows, runs>>

\* Between two files, or between the link of one and the unlink of its temporary file.
Halfway(p) ==
  /\ IsNext(p) /\ p.file.dir # "directories" /\ p.file \notin disk /\ ~Conflicts(p.file)
  /\ disk' = disk \cup {p.file} /\ halfLinked' = halfLinked \cup {p.file}
Crash ==
  /\ command # None
  /\ command' = None /\ pending' = {} /\ ended' = "crashed"
  /\ UNCHANGED <<disk, halfLinked>> \/ \E p \in pending : Halfway(p)
  /\ UNCHANGED <<joins, compiled, rows, runs>>

Init ==
  /\ disk = {} /\ halfLinked = {} /\ pending = {} /\ command = None /\ ended = None
  /\ joins = <<>> /\ compiled = {} /\ rows = {} /\ runs = 0

Done == command = None /\ runs = MaxRuns /\ UNCHANGED pipeline

Next ==
  \/ ProvisionalBatch \/ ProvisionalRule \/ CandidateToRuleIR \/ CompileNativeRule
  \/ RuleRelease \/ BuildProjectionRows \/ Install \/ Return \/ Crash \/ Done

Spec == Init /\ [][Next]_pipeline /\ WF_pipeline(Next)
=============================================================================
