------------------------------ MODULE RuleFiles -----------------------------
(***************************************************************************)
(* The files between a transcript and a release, whichever command wrote   *)
(* them: what quotes what, and what holds of them, of the joins that were  *)
(* run over them and of how the last command ended.  RulePipeline has the  *)
(* commands.                                                               *)
(***************************************************************************)
EXTENDS Null, Naturals, Sequences

CONSTANTS
  Unattested,  \* the records that name no page, or share their record_id
  Handmade     \* the rules of files that no join wrote

VARIABLES
  disk,     \* what is installed: [dir, called, holds], one content per name
  halfLinked,  \* those of them with a second link, the temporary file of their installation
  joins,    \* history: the inputs of every candidate-to-rule-ir
  compiled, \* history: the rule and the --compiler-version of every compile-native-rule
  ended     \* how the last command ended

File(dir, name, content) == [dir |-> dir, called |-> name, holds |-> content]
Addressed(dir, content) == File(dir, content, content)
In(dir) == {f.holds : f \in {g \in disk : g.dir = dir}}

Attested(r) == r.keyed /\ r.record \notin Unattested

\* Of a candidate whose key is mapped.
RuleIR(c, mapping) == [key |-> c.key, target |-> mapping[c.key], citation |-> c.revision]
RuleFile(ir) == File("rules", ir.key, ir)

\* A release is of sidecars, each of a rule and the version of the compiler.
ReleaseFiles(rules) ==
  {Addressed("released", [release |-> rules, of |-> s, part |-> p]) :
     s \in rules, p \in {"ids", "sidecar"}}

-----------------------------------------------------------------------------
(* A candidate-to-rule-ir that returned gave every candidate it was shown one   *)
(* outcome that is on disk: the rule of its key, or a record among the unmapped.*)
JoinIsWhole ==
  ended = "join" =>
    LET j == joins[Len(joins)]
    IN  \A c \in j.candidates :
          IF j.mapping[c.key] = None
          THEN \E f \in disk : f.dir = "unmapped" /\ c \in f.holds
          ELSE RuleFile(RuleIR(c, j.mapping)) \in disk

(* A command is refused for what is already on disk only if two commands        *)
(* disagree, or one stopped between the two halves of an installation: two joins *)
(* were given different inputs, two candidates of one have one key, a rule was   *)
(* compiled by two versions, or a file kept the link of its temporary file.      *)
ConflictsAreOfJoins ==
  ended = "refused" =>
    \/ \E m, n \in DOMAIN joins : joins[m] # joins[n]
    \/ \E n \in DOMAIN joins : \E c, d \in joins[n].candidates : c # d /\ c.key = d.key
    \/ \E s, t \in compiled : s.ir = t.ir /\ s.version # t.version
    \/ halfLinked # {}

(* Where there is a manifest, every file of its release is there, each rule was   *)
(* compiled by that version and cites a transcript, and if the operator did not   *)
(* write the rule it quotes a record that re-attests and to which a candidate     *)
(* gave that key.                                                                 *)
ManifestIsFounded ==
  \A rules \in In("manifests") :
    /\ ReleaseFiles(rules) \subseteq disk
    /\ \A s \in rules :
         /\ s \in compiled /\ s.ir.citation # None
         /\ \/ s.ir \in Handmade
            \/ /\ Attested(s.ir.citation) /\ s.ir.citation \in In("revisions")
               /\ \E c \in In("candidates") : c.key = s.ir.key /\ c.revision = s.ir.citation

(* What is compiled and released goes back to whole joins of candidates with a  *)
(* mapping or to the operator, and a command is refused only for what commands  *)
(* that disagree or stopped half way have left.                                 *)
ReleaseIsFounded == JoinIsWhole /\ ManifestIsFounded /\ ConflictsAreOfJoins
=============================================================================
