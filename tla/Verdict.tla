------------------------------- MODULE Verdict -------------------------------
(***************************************************************************)
(* From what ifctester says of single elements to the status of a run:     *)
(* run_check judges each requirement and each specification of a pack, a   *)
(* worker runs it for every pack of the selection, combines the reports    *)
(* and names beside each specification the pack it came from.              *)
(***************************************************************************)
EXTENDS RunReport

CONSTANTS
  Selections,  \* the inputs: packs, each a sequence of specifications
  EntityLimit  \* how many failing elements a requirement lists

(* A specification has a cardinality, whether the schema of the model is one   *)
(* of its own, how many elements it matched, and for each requirement what     *)
(* ifctester said of each of them: "ok", or a reason.  A requirement may have  *)
(* been skipped if the schema is another.                                      *)
Reason == {"ok", "broken", "missing", "unrecognised"}
Specification == [cardinality : {"required", "optional", "prohibited"}, schema : BOOLEAN,
                  matched : Nat, requirements : Seq(Seq(Reason))]
LookedAt(s) ==
  \A q \in DOMAIN s.requirements :
    \/ Len(s.requirements[q]) = s.matched
    \/ ~s.schema /\ s.requirements[q] = <<>>

ConstantsAssumption ==
  /\ EntityLimit \in Nat
  /\ None \notin {"schema_mismatch", "no_subjects_but_required", "no_subjects_and_prohibited",
                  "no_subjects_nothing_checked", "prohibited_subjects_present",
                  "no_requirements_nothing_asserted"}
  /\ \A packs \in Selections :
       /\ packs \in Seq(Seq(Specification)) /\ packs # <<>>
       /\ \A k \in DOMAIN packs :
            packs[k] # <<>> /\ \A i \in DOMAIN packs[k] : LookedAt(packs[k][i])

-----------------------------------------------------------------------------
\* classify: what is not recognised is never a violation.
Classify(reason) == IF reason = "broken" THEN "fail" ELSE "indeterminate"

Aggregate(passed, failed, indeterminate) ==
  IF failed > 0 THEN "fail"
  ELSE IF indeterminate = 0 /\ passed > 0 THEN "pass" ELSE "indeterminate"

Found(facet, status) == {e \in DOMAIN facet : facet[e] # "ok" /\ Classify(facet[e]) = status}

Requirement(facet) ==
  LET passed == Cardinality({e \in DOMAIN facet : facet[e] = "ok"})
      failed == Cardinality(Found(facet, "fail"))
      indeterminate == Cardinality(Found(facet, "indeterminate"))
      found == Cardinality({e \in DOMAIN facet : facet[e] # "ok"})
  IN  [passed |-> passed, failed |-> failed, indeterminate |-> indeterminate,
       status |-> Aggregate(passed, failed, indeterminate),
       listed |-> IF found < EntityLimit THEN found ELSE EntityLimit,
       omitted |-> IF found > EntityLimit THEN found - EntityLimit ELSE 0,
       reason |-> None, caveat |-> None]

Judgement(applicability, status, reason) ==
  [applicability |-> applicability, status |-> status, reason |-> reason]

\* Seeded fault: matched elements alone are evidence.
JudgeByMatches(s, failed, indeterminate) ==
  IF s.schema THEN Judgement("applies", Aggregate(s.matched, failed, indeterminate), None)
  ELSE Judgement("undetermined", "indeterminate", "schema_mismatch")

Judge(s, failed, indeterminate) ==
  CASE ~s.schema -> Judgement("undetermined", "indeterminate", "schema_mismatch")
    [] s.schema /\ s.matched = 0 ->
         (CASE s.cardinality = "required" -> Judgement("applies", "fail", "no_subjects_but_required")
            [] s.cardinality = "prohibited" -> Judgement("applies", "pass", "no_subjects_and_prohibited")
            [] OTHER -> Judgement("does_not_apply", "indeterminate", "no_subjects_nothing_checked"))
    [] s.schema /\ s.matched > 0 /\ s.cardinality = "prohibited" ->
         Judgement("applies", "fail", "prohibited_subjects_present")
    [] s.schema /\ s.matched > 0 /\ s.cardinality = "optional" /\ s.requirements = <<>> ->
         Judgement("applies", "indeterminate", "no_requirements_nothing_asserted")
    [] OTHER -> Judgement("applies", Aggregate(s.matched, failed, indeterminate), None)

\* A requirement of which nothing was evaluated has the reason of its
\* specification; so has, as a caveat, any other if it may not apply at all.
Silent(r) == r.passed + r.failed + r.indeterminate = 0
Backfill(r, judgement) ==
  IF Silent(r) THEN [r EXCEPT !.reason = judgement.reason]
  ELSE IF judgement.applicability = "undetermined" THEN [r EXCEPT !.caveat = judgement.reason]
  ELSE r

Outcome(s, sums) ==
  LET judgement == Judge(s, sums.failed, sums.indeterminate)
  IN  [status |-> judgement.status, reason |-> judgement.reason,
       applicability |-> judgement.applicability,
       passed |-> sums.passed, failed |-> sums.failed, indeterminate |-> sums.indeterminate,
       requirements |-> [q \in DOMAIN sums.requirements |-> Backfill(sums.requirements[q], judgement)]]

Count(xs, status) == Cardinality({i \in DOMAIN xs : xs[i].status = status})

Report(specifications) ==
  LET passed == Count(specifications, "pass")
      failed == Count(specifications, "fail")
      indeterminate == Count(specifications, "indeterminate")
  IN  [passed |-> passed, failed |-> failed, indeterminate |-> indeterminate,
       status |-> Aggregate(passed, failed, indeterminate),
       specifications |-> specifications]

-----------------------------------------------------------------------------
NothingJudged == [requirements |-> <<>>, passed |-> 0, failed |-> 0, indeterminate |-> 0]

Init ==
  /\ selection \in Selections
  /\ judged = NothingJudged /\ outcomes = <<>> /\ reports = <<>>
  /\ combined = [reports |-> 0, status |-> None, passed |-> 0, failed |-> 0, indeterminate |-> 0,
                 specifications |-> <<>>]
  /\ attributed = [reports |-> 0, specifications |-> <<>>]

Pack == selection[Len(reports) + 1]
Subject == Pack[Len(outcomes) + 1]
UnderWay == Len(reports) < Len(selection) /\ Len(outcomes) < Len(Pack)

JudgeRequirement ==
  /\ UnderWay /\ Len(judged.requirements) < Len(Subject.requirements)
  /\ LET r == Requirement(Subject.requirements[Len(judged.requirements) + 1])
     IN  judged' = [requirements |-> Append(judged.requirements, r), passed |-> judged.passed + r.passed,
                    failed |-> judged.failed + r.failed,
                    indeterminate |-> judged.indeterminate + r.indeterminate]
  /\ UNCHANGED <<selection, outcomes, reports, combined, attributed>>

JudgeNext ==
  /\ UnderWay /\ Len(judged.requirements) = Len(Subject.requirements)
  /\ outcomes' = Append(outcomes, Outcome(Subject, judged))
  /\ judged' = NothingJudged
  /\ UNCHANGED <<selection, reports, combined, attributed>>

EndPack ==
  /\ Len(reports) < Len(selection) /\ Len(outcomes) = Len(Pack)
  /\ reports' = Append(reports, Report(outcomes))
  /\ outcomes' = <<>>
  /\ UNCHANGED <<selection, judged, combined, attributed>>

\* _combine_reports, one report at a time, and _status_from_counts.
Combine ==
  /\ Len(reports) = Len(selection) /\ combined.reports < Len(reports)
  /\ LET k == combined.reports + 1
         r == reports[k]
     IN  combined' = [reports |-> k, status |-> None, passed |-> combined.passed + r.passed,
                      failed |-> combined.failed + r.failed,
                      indeterminate |-> combined.indeterminate + r.indeterminate,
                      specifications |-> combined.specifications \o r.specifications]
  /\ UNCHANGED <<selection, judged, outcomes, reports, attributed>>

StatusFromCounts ==
  /\ combined.reports = Len(selection) /\ combined.status = None
  /\ combined' = [combined EXCEPT !.status =
                    Aggregate(combined.passed, combined.failed, combined.indeterminate)]
  /\ UNCHANGED <<selection, judged, outcomes, reports, attributed>>

\* _attribute_specifications: as many of what remains as the next report has.
Attribute ==
  /\ combined.status # None /\ attributed.reports < Len(reports)
  /\ LET k == attributed.reports + 1
         taken == Len(attributed.specifications)
     IN  attributed' =
           [reports |-> k,
            specifications |-> attributed.specifications \o
              [i \in DOMAIN reports[k].specifications |->
                 [outcome |-> combined.specifications[taken + i], pack |-> k]]]
  /\ UNCHANGED <<selection, judged, outcomes, reports, combined>>

Next == JudgeRequirement \/ JudgeNext \/ EndPack \/ Combine \/ StatusFromCounts \/ Attribute

Spec == Init /\ [][Next]_verdict /\ WF_verdict(Next)
=============================================================================
