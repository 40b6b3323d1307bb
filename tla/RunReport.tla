----------------------------- MODULE RunReport ------------------------------
(***************************************************************************)
(* What a run makes of its selection of packs: the outcomes of their       *)
(* specifications, a report of each pack, the report of the run and the    *)
(* document in which each outcome stands beside its pack; and what whoever *)
(* reads that document may rely on.  Verdict has the steps.                *)
(***************************************************************************)
EXTENDS Null, Naturals, Sequences, FiniteSets

VARIABLES
  selection,  \* packs, each a sequence of specifications
  judged,     \* the requirements of the specification under way, and their sums
  outcomes,   \* of the specifications before it in the pack
  reports,    \* of the packs before it
  combined,   \* the report of the run, of so many reports
  attributed  \* the specifications of the document, of so many reports

verdict == <<selection, judged, outcomes, reports, combined, attributed>>

ReportWritten == attributed.reports = Len(selection)

\* The place in the document of the i-th specification of the k-th pack.
Before(k) == UNION {{j} \X DOMAIN selection[j] : j \in 1..k - 1}
Place(k, i) == Cardinality(Before(k)) + i
OutcomeOf(k, i) == attributed.specifications[Place(k, i)].outcome

Asked == UNION {{selection[k][i] : i \in DOMAIN selection[k]} : k \in DOMAIN selection}

Says(s, reasons) ==
  \E q \in DOMAIN s.requirements : \E e \in DOMAIN s.requirements[q] : s.requirements[q][e] \in reasons

\* What the model shows of a specification, said without counting.
Established(s) ==
  CASE ~s.schema -> "indeterminate"
    [] s.schema /\ s.cardinality = "prohibited" -> IF s.matched = 0 THEN "pass" ELSE "fail"
    [] s.schema /\ s.cardinality # "prohibited" /\ s.matched = 0 ->
         IF s.cardinality = "required" THEN "fail" ELSE "indeterminate"
    [] OTHER ->
         IF Says(s, {"broken"}) THEN "fail"
         ELSE IF Says(s, {"missing", "unrecognised"}) THEN "indeterminate"
         ELSE IF s.cardinality = "optional" /\ s.requirements = <<>> THEN "indeterminate"
         ELSE "pass"

EstablishedNothing(reason) ==
  reason \in {"schema_mismatch", "no_subjects_nothing_checked", "no_requirements_nothing_asserted"}

-----------------------------------------------------------------------------
(* A specification passes or fails only by what the model shows, never because  *)
(* nothing was looked at; and a run fails if one of its specifications does and *)
(* passes only if all do, however they are spread over packs.                   *)
StatusIsEstablished ==
  ReportWritten =>
    LET shown == {Established(s) : s \in Asked}
    IN  /\ \A k \in DOMAIN selection : \A i \in DOMAIN selection[k] :
             OutcomeOf(k, i).status = Established(selection[k][i])
        /\ combined.status = IF "fail" \in shown THEN "fail"
                             ELSE IF "indeterminate" \in shown THEN "indeterminate" ELSE "pass"

(* No specification is lost or laid at another pack's door when the reports are *)
(* flattened and taken apart again, and the counts of the run add up to them.   *)
EveryVerdictHasItsPack ==
  ReportWritten =>
    /\ \A k \in DOMAIN selection : \A i \in DOMAIN selection[k] :
         attributed.specifications[Place(k, i)] =
           [outcome |-> reports[k].specifications[i], pack |-> k]
    /\ Len(attributed.specifications) = Cardinality(Before(Len(selection) + 1))
    /\ Len(attributed.specifications) = combined.passed + combined.failed + combined.indeterminate

(* A requirement is never silent: if nothing was evaluated for it, or it was    *)
(* but may not apply, it says why; and a specification is said to establish     *)
(* nothing exactly if its verdict is unknown though no element was.             *)
Explained(s, o) ==
  /\ \A q \in DOMAIN o.requirements :
       LET r == o.requirements[q]
       IN  /\ r.status = "pass" => r.passed > 0
           /\ r.status = "indeterminate" /\ r.indeterminate = 0 => r.reason # None
           /\ ~s.schema => r.reason # None \/ r.caveat # None
           /\ r.listed + r.omitted = r.failed + r.indeterminate
  /\ EstablishedNothing(o.reason) <=>
       o.status = "indeterminate" /\ (s.schema => ~Says(s, {"missing", "unrecognised"}))
SilenceIsExplained ==
  ReportWritten =>
    \A k \in DOMAIN selection : \A i \in DOMAIN selection[k] : Explained(selection[k][i], OutcomeOf(k, i))

(* A verdict is never better than what was established: no pass from nothing    *)
(* checked, no silence without its reason, and each verdict beside its pack.    *)
VerdictIsEstablished == StatusIsEstablished /\ EveryVerdictHasItsPack /\ SilenceIsExplained
=============================================================================
