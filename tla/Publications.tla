---------------------------- MODULE Publications ----------------------------
(***************************************************************************)
(* The publication of one bundle: what the validator answered, what was    *)
(* written of it, and what has to be found of every candidate in there.    *)
(* Publication has the steps.                                              *)
(***************************************************************************)
CONSTANTS
  Candidate,   \* ids of the candidates of pass A and pass B
  Foreign      \* an id of neither

VARIABLES
  response,  \* of the validator
  broken,    \* texts of the candidates and of its decisions that JSON lines cannot hold
  stage,
  out        \* the records of the publication

\* The ids whose candidates are looked up, and shown, for an audit record.
Cited(x) == x.cites
CitesUnknown == \E x \in response.rejected \cup response.deferred : ~(Cited(x) \subseteq Candidate)

\* The candidates that a rule names.
InRule(r) ==
  {r.candidate} \cup r.sources \cup UNION {{x.candidate} \cup x.sources : x \in r.corroborating}
InRules == UNION {InRule(out.rules[i]) : i \in DOMAIN out.rules}

\* The candidates that the decision of an audit record names, and those it shows.
InRejected == UNION {x.names : x \in out.rejected}
InDeferred == UNION {x.names : x \in out.deferred}
Shown == UNION {x.shows : x \in out.rejected \cup out.deferred}

\* Each accepted candidate is among the sources of its own merge.
MergesAreOfTheirTargets == \A x \in response.merged : x.target \in x.sources

-----------------------------------------------------------------------------
(* No candidate of either pass is lost: in a publication each is named by a rule, *)
(* as it or as a source or corroboration of it, or by a decision that rejects or  *)
(* defers it.                                                                     *)
EveryCandidateIsKept ==
  stage = "published" => Candidate \subseteq InRules \cup InRejected \cup InDeferred

(* If each accepted candidate is among the sources of its own merge, no candidate *)
(* is named as two of a rule, rejected and deferred; and what a rule is made of   *)
(* is shown as rejected or deferred only as evidence that the decision on another *)
(* candidate cites.                                                               *)
OneFateEach ==
  stage = "published" /\ MergesAreOfTheirTargets
    => /\ InRules \cap InRejected = {}
       /\ InRules \cap InDeferred = {}
       /\ InRejected \cap InDeferred = {}
       /\ \A c \in Shown \cap InRules :
            \E x \in response.rejected \cup response.deferred : x.id # c /\ c \in Cited(x)

(* What was ingested can be published, unless a rejected or deferred record cites *)
(* a candidate that is in neither pass, a text cannot be held, or a deferred      *)
(* record repeats that of a candidate accepted by a merge of others only.         *)
IngestedIsPublished ==
  stage = "raised" =>
    \/ CitesUnknown
    \/ broken # {}
    \/ ~MergesAreOfTheirTargets /\ \E x \in response.deferred : x.repeats

(* Every candidate of a published bundle has a fate and only one, and what was  *)
(* ingested can be published.                                                   *)
CandidatesHaveOneFate == EveryCandidateIsKept /\ OneFateEach /\ IngestedIsPublished
=============================================================================
