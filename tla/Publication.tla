---------------------------- MODULE Publication -----------------------------
(***************************************************************************)
(* What becomes of the candidates of one bundle: validator-ingest checks   *)
(* that the validator's response classifies the candidates of the two      *)
(* passes (reconcile_validator), semantic-publish turns it into rules,     *)
(* rejected and deferred records, collapses rules of one meaning, and      *)
(* checks the publication it has written.                                  *)
(***************************************************************************)
EXTENDS Publications, Naturals, Sequences, FiniteSets, Functions

CONSTANTS
  Meaning,    \* bound: what a rule may mean (_rule_semantic_identity)
  Breakages   \* bound: the texts that are broken together

Id == Candidate \cup {Foreign}

\* A candidate has texts in its pass and, if it is accepted, in the response, where a
\* merge or an audit record has texts too.  A text may have a line separator, which JSON
\* leaves as it is and the validator splits at, or a surrogate, which UTF-8 refuses.
Text ==
  [of : Candidate, text : {"source", "accepted", "predicate", "merge", "audit"},
   how : {"separator", "surrogate"}]

ConstantsAssumption ==
  /\ Foreign \notin Candidate /\ IsFiniteSet(Candidate)
  /\ Breakages \subseteq SUBSET Text /\ {} \in Breakages

VARIABLE content  \* of the candidates it accepts: their meaning and whether they are doubtful

bundle == <<response, content, broken, stage, out>>

\* A rejected or deferred record has its candidate_id and cites a list of ids: its own if
\* it has no list, any others, or none; Foreign also stands for what is no list of ids.
\* It may be the record of the accepted candidate of that id, word for word.
Audit == [id : Candidate, cites : SUBSET Id, repeats : BOOLEAN]
\* A merge names the accepted candidate and the candidates it was made of.
Merge == [target : Id, sources : (SUBSET Candidate) \ {{}}]
Responses ==
  [accepted : Seq(Id), merged : SUBSET Merge, rejected : SUBSET Audit, deferred : SUBSET Audit]

\* What is accepted is doubtful if it has an uncertainty code or fails the quality gate.
Content == [meaning : Meaning, doubtful : BOOLEAN]
NoRecords == [rules |-> <<>>, rejected |-> {}, deferred |-> {}]

-----------------------------------------------------------------------------
Ids(records) == {x.id : x \in records}
Sources(v) == UNION {x.sources : x \in v.merged}
Classified(v) == Sources(v) \cup Ids(v.rejected) \cup Ids(v.deferred)
Unaccounted(v) == Candidate \ Classified(v)

\* Every raise of reconcile_validator.
OneDecisionEach(v) ==
  /\ \A x, y \in v.merged : x # y => x.target # y.target /\ x.sources \cap y.sources = {}
  /\ Sources(v) \cap Ids(v.rejected) = {}
  /\ Sources(v) \cap Ids(v.deferred) = {}
  /\ Ids(v.rejected) \cap Ids(v.deferred) = {}
Reconciles(v) ==
  /\ IsInjective(v.accepted)
  /\ \A records \in {v.rejected, v.deferred} : \A x, y \in records : x.id = y.id => x = y
  /\ OneDecisionEach(v)
  /\ {x.target : x \in v.merged} = Range(v.accepted)
  /\ Range(v.accepted) \cup Classified(v) \subseteq Candidate

MergeOf(c) == CHOOSE x \in response.merged : x.target = c

Certain(c) == ~content[c].doubtful

-----------------------------------------------------------------------------
Rule(c) == [candidate |-> c, sources |-> MergeOf(c).sources, corroborating |-> {}]
\* In the order of their acceptance: each at the place of its candidate.
Rules(accepted) ==
  [i \in {k \in DOMAIN accepted : Certain(accepted[k])} |-> Rule(accepted[i])]

SameMeaning(r, s) == content[r.candidate].meaning = content[s.candidate].meaning
First(rules) ==
  {i \in DOMAIN rules : \A j \in DOMAIN rules : SameMeaning(rules[i], rules[j]) => i <= j}

\* Seeded fault: a rule that repeats another is dropped with its evidence.
DeduplicateForgetting(rules) == [i \in First(rules) |-> rules[i]]

\* The first rule of a meaning keeps the others' evidence.
Deduplicate(rules) ==
  LET Later(i) == {j \in DOMAIN rules : j > i /\ SameMeaning(rules[i], rules[j])}
  IN  [i \in First(rules) |->
         [rules[i] EXCEPT !.corroborating =
            {[candidate |-> rules[j].candidate, sources |-> rules[j].sources] : j \in Later(i)}]]

Record(reason, decision, names, shows) ==
  [reason |-> reason, decision |-> decision, names |-> names, shows |-> shows]

\* The record of an accepted candidate, which one that repeats it is equal to.
Repeating(c) == {x \in response.deferred : x.id = c /\ x.repeats}
Own(c) == IF Repeating(c) # {} THEN CHOOSE x \in Repeating(c) : TRUE ELSE [candidate |-> c]

Deferred ==
  LET Accepted(c) == Record("accepted", Own(c), {c} \cup MergeOf(c).sources, {c})
      Asked(x) == Record("validator", x, {x.id}, Cited(x))
      Missing(c) == Record("unaccounted", [id |-> c], {c}, {c})
  IN  {Accepted(c) : c \in {d \in Range(response.accepted) : ~Certain(d)}}
        \cup {Asked(x) : x \in response.deferred}
        \cup {Missing(c) : c \in Unaccounted(response)}

\* The identity of an audit record is its kind, its validation and its decision.
RejectedRecords == {Record("rejected", x, {x.id}, Cited(x)) : x \in response.rejected}

\* The texts that are printed, of a rule in full and of what corroborates it in part.
InFull(c) == {<<c, "accepted">>, <<c, "predicate">>, <<c, "merge">>}
Sourced(S) == S \X {"source"}
Printed(o) ==
  UNION {InFull(o.rules[i].candidate)
           \cup {x.candidate : x \in o.rules[i].corroborating} \X {"predicate", "merge"}
         : i \in DOMAIN o.rules}
    \cup UNION {InFull(c) : c \in {d \in Range(response.accepted) : ~Certain(d)}}
    \cup UNION {Sourced(x.shows) : x \in {y \in o.rejected \cup o.deferred : y.reason # "accepted"}}
    \cup (Ids(response.rejected) \cup Ids(response.deferred)) \X {"audit"}
\* Rules of one meaning are found by a hash of the accepted text.
Hashed == {d \in Range(response.accepted) : Certain(d)} \X {"accepted"}
Breaks(texts, how) == \E b \in broken : b.how = how /\ <<b.of, b.text>> \in texts

\* validate_semantic_publication, of what it can tell from the files.
Valid(o) ==
  /\ ~Breaks(Printed(o), "separator")
  /\ \A i, j \in DOMAIN o.rules : o.rules[i].candidate = o.rules[j].candidate => i = j
  /\ \A i \in DOMAIN o.rules : Certain(o.rules[i].candidate)
  /\ \A i, j \in DOMAIN o.rules : SameMeaning(o.rules[i], o.rules[j]) => i = j
  /\ \A x, y \in o.deferred : x.decision = y.decision => x = y

-----------------------------------------------------------------------------
Init ==
  /\ response \in Responses
  /\ IF Reconciles(response)
     THEN content \in [Candidate -> Content] /\ broken \in Breakages
     ELSE content = [c \in Candidate |-> CHOOSE x \in Content : TRUE] /\ broken = {}
  /\ stage = "returned"
  /\ out = NoRecords

Ingest ==
  /\ stage = "returned"
  /\ stage' = IF ~Reconciles(response) THEN "refused"
              ELSE IF response.deferred # {} \/ Unaccounted(response) # {}
                   THEN "needs_review" ELSE "accepted_candidate"
  /\ UNCHANGED <<response, content, broken, out>>

\* The decision is reconciled again.
Published ==
  IF Reconciles(response)
  THEN [rules |-> Deduplicate(Rules(response.accepted)),
        rejected |-> RejectedRecords, deferred |-> Deferred]
  ELSE [NoRecords EXCEPT !.deferred = {Record("reconciliation", response, Candidate, Candidate)}]

\* An unknown citation raises, and so does a text that cannot be encoded; otherwise the
\* files and the manifest are written and then checked, and stay if the check raises.
Writable(o) == ~CitesUnknown /\ ~Breaks(Printed(o) \cup Hashed, "surrogate")
Publish ==
  /\ stage \in {"needs_review", "accepted_candidate"}
  /\ out' = IF Writable(Published) THEN Published ELSE NoRecords
  /\ stage' = IF Writable(Published) /\ Valid(Published) THEN "published" ELSE "raised"
  /\ UNCHANGED <<response, content, broken>>

Ended == stage \in {"refused", "published", "raised"}
Done == Ended /\ UNCHANGED bundle

Next == Ingest \/ Publish \/ Done

Spec == Init /\ [][Next]_bundle /\ WF_bundle(Next)
=============================================================================
