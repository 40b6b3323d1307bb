------------------------------ MODULE MCCorpus ------------------------------
(***************************************************************************)
(* From the official sources to a verdict: acquisition, the graph of a     *)
(* document, the queue of extraction jobs, the publication of a bundle,    *)
(* the rules made of it, the judgement of a model by rule packs, and the   *)
(* workspaces of those who read it, in one run.  They share no state that  *)
(* changes, so a behaviour is one of one part: `part` says of which, and   *)
(* the variables of the others stay at one of the values they begin with.  *)
(***************************************************************************)
EXTENDS Naturals, Sequences, FiniteSets, TLC, AcquisitionRoot, ExtractionQueue, Workspaces,
        Publications, RuleFiles, RunReport, Structure

CONSTANTS Torn, ReceiptBytes, w1, w2, w3, j1, j2, m1, m2, u1, u2, u3, t1, t2

VARIABLES part,
  foreign, attempt, results,
  content,
  pending, command, rows, runs

ofAcquisition == <<root, foreign, attempt, results>>
ofPublication == <<response, content, broken, stage, out>>
ofPipeline == <<disk, halfLinked, pending, command, ended, joins, compiled, rows, runs>>
vars ==
  <<part, workspaces, ofAcquisition, graphing, queue, ofPublication, ofPipeline, verdict>>

-----------------------------------------------------------------------------
\* One source, one artifact, two records of one projection, one mishap, no flaw.
Sources == INSTANCE Acquisition WITH
  NumSources <- 1, NumArtifacts <- 1, Body <- {w1, w2, w3}, RecordOf <- <<{w1, w2}>>,
  ProjectionOf <- (w1 :> j1 @@ w2 :> j1 @@ w3 :> j2), Pinned <- (2 :> w3),
  Unparsed <- {}, Flaw <- (j1 :> "none" @@ j2 :> "none"), MaxMishaps <- 1
\* A source whose records have every flaw, and no mishap.
Records == {"plain", "hashing", "linking", "listing"}
Answers == INSTANCE Acquisition WITH
  NumSources <- 1, NumArtifacts <- 0, Body <- Records \cup {"unparsed"},
  RecordOf <- <<Records>>, Pinned <- <<>>, Unparsed <- {"unparsed"},
  ProjectionOf <- [b \in Records \cup {"unparsed"} |-> b],
  Flaw <- [b \in Records \cup {"unparsed"} |-> IF b \in {"plain", "unparsed"} THEN "none" ELSE b],
  MaxMishaps <- 0

UpTo(S, n) == UNION {[1..k -> S] : k \in 0..n}

\* One page of every route, read twice, of at most two lines in each reading;
\* then headings of every depth, and bare labels, over two and over four pages.
Line(text, depth, place, bare, symbols) ==
  [text |-> text, depth |-> depth, place |-> place, bare |-> bare, symbols |-> symbols]
Body == {Line("a", 0, 1, FALSE, {}), Line("b", 0, 1, FALSE, {}), Line("blank", 0, 1, FALSE, {}),
         Line("formula", 0, 1, FALSE, {"equation", "unknown_unit"})}
Labelled == {Line("h1", 1, 1, FALSE, {}), Line("h2", 2, 1, FALSE, {}), Line("h3", 3, 1, FALSE, {}),
             Line("a", 0, 1, FALSE, {}), Line("7", 1, 1, TRUE, {}), Line("7", 1, 2, TRUE, {})}
PageOf(route, native, ocr, tabular, state) ==
  [route |-> route, native |-> native, ocr |-> ocr, tabular |-> tabular, state |-> state]
TwoReadings ==
  {PageOf(route, native, ocr, tabular, state) :
     route \in {"mixed", "suspect"}, native \in UpTo(Body, 2) \ {<<>>}, ocr \in UpTo(Body, 2),
     tabular \in BOOLEAN, state \in {"ready", "needs_review"}}
\* A page is routed to the OCR if its native text has nothing but blanks.
Scanned ==
  {PageOf("ocr", native, ocr, tabular, state) :
     native \in UpTo({l \in Body : l.text = "blank"}, 1), ocr \in UpTo(Body, 2),
     tabular \in BOOLEAN, state \in {"ready", "needs_review"}}
OneReading ==
  {PageOf("native", native, <<>>, tabular, state) :
     native \in UpTo(Body, 2), tabular \in BOOLEAN, state \in {"ready", "needs_review"}}
NoReading == {PageOf("none", <<>>, <<>>, FALSE, "failed")}
Headed(lines) == PageOf("native", lines, <<>>, FALSE, "ready")
ManyPages ==
  {[n \in 1..2 |-> Headed(x[n])] : x \in [1..2 -> [1..2 -> Labelled]]}
    \cup {[n \in 1..4 |-> Headed(<<x[n]>>)] : x \in [1..4 -> Labelled]}
Documents ==
  {<<x>> : x \in TwoReadings \cup Scanned \cup OneReading \cup NoReading} \cup ManyPages

\* Two answers to the job of pass A and two decisions about one pair.
Queue == INSTANCE Extraction

\* Two candidates, of one meaning or of two, at most two merges, and one broken text.  What
\* reconciles has at most one audit record that cites others or repeats an accepted one.
Text ==
  [of : Candidate, text : {"source", "accepted", "predicate", "merge", "audit"},
   how : {"separator", "surrogate"}]
Bundle == INSTANCE Publication WITH
  Meaning <- {m1, m2}, Breakages <- {{}} \cup {{x} : x \in Text}

Plainly(S) == {[id |-> c, cites |-> {c}, repeats |-> FALSE] : c \in S}
PlainResponses ==
  [accepted : UpTo(Bundle!Id, 2), merged : {x \in SUBSET Bundle!Merge : Cardinality(x) <= 2},
   rejected : {Plainly(S) : S \in SUBSET Candidate},
   deferred : {Plainly(S) : S \in SUBSET Candidate}]
OneOther(records) ==
  {(records \ {x}) \cup {y} : x \in records, y \in Bundle!Audit}
Answered(v) ==
  {v} \cup {[v EXCEPT !.rejected = x] : x \in OneOther(v.rejected)}
      \cup {[v EXCEPT !.deferred = x] : x \in OneOther(v.deferred)}

\* A file with one rule, one with two, and one that has not seen the first record; and,
\* of the operator, a rule that cites a record and one that cites no transcript.
OfTheOperator ==
  {[key |-> "k1", target |-> "attribute",
    citation |-> [record |-> "r1", revision |-> 1, keyed |-> TRUE]],
   [key |-> "k2", target |-> "property", citation |-> None]}
Rules == INSTANCE RulePipeline WITH
  Record <- {"r1", "r2"}, RuleKey <- {"k1", "k2"}, Revision <- {1},
  Version <- {"v1", "v2"}, MaxRuns <- 4,
  Extractions <- {[r1 |-> "k1", r2 |-> "no_assertion"], [r1 |-> "k1", r2 |-> "k2"],
                  [r1 |-> "unprocessed", r2 |-> "k1"]},
  Mappings <- {[k1 |-> "attribute", k2 |-> None], [k1 |-> "attribute", k2 |-> "property"]}
\* Four commands release a rule of the join; a file that kept its second link, the
\* operator's rules and another version are met within three.
FourthIsPlain ==
  runs' = 4 => halfLinked' = {} /\ \A s \in compiled' : s.ir \notin Handmade /\ s.version = "v1"

\* Every specification of at most two elements and two requirements alone, and packs
\* of one that is optional and silent, one that fails and one that has no requirement.
Reasons == {"ok", "broken", "missing", "unrecognised"}
Specification(cardinality, schema, matched, requirements) ==
  [cardinality |-> cardinality, schema |-> schema, matched |-> matched, requirements |-> requirements]
Cardinalities == {"required", "optional", "prohibited"}
Alone ==
  UNION {{Specification(c, TRUE, n, rs) : rs \in UpTo([1..n -> Reasons], 2)}
           : c \in Cardinalities, n \in 0..2}
  \cup
  UNION {{Specification(c, FALSE, n, rs) : rs \in UpTo([1..n -> Reasons], 1) \cup {<< <<>> >>}}
           : c \in Cardinalities, n \in 0..2}
Silent == Specification("optional", TRUE, 0, <<>>)
Failing == Specification("required", TRUE, 1, << <<"broken">> >>)
Bare == Specification("required", TRUE, 1, <<>>)
Packs == UpTo({Silent, Failing, Bare}, 2) \ {<<>>}
Model == INSTANCE Verdict WITH
  EntityLimit <- 1,
  Selections <- {<< <<s>> >> : s \in Alone} \cup (UpTo(Packs, 3) \ {<<>>})

\* Two requests at a time in one workspace of three people; and one request at a time
\* in two workspaces of two people.
Tenancy == INSTANCE Membership
OneWorkspace == \A p \in Server : request'[p].at = "creating" => request'[p].tenant = t1
TwoPeople ==
  \A p \in Server : request'[p].at \in {"creating", "granting"} => request'[p].user # u3
OneRequest == \A p, q \in Server : p = q \/ "idle" \in {request'[p].at, request'[q].at}

ASSUME ConstantsAssumption ==
  /\ Sources!ConstantsAssumption /\ Answers!ConstantsAssumption
  /\ StructureAssumption /\ Queue!ConstantsAssumption /\ Bundle!ConstantsAssumption
  /\ Rules!ConstantsAssumption /\ Model!ConstantsAssumption
  /\ Tenancy!ConstantsAssumption

-----------------------------------------------------------------------------
Parts == {"acquisition", "answers", "structure", "extraction", "publication", "pipeline", "verdict",
          "members", "workspaces"}

\* The answer, and the candidate, that a bundle has in the other parts.
NothingAnswered == [accepted |-> <<>>, merged |-> {}, rejected |-> {}, deferred |-> {}]
Plain == [meaning |-> m1, doubtful |-> FALSE]

\* In the other parts, one of the states that a part may begin in.
Init ==
  /\ part \in Parts
  /\ (part # "structure" => document \in {<<x>> : x \in NoReading}) /\ StructureInit
  /\ Sources!Init /\ (part # "acquisition" => foreign = {})
  /\ Queue!Init /\ Rules!Init /\ Tenancy!Init
  /\ part # "publication" => response = NothingAnswered /\ content = [c \in Candidate |-> Plain] /\ broken = {}
  /\ part = "publication" =>
       \E v \in PlainResponses : response \in IF Bundle!Reconciles(v) THEN Answered(v) ELSE {v}
  /\ Bundle!Init
  /\ (part # "verdict" => selection = << <<Silent>> >>) /\ Model!Init

Next ==
  /\ UNCHANGED part
  /\ \/ /\ \/ part = "acquisition" /\ Sources!Next /\ ~flawed'
           \/ part = "answers" /\ Answers!Next
        /\ UNCHANGED <<workspaces, graphing, queue, ofPublication, ofPipeline, verdict>>
     \/ /\ part = "structure" /\ StructureNext
        /\ UNCHANGED <<workspaces, ofAcquisition, queue, ofPublication, ofPipeline, verdict>>
     \/ /\ part = "extraction" /\ Queue!Next
        /\ UNCHANGED <<workspaces, ofAcquisition, graphing, ofPublication, ofPipeline, verdict>>
     \/ /\ part = "publication" /\ Bundle!Next
        /\ UNCHANGED <<workspaces, ofAcquisition, graphing, queue, ofPipeline, verdict>>
     \/ /\ part = "pipeline" /\ Rules!Next /\ FourthIsPlain
        /\ UNCHANGED <<workspaces, ofAcquisition, graphing, queue, ofPublication, verdict>>
     \/ /\ part = "verdict" /\ Model!Next
        /\ UNCHANGED <<workspaces, ofAcquisition, graphing, queue, ofPublication, ofPipeline>>
     \/ /\ \/ part = "members" /\ Tenancy!Next /\ OneWorkspace
           \/ part = "workspaces" /\ Tenancy!Next /\ TwoPeople /\ OneRequest
        /\ UNCHANGED <<ofAcquisition, graphing, queue, ofPublication, ofPipeline, verdict>>

Spec == Init /\ [][Next]_vars

\* The processes of a part, and two of the bodies, are alike.
Symmetry == Permutations(Process) \cup Permutations({w1, w2})

-----------------------------------------------------------------------------
(* "To resume ... rerun the same stage with exactly the same root": a run that   *)
(* died leaves a root that the next one, alone on it, does not refuse.          *)
RerunIsAccepted == part = "acquisition" => Sources!RerunIsAccepted
AcquisitionSpec == part = "acquisition" /\ Init /\ [][Next]_vars
=============================================================================
