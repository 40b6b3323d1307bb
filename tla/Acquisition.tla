----------------------------- MODULE Acquisition -----------------------------
(***************************************************************************)
(* acquisition.py: a run fetches the metadata records and the PDF files of *)
(* a catalogue into one root, puts what is not as expected in quarantine,  *)
(* and ends by writing acquisition.json, which indexes every payload.  The *)
(* next run starts from that receipt, recovers the temporaries an          *)
(* interrupted run left, and refuses a root it cannot account for.  Some   *)
(* answers, sound as they look, make a step raise what only the loop over  *)
(* the items catches: the result names nothing, and what is stored stays.  *)
(*                                                                         *)
(* One run at a time, as an operator starts them; it may die at any step.  *)
(* One action is one effect that the next run can see in the root.         *)
(***************************************************************************)
EXTENDS Naturals, AcquisitionRoot

CONSTANTS
  NumSources,    \* metadata sources of the catalogue ...
  NumArtifacts,  \* ... and artifacts, handled in this order
  Body,          \* what a server may send
  RecordOf,      \* the bodies that are the record of a source
  ProjectionOf,  \* what project_wordpress_record keeps of a body
  Unparsed,      \* the bodies on which it raises a ValueError, as for a bad href
  Flaw,          \* what goes wrong later with a projection
  Pinned,        \* the content the catalogue expects of an artifact
  Torn,          \* the content of a file whose writer died
  ReceiptBytes,  \* the content of a receipt
  MaxMishaps     \* bound: crashes and failing system calls in one behaviour

Source   == 1..NumSources
Artifact == (NumSources + 1)..(NumSources + NumArtifacts)
Item     == Source \cup Artifact
Projection == {ProjectionOf[b] : b \in Body}
Content == Body \cup Projection \cup {Torn, ReceiptBytes}

\* "hashing": a character that UTF-8 cannot encode; "linking": a link that cannot be
\* normalised; "listing": a field that the receipt's schema does not allow.
Flaws == {"none", "hashing", "linking", "listing"}
\* How a body comes: as it must, by transfer, status and media type; or not so; or
\* with a status above 599, for which the schema has no place.
Transfer == {"sound", "unsound", "unlisted"}

VARIABLES
  foreign,      \* the artifacts at whose path the operator has put another file
  attempt,      \* where the run stands
  results       \* what it has gathered for the receipt

vars == <<root, foreign, attempt, results>>
files == <<store, temporaries>>

-----------------------------------------------------------------------------
(* Names, receipts. *)

\* _cas_descriptor
CasName ==
  ({"raw"} \X Body) \cup ({"projections"} \X Projection) \cup ({"quarantine"} \X Content)
Name == CasName \cup {Target(a) : a \in Artifact}
ContentOf(n) == IF n[1] = "artifacts" THEN Pinned[n[2]] ELSE n[2]

\* The paths its results name, the paths its history names, and of the artifacts
\* those that are ready and those with an initial_transport.
Receipt == [paths : SUBSET CasName, history : SUBSET CasName,
            ready : SUBSET Artifact, attested : SUBSET Artifact]

ConstantsAssumption ==
  /\ NumSources \in Nat /\ NumArtifacts \in Nat
  /\ RecordOf \in [Source -> SUBSET Body]
  /\ DOMAIN ProjectionOf = Body
  /\ Unparsed \subseteq Body
  /\ Flaw \in [Projection -> Flaws]
  /\ Pinned \in [Artifact -> Body]
  /\ None \notin Receipt
  /\ MaxMishaps \in Nat

\* _scan_content_addressed_storage
ScanStorage == stored \cap CasName

\* Seeded fault: only what this run has seen is attested.
NoPriorTransports == {}
\* _prior_initial_transports: of results in any state.
PriorTransports == IF receipt = None THEN {} ELSE receipt.attested

NoResults ==
  [paths |-> {}, recovered |-> {}, ready |-> {}, attested |-> {},
   incomplete |-> FALSE, unexplained |-> FALSE]
Results == [paths : SUBSET CasName, recovered : SUBSET CasName, ready : SUBSET Artifact,
            attested : SUBSET Artifact, incomplete : BOOLEAN, unexplained : BOOLEAN]

Idle == [at |-> "idle"]
Between == [at : {"recovering", "written", "checking"}]
AtItem == [at : {"item"}, item : 1..(NumSources + NumArtifacts + 1)]
\* Installing a payload of an item, or, for item 0, a recovered temporary.
\* `raw` is the raw payload that goes with a projection.
Installing == [at : {"installing"}, item : Item \cup {0}, name : Name,
               link : {"none", "linked", "attesting"}, raw : SUBSET CasName]

TypeOK ==
  /\ stored \subseteq Name /\ doubled \subseteq stored
  /\ temporaries \subseteq Content
  /\ foreign \subseteq Artifact
  /\ receipt \in Receipt \cup {None}
  /\ attempt \in {Idle} \cup Between \cup AtItem \cup Installing
  /\ results \in Results
  /\ outcome \in {"none", "running", "returned", "raised", "died"}
  /\ flawed \in BOOLEAN
  /\ mishaps \in 0..MaxMishaps

Init ==
  /\ StoreInit
  /\ temporaries = {}
  /\ foreign \in SUBSET Artifact
  /\ receipt = None
  /\ attempt = Idle
  /\ results = NoResults
  /\ outcome = "none"
  /\ flawed = FALSE
  /\ mishaps = 0

-----------------------------------------------------------------------------
(* The beginning of a run. *)

End(how) == attempt' = Idle /\ results' = NoResults /\ outcome' = how

Start ==
  /\ attempt = Idle
  /\ attempt' = [at |-> "recovering"]
  /\ results' = [NoResults EXCEPT !.attested = PriorTransports]
  /\ outcome' = "running"
  /\ UNCHANGED <<files, foreign, flawed, receipt, mishaps>>

Installation(i, n, link, raw) ==
  [at |-> "installing", item |-> i, name |-> n, link |-> link, raw |-> raw]
Install(i, n, raw) == attempt' = Installation(i, n, "none", raw)

\* _recover_owned_temporaries, one file.
RecoverTemporary(c) ==
  /\ attempt.at = "recovering"
  /\ c \in temporaries
  /\ temporaries' = temporaries \ {c}
  /\ Install(0, <<"quarantine", c>>, {})
  /\ UNCHANGED <<store, foreign, flawed, receipt, results, outcome, mishaps>>

\* _reject_unknown_temporary_entries: a temporary with a second link is skipped
\* above and found here.
NoUnknownTemporary == doubled = {}

\* _validate_startup_storage_index
StorageIsIndexed ==
  LET indexed == Indexed(receipt) \cup results.recovered IN
    /\ ScanStorage \subseteq indexed
    /\ \A n \in indexed : Readable(n)

Accepts ==
  /\ attempt.at = "recovering"
  /\ temporaries = {}
  /\ NoUnknownTemporary /\ StorageIsIndexed
  /\ attempt' = [at |-> "item", item |-> 1]
  /\ UNCHANGED <<files, foreign, flawed, receipt, results, outcome, mishaps>>

RefuseRoot ==
  /\ attempt.at = "recovering"
  /\ temporaries = {}
  /\ ~(NoUnknownTemporary /\ StorageIsIndexed)
  /\ End("raised")
  /\ UNCHANGED <<files, foreign, flawed, receipt, mishaps>>

-----------------------------------------------------------------------------
(* One item: a metadata source or an artifact. *)

Done(i) == attempt' = [at |-> "item", item |-> i + 1]

AtItemOf(i) == attempt.at = "item" /\ attempt.item = i

\* A file at the target ends the matter, unless it is as pinned and no receipt
\* attests how it came here.
NeedsFetch(i) ==
  i \in Source \/ (i \notin foreign /\ ~(Target(i) \in stored /\ i \in results.attested))

\* The result of an answer whose status has no place is not whole.
Listed(how) ==
  /\ results' = [results EXCEPT !.incomplete = @ \/ how = "unlisted"]
  /\ flawed' = (flawed \/ how = "unlisted")

\* EXISTING_TARGET_CONFLICT
RejectExisting(a) ==
  /\ AtItemOf(a)
  /\ a \in foreign
  /\ Done(a)
  /\ UNCHANGED <<files, foreign, flawed, receipt, results, outcome, mishaps>>

ReuseExisting(a) ==
  /\ AtItemOf(a)
  /\ a \notin foreign /\ ~NeedsFetch(a)
  /\ results' = [results EXCEPT !.ready = @ \cup {a}]
  /\ Done(a)
  /\ UNCHANGED <<files, foreign, flawed, receipt, outcome, mishaps>>

\* No response, one without a body, or the deadline after a retry had discarded
\* the last body: a failure without a payload.
FetchNothing(i, how) ==
  /\ AtItemOf(i) /\ NeedsFetch(i)
  /\ how # "sound"
  /\ Listed(how)
  /\ Done(i)
  /\ UNCHANGED <<files, foreign, receipt, outcome, mishaps>>

\* Where a body goes.
Expected(i, b) == IF i \in Source THEN b \in RecordOf[i] ELSE b = Pinned[i]
Destination(i, b, how) ==
  CASE ~(how = "sound" /\ Expected(i, b)) -> <<"quarantine", b>>
    [] how = "sound" /\ Expected(i, b) /\ i \in Source -> <<"raw", b>>
    [] how = "sound" /\ Expected(i, b) /\ i \in Artifact -> Target(i)

IsUnparsed(i, b, how) == how = "sound" /\ i \in Source /\ b \in Unparsed

\* _stream_response leaves the body in a temporary.
FetchBody(i, b, how) ==
  /\ AtItemOf(i) /\ NeedsFetch(i)
  /\ ~IsUnparsed(i, b, how)
  /\ Listed(how)
  /\ Install(i, Destination(i, b, how), {})
  /\ UNCHANGED <<files, foreign, receipt, outcome, mishaps>>

\* project_wordpress_record raises what its caller does not catch, and the
\* temporary stays.
FetchUnparsed(i, b, how) ==
  /\ AtItemOf(i)
  /\ IsUnparsed(i, b, how)
  /\ temporaries' = temporaries \cup {b}
  /\ Done(i)
  /\ UNCHANGED <<store, foreign, flawed, receipt, results, outcome, mishaps>>

-----------------------------------------------------------------------------
(* _install_temp_no_clobber *)

Installs(link) == attempt.at = "installing" /\ attempt.link = link

FlawOf(n) ==
  CASE n[1] = "raw" -> Flaw[ProjectionOf[n[2]]]
    [] n[1] = "projections" -> Flaw[n[2]]
    [] OTHER -> "none"

\* What a result says of its payloads, once they are there: nothing, if the record
\* is one that cannot be hashed or linked.
Recorded(i, n, raw) ==
  CASE i = 0 -> [results EXCEPT !.recovered = @ \cup {n}]
    [] i # 0 /\ n[1] = "artifacts" ->
         [results EXCEPT !.ready = @ \cup {i}, !.attested = @ \cup {i}]
    [] i # 0 /\ n[1] # "artifacts" /\ FlawOf(n) \in {"hashing", "linking"} -> results
    [] i # 0 /\ n[1] # "artifacts" /\ FlawOf(n) \in {"none", "listing"} ->
         [results EXCEPT !.paths = @ \cup {n} \cup raw,
                         !.incomplete = @ \/ FlawOf(n) = "listing"]

\* The payload is installed: on to the projection of a raw record, to the next
\* temporary, or to the next item.
Installed ==
  LET i == attempt.item
      n == attempt.name
  IN IF n[1] = "raw" /\ FlawOf(n) # "hashing"
     THEN Install(i, <<"projections", ProjectionOf[n[2]]>>, {n}) /\ UNCHANGED <<results, flawed>>
     ELSE /\ results' = Recorded(i, n, attempt.raw)
          /\ flawed' = (flawed \/ FlawOf(n) # "none")
          /\ IF i = 0 THEN attempt' = [at |-> "recovering"] ELSE Done(i)

Advance(link) == attempt' = Installation(attempt.item, attempt.name, link, attempt.raw)

LinkPayload ==
  /\ Installs("none")
  /\ Link(attempt.name)
  /\ Advance("linked")
  /\ UNCHANGED <<temporaries, foreign, flawed, receipt, results, outcome, mishaps>>

ReusePayload ==
  /\ Installs("none")
  /\ Reuse(attempt.name)
  /\ Installed
  /\ UNCHANGED <<temporaries, foreign, receipt, outcome, mishaps>>

Unlink ==
  /\ Installs("linked")
  /\ UnlinkTemporary(attempt.name)
  /\ Advance("attesting")
  /\ UNCHANGED <<temporaries, foreign, flawed, receipt, results, outcome, mishaps>>

Attest ==
  /\ Installs("attesting")
  /\ Installed
  /\ UNCHANGED <<files, foreign, receipt, outcome, mishaps>>

-----------------------------------------------------------------------------
(* The end of a run. *)

AtEnd == attempt.at = "item" /\ attempt.item = NumSources + NumArtifacts + 1

\* _build_history: the previous history, what the previous results named and the
\* present ones do not, and what was recovered.
History ==
  (IF receipt = None THEN {} ELSE receipt.history \cup (receipt.paths \ results.paths))
  \cup results.recovered

NewReceipt ==
  [paths |-> results.paths, history |-> History,
   ready |-> results.ready, attested |-> results.attested]

\* Every payload is indexed, every indexed payload is there (_build_history), and
\* every result is whole (the schema, and _validate_receipt_invariants).
ReceiptIsValid ==
  /\ ScanStorage = Indexed(NewReceipt)
  /\ \A n \in Indexed(NewReceipt) : Readable(n)
  /\ ~results.incomplete

\* write_inventory begins with a temporary.
WriteReceipt ==
  /\ AtEnd /\ ReceiptIsValid
  /\ attempt' = [at |-> "written"]
  /\ UNCHANGED <<files, foreign, flawed, receipt, results, outcome, mishaps>>

RefuseReceipt ==
  /\ AtEnd /\ ~ReceiptIsValid
  /\ End("raised")
  /\ UNCHANGED <<files, foreign, flawed, receipt, mishaps>>

ReplaceReceipt ==
  /\ attempt.at = "written"
  /\ receipt' = NewReceipt
  /\ attempt' = [at |-> "checking"]
  /\ UNCHANGED <<files, foreign, flawed, results, outcome, mishaps>>

\* _validate_receipt_storage: a temporary that this run left behind is an
\* unaccounted entry, and a failed artifact must explain the file in its place.
CheckStorage ==
  /\ attempt.at = "checking"
  /\ End(IF /\ temporaries = {} /\ doubled = {}
            /\ ScanStorage = Indexed(receipt)
            /\ ~results.unexplained
         THEN "returned" ELSE "raised")
  /\ UNCHANGED <<files, foreign, flawed, receipt, mishaps>>

-----------------------------------------------------------------------------
(* Mishaps. *)

Mishap == mishaps < MaxMishaps /\ mishaps' = mishaps + 1

\* Seeded fault: whatever is at the destination is removed.
WithdrawAnything == Withdraw(attempt.name)
\* _unlink_if_identity: only what this installation has linked.
WithdrawOwn ==
  IF attempt.link = "none" THEN UNCHANGED store ELSE Withdraw(attempt.name)

\* A step of an installation fails with AcquisitionError: the caller puts the
\* body in quarantine, if there still is one ...
FailPayload ==
  /\ Mishap
  /\ attempt.at = "installing" /\ attempt.item # 0
  /\ attempt.name[1] \in {"raw", "artifacts"}
  /\ WithdrawOwn
  /\ IF attempt.link = "none"
     THEN Install(attempt.item, <<"quarantine", ContentOf(attempt.name)>>, {})
     ELSE Done(attempt.item)
  /\ UNCHANGED <<temporaries, foreign, flawed, receipt, results, outcome>>

\* ... gives up what was to go to quarantine ...
FailQuarantine ==
  /\ Mishap
  /\ attempt.at = "installing" /\ attempt.item # 0
  /\ attempt.name[1] = "quarantine"
  /\ WithdrawOwn
  /\ Done(attempt.item)
  /\ UNCHANGED <<temporaries, foreign, flawed, receipt, results, outcome>>

\* ... or records the raw payload with a projection that has no path.
FailProjection ==
  /\ Mishap
  /\ attempt.at = "installing"
  /\ attempt.name[1] = "projections"
  /\ WithdrawOwn
  /\ results' = [results EXCEPT !.paths = @ \cup attempt.raw, !.incomplete = TRUE]
  /\ Done(attempt.item)
  /\ UNCHANGED <<temporaries, foreign, flawed, receipt, outcome>>

\* fsync of the directory raises OSError, which only acquire_corpus catches:
\* INTERNAL_ACQUISITION_ERROR, a result that names nothing.
FailSync ==
  /\ Mishap
  /\ Installs("attesting") /\ attempt.item # 0
  /\ WithdrawOwn
  /\ Done(attempt.item)
  /\ UNCHANGED <<temporaries, foreign, flawed, receipt, results, outcome>>

\* The same, because the temporary of a body or of a projection could not be
\* written, and perhaps stays behind.
FailWrite ==
  /\ Mishap
  /\ \/ \E i \in Item : AtItemOf(i) /\ NeedsFetch(i) /\ Done(i)
     \/ Installs("none") /\ attempt.name[1] = "projections" /\ Done(attempt.item)
  /\ temporaries' \in {temporaries, temporaries \cup {Torn}}
  /\ UNCHANGED <<store, foreign, flawed, receipt, results, outcome>>

\* EXISTING_TARGET_INSPECTION_FAILED and its like: a verdict that does not explain
\* a file which is not as pinned.
FailExisting(a) ==
  /\ Mishap
  /\ AtItemOf(a)
  /\ a \in foreign \/ (a \in Artifact /\ Target(a) \in stored)
  /\ results' = [results EXCEPT !.unexplained = @ \/ a \in foreign]
  /\ Done(a)
  /\ UNCHANGED <<files, foreign, flawed, receipt, outcome>>

\* A recovery or the writing of the receipt fails, and the run with it.
FailRun ==
  /\ Mishap
  /\ \/ attempt.at = "installing" /\ attempt.item = 0
        /\ WithdrawOwn
        /\ temporaries' = IF attempt.link = "none"
                          THEN temporaries \cup {ContentOf(attempt.name)} ELSE temporaries
     \/ attempt.at = "written" /\ UNCHANGED files
  /\ End("raised")
  /\ UNCHANGED <<foreign, flawed, receipt>>

\* The temporary that the dead run was working with, if it had made it.
Abandoned ==
  CASE Installs("none") /\ attempt.item = 0 -> {{ContentOf(attempt.name)}}
    [] Installs("none") /\ attempt.item # 0 -> {{}, {ContentOf(attempt.name)}, {Torn}}
    [] attempt.at = "written" -> {{}, {ReceiptBytes}, {Torn}}
    [] OTHER -> {{}}

Crash ==
  /\ Mishap
  /\ attempt # Idle
  /\ \E left \in Abandoned : temporaries' = temporaries \cup left
  /\ End("died")
  /\ UNCHANGED <<store, foreign, flawed, receipt>>

-----------------------------------------------------------------------------
Handle(i) ==
  \/ RejectExisting(i)
  \/ ReuseExisting(i)
  \/ \E how \in Transfer :
       FetchNothing(i, how) \/ \E b \in Body : FetchBody(i, b, how) \/ FetchUnparsed(i, b, how)

Next ==
  \/ Start
  \/ \E c \in temporaries : RecoverTemporary(c)
  \/ Accepts
  \/ RefuseRoot
  \/ \E i \in Item : Handle(i) \/ FailExisting(i)
  \/ LinkPayload \/ ReusePayload \/ Unlink \/ Attest
  \/ WriteReceipt
  \/ RefuseReceipt
  \/ ReplaceReceipt
  \/ CheckStorage
  \/ FailPayload \/ FailQuarantine \/ FailProjection \/ FailSync \/ FailWrite
  \/ FailRun
  \/ Crash

Spec == Init /\ [][Next]_vars

-----------------------------------------------------------------------------
(* Properties. *)

\* "To resume ... rerun the same stage with exactly the same root": a root that
\* nobody else has touched is not refused.
RerunIsAccepted ==
  attempt.at = "recovering" /\ temporaries = {} => NoUnknownTemporary /\ StorageIsIndexed
=============================================================================
