-------------------------- MODULE AcquisitionProofs --------------------------
(***************************************************************************)
(* What a receipt says stays true of the root, for every catalogue, every  *)
(* body a server may send and any number of crashes and failing system     *)
(* calls; no evidence is forgotten; and without a failing system call, and *)
(* an answer that a receipt cannot hold, no root is spoilt.                *)
(***************************************************************************)
EXTENDS Acquisition, TLAPS

-----------------------------------------------------------------------------
(* The inductive invariant. *)

\* What is installed: a file at an artifact's target is that artifact's, a recovered
\* temporary goes to quarantine, and only a projection comes with a raw payload.
InstallationInv ==
  attempt.at = "installing" =>
    /\ attempt.item = 0 => attempt.name[1] = "quarantine"
    /\ attempt.name[1] = "artifacts" =>
         attempt.item \in Artifact /\ attempt.name = Target(attempt.item)
    /\ attempt.name[1] # "projections" => attempt.raw = {}

\* What this run attests is there, and it forgets nothing that was attested before.
ResultsInv ==
  /\ \A a \in results.attested : Readable(Target(a))
  /\ results.ready \subseteq results.attested
  /\ attempt.at # "idle" => PriorTransports \subseteq results.attested

\* A file that this installation has linked may be withdrawn: no receipt names it.
LinkInv ==
  attempt.at = "installing" /\ attempt.link # "none" =>
    /\ attempt.name \in stored
    /\ attempt.link = "attesting" => Readable(attempt.name)
    /\ attempt.name \notin Indexed(receipt)
    /\ \A a \in results.attested : attempt.name # Target(a)

WrittenInv == attempt.at = "written" => ReceiptIsValid

\* Without a mishap and a flawed answer the payloads in the root are those of the
\* receipt, those this run has recorded or recovered, and the one it is installing; a
\* temporary is of a body that could not be parsed.
Carried ==
  IF attempt.at = "installing"
  THEN attempt.raw \cup (IF attempt.link = "none" THEN {} ELSE {attempt.name} \cap CasName)
  ELSE {}
UndisturbedInv ==
  mishaps = 0 /\ ~flawed =>
    /\ ~results.incomplete /\ ~results.unexplained
    /\ attempt.at \in {"idle", "recovering"} => results.paths = {}
    /\ attempt.at = "idle" => results.recovered = {}
    /\ attempt.at = "installing" /\ attempt.item = 0 => results.paths = {}
    /\ doubled = IF attempt.at = "installing" /\ attempt.link = "linked"
                 THEN {attempt.name} ELSE {}
    /\ attempt.at # "checking" =>
         ScanStorage = Indexed(receipt) \cup results.paths \cup results.recovered \cup Carried
    /\ attempt.at = "checking" => ScanStorage = Indexed(receipt)
    /\ attempt.at # "idle" => outcome = "running"
    /\ attempt.at = "idle" => ScanStorage = Indexed(receipt) /\ (outcome = "raised" => temporaries # {})

-----------------------------------------------------------------------------
(* Names: a name is that of a payload in content addressed storage or the target *)
(* of an artifact, and its content is known.                                     *)
LEMMA Names ==
  ASSUME ConstantsAssumption, NEW n \in Name
  PROVE  /\ n[1] = "artifacts" => n \notin CasName /\ \E a \in Artifact : n = Target(a)
         /\ n[1] # "artifacts" => n \in CasName
         /\ n[1] = "raw" => n[2] \in Body
         /\ ContentOf(n) \in Content
<1>1. CASE \E a \in Artifact : n = Target(a)
  BY <1>1 DEF Target, CasName, ContentOf, Content, ConstantsAssumption
<1>2. CASE n \in {"raw"} \X Body
  BY <1>2 DEF CasName, ContentOf, Content
<1>3. CASE n \in {"projections"} \X Projection
  BY <1>3 DEF CasName, ContentOf, Content
<1>4. CASE n \in {"quarantine"} \X Content
  BY <1>4 DEF CasName, ContentOf
<1> QED
  BY <1>1, <1>2, <1>3, <1>4 DEF Name, CasName

(* Targets are names, and no payload's. *)
LEMMA Targets ==
  ASSUME NEW a \in Artifact
  PROVE  /\ Target(a) \in Name /\ Target(a) \notin CasName
         /\ Target(a)[1] = "artifacts"
         /\ \A b : Target(a) = Target(b) => a = b
BY DEF Target, Name, CasName

(* The payloads that an item may yield. *)
LEMMA Payloads ==
  ASSUME ConstantsAssumption
  PROVE  /\ \A c \in Content : <<"quarantine", c>> \in CasName /\ <<"quarantine", c>>[1] = "quarantine"
         /\ \A b \in Body : /\ b \in Content
                            /\ <<"raw", b>> \in CasName /\ <<"raw", b>>[1] = "raw"
                            /\ <<"projections", ProjectionOf[b]>> \in CasName
                            /\ <<"projections", ProjectionOf[b]>>[1] = "projections"
         /\ \A a \in Artifact : Pinned[a] \in Body
         /\ CasName \subseteq Name
BY DEF CasName, Name, Content, Projection, ConstantsAssumption

(* Items and the place of an item are numbers. *)
LEMMA Items ==
  ASSUME ConstantsAssumption
  PROVE  /\ \A i \in Item : i \in Nat /\ i # 0 /\ i + 1 \in 1..(NumSources + NumArtifacts + 1)
         /\ 1 \in 1..(NumSources + NumArtifacts + 1)
         /\ 0 \notin Item /\ Source \cap Artifact = {} /\ Artifact \subseteq Item
BY DEF Item, Source, Artifact, ConstantsAssumption

(* Where a run stands: the fields that its state has. *)
LEMMA Stands ==
  ASSUME TypeOK
  PROVE  /\ attempt.at \in {"idle", "recovering", "written", "checking", "item", "installing"}
         /\ attempt.at = "idle" <=> attempt = Idle
         /\ attempt.at = "item" => attempt.item \in 1..(NumSources + NumArtifacts + 1)
         /\ attempt.at = "installing" =>
              /\ attempt.item \in Item \cup {0}
              /\ attempt.name \in Name
              /\ attempt.link \in {"none", "linked", "attesting"}
              /\ attempt.raw \subseteq CasName
<1>1. attempt \in {Idle} \cup Between \cup AtItem \cup Installing
  BY DEF TypeOK
<1> QED
  BY <1>1 DEF Idle, Between, AtItem, Installing

(* The places to which the steps move a run. *)
LEMMA Places ==
  /\ \A at \in {"recovering", "written", "checking"} : [at |-> at] \in Between
  /\ Idle.at = "idle"
  /\ \A i \in 1..(NumSources + NumArtifacts + 1) : [at |-> "item", item |-> i] \in AtItem
  /\ \A i \in Item \cup {0}, n \in Name, link \in {"none", "linked", "attesting"},
       raw \in SUBSET CasName : Installation(i, n, link, raw) \in Installing
BY DEF Between, Idle, AtItem, Installing, Installation

(* What the three moves of a run make of `attempt`. *)
LEMMA DoneMoves ==
  ASSUME ConstantsAssumption, NEW i \in Item, Done(i)
  PROVE  attempt' \in AtItem /\ attempt'.at = "item"
BY Items, Places DEF Done

LEMMA InstallMoves ==
  ASSUME NEW i \in Item \cup {0}, NEW n \in Name, NEW raw \in SUBSET CasName,
         Install(i, n, raw)
  PROVE  /\ attempt' \in Installing /\ attempt'.at = "installing"
         /\ attempt'.item = i /\ attempt'.name = n
         /\ attempt'.link = "none" /\ attempt'.raw = raw
BY Places DEF Install, Installation

LEMMA AdvanceMoves ==
  ASSUME TypeOK, attempt.at = "installing", NEW link \in {"linked", "attesting"}, Advance(link)
  PROVE  /\ attempt' \in Installing /\ attempt'.at = "installing"
         /\ attempt'.item = attempt.item /\ attempt'.name = attempt.name
         /\ attempt'.link = link /\ attempt'.raw = attempt.raw
BY Stands, Places DEF Advance, Installation

(* When an installation is at its end: the raw payload leads to its projection, *)
(* and everything else to a result.                                             *)
LEMMA InstalledMoves ==
  ASSUME ConstantsAssumption, TypeOK, InstallationInv, attempt.at = "installing", Installed
  PROVE  \/ /\ attempt.name[1] = "raw" /\ UNCHANGED <<results, flawed>>
            /\ attempt' \in Installing /\ attempt'.at = "installing"
            /\ attempt'.item = attempt.item /\ attempt'.link = "none" /\ attempt.item # 0
            /\ attempt'.name \in CasName /\ attempt'.name[1] = "projections"
            /\ attempt'.raw = {attempt.name}
         \/ /\ results' = Recorded(attempt.item, attempt.name, attempt.raw)
            /\ flawed' = (flawed \/ FlawOf(attempt.name) # "none")
            /\ attempt.name[1] = "raw" => FlawOf(attempt.name) = "hashing"
            /\ \/ attempt.item = 0 /\ attempt' \in Between /\ attempt'.at = "recovering"
               \/ attempt.item \in Item /\ attempt' \in AtItem /\ attempt'.at = "item"
<1> DEFINE n == attempt.name
<1>1. CASE n[1] = "raw" /\ FlawOf(n) # "hashing"
  <2>1. n[2] \in Body /\ n \in CasName
    BY <1>1, Names, Stands
  <2>2. <<"projections", ProjectionOf[n[2]]>> \in CasName
    BY <2>1, Payloads
  <2>3. Install(attempt.item, <<"projections", ProjectionOf[n[2]]>>, {n})
        /\ UNCHANGED <<results, flawed>>
    BY <1>1 DEF Installed
  <2>4. /\ attempt' \in Installing /\ attempt'.at = "installing"
        /\ attempt'.item = attempt.item
        /\ attempt'.name = <<"projections", ProjectionOf[n[2]]>>
        /\ attempt'.link = "none" /\ attempt'.raw = {n}
    BY <2>1, <2>2, <2>3, Stands, Payloads, InstallMoves
  <2>5. attempt.item # 0
    BY <1>1 DEF InstallationInv
  <2> QED
    BY <1>1, <2>2, <2>3, <2>4, <2>5
<1>2. CASE ~(n[1] = "raw" /\ FlawOf(n) # "hashing") /\ attempt.item = 0
  BY <1>2, Places DEF Installed
<1>3. CASE ~(n[1] = "raw" /\ FlawOf(n) # "hashing") /\ attempt.item # 0
  BY <1>3, Stands, DoneMoves DEF Installed
<1> QED
  BY <1>1, <1>2, <1>3

(* The flaw of a name is one of the flaws. *)
LEMMA FlawsAreFlaws ==
  ASSUME ConstantsAssumption, NEW n \in Name
  PROVE  FlawOf(n) \in Flaws
<1>1. CASE n[1] = "raw"
  BY <1>1, Names DEF FlawOf, ConstantsAssumption, Projection
<1>2. CASE n[1] = "projections"
  <2>1. n[2] \in Projection
    BY <1>2 DEF Name, CasName, Target
  <2> QED
    BY <1>2, <2>1 DEF FlawOf, ConstantsAssumption
<1>3. CASE n[1] # "raw" /\ n[1] # "projections"
  BY <1>3 DEF FlawOf, Flaws
<1> QED
  BY <1>1, <1>2, <1>3

(* What is recorded is of the type of results. *)
LEMMA RecordedTyped ==
  ASSUME ConstantsAssumption, TypeOK, InstallationInv, attempt.at = "installing"
  PROVE  Recorded(attempt.item, attempt.name, attempt.raw) \in Results
<1>1. attempt.item = 0 => attempt.name \in CasName
  BY Stands, Names DEF InstallationInv
<1>2. attempt.name[1] = "artifacts" => attempt.item \in Artifact
  BY DEF InstallationInv
<1>3. attempt.name[1] # "artifacts" => attempt.name \in CasName
  BY Stands, Names
<1>4. FlawOf(attempt.name) \in Flaws
  BY Stands, FlawsAreFlaws
<1>5. (results.incomplete \/ FlawOf(attempt.name) = "listing") \in BOOLEAN
  OBVIOUS
<1> QED
  BY <1>1, <1>2, <1>3, <1>4, <1>5, Stands DEF TypeOK, Recorded, Results, Flaws

-----------------------------------------------------------------------------
(* Every step is of the right type. *)
LEMMA TypeInvariant ==
  ASSUME ConstantsAssumption, TypeOK, InstallationInv, Next
  PROVE  TypeOK'
<1> USE DEF TypeOK, files, store
<1>1. CASE Start
  <2>1. PriorTransports \subseteq Artifact
    BY DEF PriorTransports, Receipt
  <2> QED
    BY <1>1, <2>1, Places DEF Start, NoResults, Results
<1>2. ASSUME NEW c \in temporaries, RecoverTemporary(c) PROVE TypeOK'
  BY <1>2, Payloads, InstallMoves DEF RecoverTemporary
<1>3. CASE Accepts
  BY <1>3, Items, Places DEF Accepts
<1>4. CASE RefuseRoot
  BY <1>4, Places DEF RefuseRoot, End, NoResults, Results
<1>5. ASSUME NEW i \in Item, Handle(i) PROVE TypeOK'
  <2>1. CASE RejectExisting(i)
    BY <1>5, <2>1, DoneMoves DEF RejectExisting
  <2>2. CASE ReuseExisting(i)
    <3>1. i \in Artifact
      BY <2>2, <1>5 DEF ReuseExisting, NeedsFetch, Item
    <3> QED
      BY <1>5, <2>2, <3>1, DoneMoves DEF ReuseExisting, Results
  <2>3. ASSUME NEW how \in Transfer, Listed(how)
        PROVE  results' \in Results /\ flawed' \in BOOLEAN
    <3>1. (results.incomplete \/ how = "unlisted") \in BOOLEAN
      OBVIOUS
    <3> QED
      BY <2>3, <3>1 DEF Listed, Results
  <2>4. ASSUME NEW how \in Transfer, FetchNothing(i, how) PROVE TypeOK'
    BY <1>5, <2>3, <2>4, DoneMoves DEF FetchNothing
  <2>5. ASSUME NEW how \in Transfer, NEW b \in Body, FetchBody(i, b, how) PROVE TypeOK'
    <3>1. Destination(i, b, how) \in Name
      BY <1>5, Payloads, Targets DEF Destination, Item
    <3> QED
      BY <1>5, <2>3, <2>5, <3>1, InstallMoves DEF FetchBody
  <2>6. ASSUME NEW how \in Transfer, NEW b \in Body, FetchUnparsed(i, b, how) PROVE TypeOK'
    BY <1>5, <2>6, DoneMoves DEF FetchUnparsed, Content
  <2> QED
    BY <1>5, <2>1, <2>2, <2>4, <2>5, <2>6 DEF Handle
<1>6. ASSUME NEW i \in Item, FailExisting(i) PROVE TypeOK'
  <2>1. results' \in Results
    <3>1. (results.unexplained \/ i \in foreign) \in BOOLEAN
      OBVIOUS
    <3> QED
      BY <1>6, <3>1 DEF FailExisting, Results
  <2> QED
    BY <1>6, <2>1, DoneMoves DEF FailExisting, Mishap, ConstantsAssumption
<1>7. CASE LinkPayload
  BY <1>7, Stands, AdvanceMoves DEF LinkPayload, Installs, Link
<1>8. CASE ReusePayload
  <2>1. flawed' \in BOOLEAN
    BY <1>8, InstalledMoves DEF ReusePayload, Installs
  <2> QED
    BY <1>8, <2>1, InstalledMoves, RecordedTyped, Stands DEF ReusePayload, Installs, Reuse
<1>9. CASE Unlink
  BY <1>9, Stands, AdvanceMoves DEF Unlink, Installs, UnlinkTemporary
<1>10. CASE Attest
  <2>1. flawed' \in BOOLEAN
    BY <1>10, InstalledMoves DEF Attest, Installs
  <2> QED
    BY <1>10, <2>1, InstalledMoves, RecordedTyped, Stands DEF Attest, Installs
<1>11. CASE WriteReceipt
  BY <1>11, Places DEF WriteReceipt
<1>12. CASE RefuseReceipt
  BY <1>12, Places DEF RefuseReceipt, End, NoResults, Results
<1>13. CASE ReplaceReceipt
  <2>1. NewReceipt \in Receipt
    BY DEF NewReceipt, History, Receipt, Results
  <2> QED
    BY <1>13, <2>1, Places DEF ReplaceReceipt
<1>14. CASE CheckStorage
  BY <1>14, Places DEF CheckStorage, End, NoResults, Results
<1>15. CASE FailPayload
  <2>1. CASE attempt.link = "none"
    <3>1. <<"quarantine", ContentOf(attempt.name)>> \in Name
      BY <1>15, Stands, Names, Payloads DEF FailPayload
    <3> QED
      BY <1>15, <2>1, <3>1, Stands, InstallMoves
         DEF FailPayload, WithdrawOwn, Mishap, ConstantsAssumption
  <2>2. CASE attempt.link # "none"
    BY <1>15, <2>2, Stands, DoneMoves
       DEF FailPayload, WithdrawOwn, Withdraw, Mishap, ConstantsAssumption
  <2> QED
    BY <2>1, <2>2
<1>16. CASE FailQuarantine
  BY <1>16, Stands, DoneMoves
     DEF FailQuarantine, WithdrawOwn, Withdraw, Mishap, ConstantsAssumption
<1>17. CASE FailProjection
  <2>1. attempt.item \in Item
    BY <1>17, Stands DEF FailProjection, InstallationInv
  <2>2. results' \in Results
    BY <1>17, Stands DEF FailProjection, Results
  <2> QED
    BY <1>17, <2>1, <2>2, DoneMoves
       DEF FailProjection, WithdrawOwn, Withdraw, Mishap, ConstantsAssumption
<1>18. CASE FailSync
  BY <1>18, Stands, DoneMoves
     DEF FailSync, Installs, WithdrawOwn, Withdraw, Mishap, ConstantsAssumption
<1>19. CASE FailWrite
  <2>1. attempt.at = "installing" /\ attempt.name[1] = "projections" => attempt.item \in Item
    BY Stands DEF InstallationInv
  <2>2. \E i \in Item : Done(i)
    BY <1>19, <2>1 DEF FailWrite, Installs
  <2> QED
    BY <1>19, <2>2, DoneMoves DEF FailWrite, Mishap, ConstantsAssumption, Content
<1>20. CASE FailRun
  <2>1. attempt.at = "installing" => ContentOf(attempt.name) \in Content
    BY Stands, Names
  <2> QED
    BY <1>20, <2>1, Places
       DEF FailRun, WithdrawOwn, Withdraw, Mishap, ConstantsAssumption, End, NoResults, Results
<1>21. CASE Crash
  <2>1. attempt.at = "installing" => ContentOf(attempt.name) \in Content
    BY Stands, Names
  <2>2. \A left \in Abandoned : left \subseteq Content
    BY <2>1 DEF Abandoned, Installs, Content
  <2> QED
    BY <1>21, <2>2, Places
       DEF Crash, Mishap, ConstantsAssumption, End, NoResults, Results
<1> QED
  BY <1>1, <1>2, <1>3, <1>4, <1>5, <1>6, <1>7, <1>8, <1>9, <1>10, <1>11, <1>12, <1>13, <1>14,
     <1>15, <1>16, <1>17, <1>18, <1>19, <1>20, <1>21 DEF Next

-----------------------------------------------------------------------------
(* What is installed is of its item. *)
LEMMA InstallationInvariant ==
  ASSUME ConstantsAssumption, TypeOK, InstallationInv, Next
  PROVE  InstallationInv'
<1> USE DEF InstallationInv
<1>1. CASE Start \/ Accepts
  BY <1>1 DEF Start, Accepts
<1>2. ASSUME NEW c \in temporaries, RecoverTemporary(c) PROVE InstallationInv'
  <2>1. <<"quarantine", c>> \in Name /\ <<"quarantine", c>>[1] = "quarantine"
    BY Payloads DEF TypeOK
  <2>2. Install(0, <<"quarantine", c>>, {})
    BY <1>2 DEF RecoverTemporary
  <2> QED
    BY <2>1, <2>2, InstallMoves
<1>3. CASE RefuseRoot \/ RefuseReceipt \/ CheckStorage \/ FailRun \/ Crash
  BY <1>3, Places DEF RefuseRoot, RefuseReceipt, CheckStorage, FailRun, Crash, End
<1>4. ASSUME NEW i \in Item, Handle(i) PROVE InstallationInv'
  <2>1. CASE RejectExisting(i) \/ ReuseExisting(i) \/ (\E how \in Transfer : FetchNothing(i, how))
             \/ \E how \in Transfer, b \in Body : FetchUnparsed(i, b, how)
    BY <1>4, <2>1, DoneMoves DEF RejectExisting, ReuseExisting, FetchNothing, FetchUnparsed
  <2>2. ASSUME NEW b \in Body, NEW how \in Transfer, FetchBody(i, b, how) PROVE InstallationInv'
    <3> DEFINE n == Destination(i, b, how)
    <3>1. n \in Name /\ (n[1] = "artifacts" => i \in Artifact /\ n = Target(i))
      <4>1. CASE how = "sound" /\ Expected(i, b) /\ i \in Artifact
        BY <4>1, Items, Targets DEF Destination
      <4>2. CASE how = "sound" /\ Expected(i, b) /\ i \in Source
        BY <4>2, Items, Payloads DEF Destination
      <4>3. CASE ~(how = "sound" /\ Expected(i, b))
        BY <4>3, Payloads DEF Destination
      <4> QED
        BY <1>4, <4>1, <4>2, <4>3 DEF Item
    <3>2. Install(i, n, {})
      BY <2>2 DEF FetchBody
    <3>3. /\ attempt'.item = i /\ attempt'.name = n /\ attempt'.raw = {}
      BY <1>4, <3>1, <3>2, InstallMoves
    <3> QED
      BY <1>4, <3>1, <3>3, Items
  <2> QED
    BY <1>4, <2>1, <2>2 DEF Handle
<1>5. ASSUME NEW i \in Item, FailExisting(i) PROVE InstallationInv'
  BY <1>5, DoneMoves DEF FailExisting
<1>6. CASE LinkPayload \/ Unlink
  BY <1>6, AdvanceMoves DEF LinkPayload, Unlink, Installs
<1>7. CASE ReusePayload \/ Attest
  BY <1>7, InstalledMoves DEF ReusePayload, Attest, Installs
<1>8. CASE WriteReceipt \/ ReplaceReceipt
  BY <1>8 DEF WriteReceipt, ReplaceReceipt
<1>9. CASE FailPayload
  <2> DEFINE n == <<"quarantine", ContentOf(attempt.name)>>
  <2>1. n \in Name /\ n[1] = "quarantine"
    BY <1>9, Stands, Names, Payloads DEF FailPayload
  <2> QED
    BY <1>9, <2>1, Stands, InstallMoves, DoneMoves DEF FailPayload
<1>10. CASE FailQuarantine \/ FailProjection \/ FailSync \/ FailWrite
  <2>1. \E i \in Item : Done(i)
    BY <1>10, Stands DEF FailQuarantine, FailProjection, FailSync, FailWrite, Installs
  <2> QED
    BY <2>1, DoneMoves
<1> QED
  BY <1>1, <1>2, <1>3, <1>4, <1>5, <1>6, <1>7, <1>8, <1>9, <1>10 DEF Next

-----------------------------------------------------------------------------
(* No step of a run makes a file unreadable but one that withdraws what the run *)
(* itself has linked.                                                           *)
LEMMA ReadablesStay ==
  ASSUME Next
  PROVE  \A n : Readable(n) /\ (attempt.at = "installing" /\ attempt.link # "none" => n # attempt.name)
                => n \in stored' \ doubled'
<1> USE DEF Readable, files, store
<1>1. CASE Start \/ Accepts \/ RefuseRoot \/ WriteReceipt \/ RefuseReceipt \/ ReplaceReceipt
           \/ CheckStorage \/ FailWrite \/ Crash
  BY <1>1 DEF Start, Accepts, RefuseRoot, WriteReceipt, RefuseReceipt, ReplaceReceipt,
              CheckStorage, FailWrite, Crash
<1>2. ASSUME NEW c \in temporaries, RecoverTemporary(c) PROVE UNCHANGED store
  BY <1>2 DEF RecoverTemporary
<1>3. ASSUME NEW i \in Item, Handle(i) \/ FailExisting(i) PROVE UNCHANGED store
  BY <1>3 DEF Handle, RejectExisting, ReuseExisting, FetchNothing, FetchBody, FetchUnparsed,
              FailExisting
<1>4. CASE LinkPayload \/ ReusePayload \/ Unlink \/ Attest
  BY <1>4 DEF LinkPayload, Link, ReusePayload, Reuse, Unlink, UnlinkTemporary, Attest
<1>5. CASE FailPayload \/ FailQuarantine \/ FailProjection \/ FailSync \/ FailRun
  BY <1>5 DEF FailPayload, FailQuarantine, FailProjection, FailSync, Installs, FailRun,
              WithdrawOwn, Withdraw
<1> QED
  BY <1>1, <1>2, <1>3, <1>4, <1>5 DEF Next

\* The part of the invariant that speaks of files, whatever goes wrong.
ReadableInv == ResultsInv /\ LinkInv /\ WrittenInv /\ IndexedIsReadable

(* What the receipt indexes and what is attested is readable after every step. *)
LEMMA ProtectedStay ==
  ASSUME TypeOK, ReadableInv, Next
  PROVE  /\ \A n \in Indexed(receipt) : n \in stored' \ doubled'
         /\ \A a \in results.attested : Target(a) \in stored' \ doubled'
         /\ receipt # None => \A a \in receipt.attested : Target(a) \in stored' \ doubled'
<1> USE DEF ReadableInv
<1>1. \A n \in Indexed(receipt) : Readable(n)
  BY DEF IndexedIsReadable, Indexed
<1>2. attempt.at = "installing" /\ attempt.link # "none" =>
        /\ attempt.name \notin Indexed(receipt)
        /\ \A a \in results.attested : attempt.name # Target(a)
        /\ receipt # None => receipt.attested \subseteq results.attested
  BY DEF LinkInv, ResultsInv, PriorTransports
<1>3. \A a \in results.attested : Readable(Target(a))
  BY DEF ResultsInv
<1>4. receipt # None => \A a \in receipt.attested : Readable(Target(a))
  BY DEF IndexedIsReadable
<1> QED
  BY <1>1, <1>2, <1>3, <1>4, ReadablesStay

(* A step that leaves the receipt alone, and attests what was attested or is    *)
(* readable.                                                                    *)
LEMMA ReceiptStands ==
  ASSUME TypeOK, ReadableInv, Next, receipt' = receipt,
         \A a \in results'.attested : a \in results.attested \/ Target(a) \in stored' \ doubled',
         results'.ready \subseteq results'.attested,
         attempt'.at # "idle" => PriorTransports \subseteq results'.attested
  PROVE  ResultsInv' /\ IndexedIsReadable'
<1>1. IndexedIsReadable'
  BY ProtectedStay DEF ReadableInv, IndexedIsReadable, Readable, Indexed
<1>2. ResultsInv'
  BY ProtectedStay DEF ResultsInv, Readable, PriorTransports
<1> QED
  BY <1>1, <1>2

\* A step that gathers nothing new, or ends the run.
Gathers ==
  \/ results' = NoResults /\ attempt'.at = "idle"
  \/ /\ results'.attested = results.attested /\ results'.ready = results.ready
     /\ attempt.at # "idle"

LEMMA GatheredStands ==
  ASSUME TypeOK, ReadableInv, Next, receipt' = receipt, Gathers
  PROVE  ResultsInv' /\ IndexedIsReadable'
<1>1. CASE results' = NoResults /\ attempt'.at = "idle"
  BY <1>1, ReceiptStands DEF NoResults
<1>2. CASE results'.attested = results.attested /\ results'.ready = results.ready /\ attempt.at # "idle"
  BY <1>2, ReceiptStands DEF ReadableInv, ResultsInv
<1> QED
  BY <1>1, <1>2 DEF Gathers

(* Whatever goes wrong, what is indexed and what is attested stays readable,    *)
(* and nothing is withdrawn that a receipt names.                               *)
LEMMA ReadableInvariant ==
  ASSUME ConstantsAssumption, TypeOK, InstallationInv, ReadableInv, Next
  PROVE  ReadableInv'
<1> USE DEF ReadableInv
<1>1. CASE Start
  <2>1. /\ receipt' = receipt /\ results'.attested = PriorTransports /\ results'.ready = {}
        /\ attempt'.at = "recovering"
    BY <1>1 DEF Start, NoResults
  <2>2. \A a \in PriorTransports : Target(a) \in stored' \ doubled'
    BY ProtectedStay DEF PriorTransports
  <2>3. ResultsInv' /\ IndexedIsReadable'
    BY <2>1, <2>2, ReceiptStands
  <2> QED
    BY <2>1, <2>3 DEF LinkInv, WrittenInv
<1>2. ASSUME NEW c \in temporaries, RecoverTemporary(c) PROVE ReadableInv'
  <2>1. <<"quarantine", c>> \in Name
    BY Payloads DEF TypeOK
  <2>2. attempt'.at = "installing" /\ attempt'.link = "none"
    BY <1>2, <2>1, InstallMoves DEF RecoverTemporary
  <2>3. Gathers /\ receipt' = receipt
    BY <1>2 DEF RecoverTemporary, Gathers
  <2> QED
    BY <2>2, <2>3, GatheredStands DEF LinkInv, WrittenInv
<1>3. CASE Accepts
  BY <1>3, GatheredStands DEF Accepts, Gathers, LinkInv, WrittenInv
<1>4. CASE RefuseRoot \/ RefuseReceipt \/ CheckStorage \/ FailRun \/ Crash
  <2>1. attempt'.at = "idle" /\ results' = NoResults /\ receipt' = receipt
    BY <1>4, Places DEF RefuseRoot, RefuseReceipt, CheckStorage, FailRun, Crash, End
  <2>2. ResultsInv' /\ IndexedIsReadable'
    BY <2>1, GatheredStands DEF Gathers
  <2> QED
    BY <2>1, <2>2 DEF LinkInv, WrittenInv
<1>5. ASSUME NEW i \in Item, Handle(i) PROVE ReadableInv'
  <2>0. ASSUME NEW how \in Transfer, Listed(how)
        PROVE  results'.attested = results.attested /\ results'.ready = results.ready
    BY <2>0 DEF Listed, TypeOK, Results
  <2>1. CASE RejectExisting(i) \/ (\E how \in Transfer : FetchNothing(i, how))
             \/ \E how \in Transfer, b \in Body : FetchUnparsed(i, b, how)
    <3>1. attempt'.at = "item"
      BY <1>5, <2>1, DoneMoves DEF RejectExisting, FetchNothing, FetchUnparsed
    <3>2. Gathers /\ receipt' = receipt
      BY <2>0, <2>1 DEF RejectExisting, FetchNothing, FetchUnparsed, AtItemOf, Gathers
    <3> QED
      BY <3>1, <3>2, GatheredStands DEF LinkInv, WrittenInv
  <2>2. CASE ReuseExisting(i)
    <3>1. attempt'.at = "item" /\ receipt' = receipt /\ attempt.at = "item"
      BY <1>5, <2>2, DoneMoves DEF ReuseExisting, AtItemOf
    <3>2. i \in results.attested
      BY <2>2 DEF ReuseExisting, NeedsFetch
    <3>3. results'.attested = results.attested /\ results'.ready = results.ready \cup {i}
      BY <2>2 DEF ReuseExisting, TypeOK, Results
    <3>4. ResultsInv' /\ IndexedIsReadable'
      BY <3>1, <3>2, <3>3, ReceiptStands DEF ResultsInv
    <3> QED
      BY <3>1, <3>4 DEF LinkInv, WrittenInv
  <2>3. ASSUME NEW b \in Body, NEW how \in Transfer, FetchBody(i, b, how) PROVE ReadableInv'
    <3>1. Destination(i, b, how) \in Name
      BY <1>5, Payloads, Targets DEF Destination, Item
    <3>2. attempt'.at = "installing" /\ attempt'.link = "none"
      BY <1>5, <2>3, <3>1, InstallMoves DEF FetchBody
    <3>3. Gathers /\ receipt' = receipt
      BY <2>0, <2>3 DEF FetchBody, AtItemOf, Gathers
    <3> QED
      BY <3>2, <3>3, GatheredStands DEF LinkInv, WrittenInv
  <2> QED
    BY <1>5, <2>1, <2>2, <2>3 DEF Handle
<1>6. ASSUME NEW i \in Item, FailExisting(i) PROVE ReadableInv'
  <2>1. attempt'.at = "item"
    BY <1>6, DoneMoves DEF FailExisting
  <2>2. results'.attested = results.attested /\ results'.ready = results.ready
    BY <1>6 DEF FailExisting, TypeOK, Results
  <2>3. Gathers /\ receipt' = receipt
    BY <1>6, <2>2 DEF FailExisting, AtItemOf, Gathers
  <2> QED
    BY <2>1, <2>3, GatheredStands DEF LinkInv, WrittenInv
<1>7. CASE LinkPayload
  <2> DEFINE n == attempt.name
  <2>1. /\ attempt.at = "installing" /\ attempt.link = "none" /\ n \notin stored
        /\ stored' = stored \cup {n} /\ UNCHANGED <<receipt, results>> /\ Advance("linked")
    BY <1>7 DEF LinkPayload, Installs, Link
  <2>2. attempt'.at = "installing" /\ attempt'.name = n /\ attempt'.link = "linked"
    BY <2>1, AdvanceMoves
  <2>3. ResultsInv' /\ IndexedIsReadable'
    BY <2>1, GatheredStands DEF Gathers
  <2>4. n \notin Indexed(receipt) /\ \A a \in results.attested : n # Target(a)
    BY <2>1 DEF IndexedIsReadable, ResultsInv, Readable, Indexed
  <2>5. LinkInv'
    BY <2>1, <2>2, <2>4 DEF LinkInv, Indexed
  <2> QED
    BY <2>2, <2>3, <2>5 DEF WrittenInv
<1>8. CASE Unlink
  <2> DEFINE n == attempt.name
  <2>1. /\ attempt.at = "installing" /\ attempt.link = "linked"
        /\ stored' = stored /\ doubled' = doubled \ {n}
        /\ UNCHANGED <<receipt, results>> /\ Advance("attesting")
    BY <1>8 DEF Unlink, Installs, UnlinkTemporary
  <2>2. attempt'.at = "installing" /\ attempt'.name = n /\ attempt'.link = "attesting"
    BY <2>1, AdvanceMoves
  <2>3. ResultsInv' /\ IndexedIsReadable'
    BY <2>1, GatheredStands DEF Gathers
  <2>4. LinkInv'
    BY <2>1, <2>2 DEF LinkInv, Indexed, Readable
  <2> QED
    BY <2>2, <2>3, <2>4 DEF WrittenInv
<1>9. CASE ReusePayload \/ Attest
  <2> DEFINE n == attempt.name
  <2>1. attempt.at = "installing" /\ Installed /\ UNCHANGED <<stored, doubled, receipt>>
    BY <1>9 DEF ReusePayload, Attest, Installs, Reuse, store, files
  <2>2. Readable(n)
    BY <1>9 DEF ReusePayload, Attest, Installs, Reuse, LinkInv
  <2>3. attempt'.at = "installing" => attempt'.link = "none"
    BY <2>1, InstalledMoves
  <2>4. CASE results' = results
    BY <2>1, <2>3, <2>4, GatheredStands, InstalledMoves DEF Gathers, LinkInv, WrittenInv
  <2>5. CASE results' = Recorded(attempt.item, n, attempt.raw)
    <3>0. FlawOf(n) \in Flaws
      BY <2>1, Stands, FlawsAreFlaws
    <3>1. results'.attested = IF attempt.item # 0 /\ n[1] = "artifacts"
                              THEN results.attested \cup {attempt.item} ELSE results.attested
      BY <2>5, <3>0 DEF Recorded, TypeOK, Results, Flaws
    <3>2. results'.ready = IF attempt.item # 0 /\ n[1] = "artifacts"
                           THEN results.ready \cup {attempt.item} ELSE results.ready
      BY <2>5, <3>0 DEF Recorded, TypeOK, Results, Flaws
    <3>3. n[1] = "artifacts" => n = Target(attempt.item)
      BY <2>1 DEF InstallationInv
    <3>4. \A a \in results'.attested : a \in results.attested \/ Target(a) \in stored' \ doubled'
      BY <2>1, <2>2, <3>1, <3>3 DEF Readable
    <3>5. ResultsInv' /\ IndexedIsReadable'
      BY <2>1, <3>1, <3>2, <3>4, ReceiptStands DEF ResultsInv
    <3> QED
      BY <2>1, <2>3, <3>5, InstalledMoves DEF LinkInv, WrittenInv
  <2> QED
    BY <2>1, <2>4, <2>5, InstalledMoves
<1>10. CASE WriteReceipt
  <2>1. attempt'.at = "written" /\ attempt.at = "item"
        /\ UNCHANGED <<stored, doubled, receipt, results>>
    BY <1>10 DEF WriteReceipt, AtEnd, files, store
  <2>2. ResultsInv' /\ IndexedIsReadable'
    BY <2>1, GatheredStands DEF Gathers
  <2>3. ReceiptIsValid'
    BY <1>10, <2>1 DEF WriteReceipt, ReceiptIsValid, ScanStorage, NewReceipt, History, Indexed,
                       Readable
  <2> QED
    BY <2>1, <2>2, <2>3 DEF LinkInv, WrittenInv
<1>11. CASE ReplaceReceipt
  <2>1. /\ attempt.at = "written" /\ attempt'.at = "checking"
        /\ UNCHANGED <<stored, doubled, results>> /\ receipt' = NewReceipt
    BY <1>11 DEF ReplaceReceipt, files, store
  <2>2. \A n \in Indexed(NewReceipt) : Readable(n)
    BY <2>1 DEF WrittenInv, ReceiptIsValid
  <2>3. NewReceipt.attested = results.attested /\ NewReceipt.ready = results.ready
    BY DEF NewReceipt
  <2>4. NewReceipt # None
    <3>1. NewReceipt \in Receipt
      BY DEF NewReceipt, History, Receipt, TypeOK, Results
    <3> QED
      BY <3>1 DEF ConstantsAssumption
  <2>5. IndexedIsReadable'
    BY <2>1, <2>2, <2>3 DEF IndexedIsReadable, ResultsInv, Readable
  <2>6. ResultsInv'
    BY <2>1, <2>3 DEF ResultsInv, Readable, PriorTransports
  <2> QED
    BY <2>1, <2>5, <2>6 DEF LinkInv, WrittenInv
<1>12. CASE FailPayload \/ FailQuarantine \/ FailProjection \/ FailSync \/ FailWrite
  <2>1. (attempt'.at = "installing" /\ attempt'.link = "none") \/ attempt'.at = "item"
    <3>1. CASE FailPayload /\ attempt.link = "none"
      <4>1. <<"quarantine", ContentOf(attempt.name)>> \in Name
        BY <3>1, Stands, Names, Payloads DEF FailPayload
      <4> QED
        BY <3>1, <4>1, Stands, InstallMoves DEF FailPayload
    <3>2. CASE \E i \in Item : Done(i)
      BY <3>2, DoneMoves
    <3>3. attempt.at = "installing" /\ attempt.name[1] = "projections" => attempt.item \in Item
      BY Stands DEF InstallationInv
    <3> QED
      BY <1>12, <3>1, <3>2, <3>3, Stands
         DEF FailPayload, FailQuarantine, FailProjection, FailSync, FailWrite, Installs
  <2>2. results'.attested = results.attested /\ results'.ready = results.ready
    BY <1>12 DEF FailPayload, FailQuarantine, FailProjection, FailSync, FailWrite, TypeOK, Results
  <2>3. Gathers /\ receipt' = receipt
    BY <1>12, <2>2 DEF FailPayload, FailQuarantine, FailProjection, FailSync, FailWrite, Installs,
                       AtItemOf, Gathers
  <2> QED
    BY <2>1, <2>3, GatheredStands DEF LinkInv, WrittenInv
<1> QED
  BY <1>1, <1>2, <1>3, <1>4, <1>5, <1>6, <1>7, <1>8, <1>9, <1>10, <1>11, <1>12 DEF Next

(* A receipt indexes what the one before it did: what its results do not name   *)
(* goes to its history.                                                         *)
LEMMA ReceiptsGrow ==
  ASSUME ConstantsAssumption, TypeOK, ReadableInv, Next
  PROVE  NothingIsForgotten
<1>1. CASE ReplaceReceipt
  <2>1. receipt # None => PriorTransports = receipt.attested
    BY DEF PriorTransports
  <2>2. NewReceipt \in Receipt
    BY DEF NewReceipt, History, Receipt, TypeOK, Results
  <2>3. NewReceipt # None
    BY <2>2 DEF ConstantsAssumption
  <2> QED
    BY <1>1, <2>1, <2>3
       DEF ReplaceReceipt, NothingIsForgotten, NewReceipt, History, Indexed, ReadableInv, ResultsInv
<1>2. CASE receipt' = receipt
  BY <1>2 DEF NothingIsForgotten, Indexed
<1>3. Next => ReplaceReceipt \/ receipt' = receipt
  BY DEF Next, Start, RecoverTemporary, Accepts, RefuseRoot, Handle, RejectExisting, ReuseExisting,
         FetchNothing, FetchBody, FetchUnparsed, FailExisting, LinkPayload, ReusePayload, Unlink, Attest,
         WriteReceipt, RefuseReceipt, CheckStorage, FailPayload, FailQuarantine, FailProjection,
         FailSync, FailWrite, FailRun, Crash
<1> QED
  BY <1>1, <1>2, <1>3

-----------------------------------------------------------------------------
(* Without a mishap and a flawed answer: every payload in the root is accounted *)
(* for, so neither the root nor a receipt is refused.                           *)

\* All that the invariant says of runs with mishaps, too.
Safe == TypeOK /\ InstallationInv /\ ReadableInv

(* The storage is what is to be indexed when a run is through its items.        *)
LEMMA UndisturbedReceiptIsValid ==
  ASSUME ConstantsAssumption, Safe, UndisturbedInv, mishaps = 0, ~flawed, attempt.at = "item"
  PROVE  ReceiptIsValid
<1>1. Carried = {} /\ ScanStorage = Indexed(receipt) \cup results.paths \cup results.recovered
  BY DEF UndisturbedInv, Carried
<1>2. Indexed(NewReceipt) = results.paths \cup History
  <2>1. NewReceipt # None
    BY DEF NewReceipt, History, Receipt, Safe, TypeOK, Results, ConstantsAssumption
  <2> QED
    BY <2>1 DEF Indexed, NewReceipt
<1>3. results.paths \cup History = Indexed(receipt) \cup results.paths \cup results.recovered
  BY DEF History, Indexed
<1>4. \A n \in ScanStorage : Readable(n)
  BY DEF UndisturbedInv, ScanStorage, Readable
<1> QED
  BY <1>1, <1>2, <1>3, <1>4 DEF UndisturbedInv, ReceiptIsValid

(* And so is the root in which a run begins. *)
LEMMA UndisturbedRootIsIndexed ==
  ASSUME Safe, UndisturbedInv, mishaps = 0, ~flawed, attempt.at = "recovering"
  PROVE  NoUnknownTemporary /\ StorageIsIndexed
<1>1. doubled = {} /\ Carried = {} /\ ScanStorage = Indexed(receipt) \cup results.recovered
  BY DEF UndisturbedInv, Carried
<1>2. \A n \in Indexed(receipt) : Readable(n)
  BY DEF Safe, ReadableInv, IndexedIsReadable, Indexed
<1>3. \A n \in ScanStorage : Readable(n)
  BY <1>1 DEF ScanStorage, Readable
<1> QED
  BY <1>1, <1>2, <1>3 DEF NoUnknownTemporary, StorageIsIndexed

(* An answer once flawed stays so. *)
LEMMA FlawsStay ==
  ASSUME Next, ~flawed'
  PROVE  ~flawed
BY DEF Next, Start, RecoverTemporary, Accepts, RefuseRoot, Handle, RejectExisting, ReuseExisting,
       FetchNothing, FetchBody, FetchUnparsed, Listed, FailExisting, LinkPayload, ReusePayload,
       Unlink, Attest, Installed, WriteReceipt, RefuseReceipt, ReplaceReceipt, CheckStorage,
       FailPayload, FailQuarantine, FailProjection, FailSync, FailWrite, FailRun, Crash

(* Without a mishap and a flaw no step adds a payload to the root but the one   *)
(* that is installed.                                                           *)
LEMMA UndisturbedInvariant ==
  ASSUME ConstantsAssumption, Safe, UndisturbedInv, Next, mishaps' = 0, ~flawed'
  PROVE  UndisturbedInv'
<1>1. mishaps = 0
  <2>1. Mishap \/ mishaps' = mishaps
    BY DEF Next, Start, RecoverTemporary, Accepts, RefuseRoot, Handle, RejectExisting,
           ReuseExisting, FetchNothing, FetchBody, FetchUnparsed, FailExisting, LinkPayload,
           ReusePayload, Unlink, Attest, WriteReceipt, RefuseReceipt, ReplaceReceipt, CheckStorage,
           FailPayload, FailQuarantine, FailProjection, FailSync, FailWrite, FailRun, Crash
  <2>2. mishaps \in 0..MaxMishaps /\ MaxMishaps \in Nat
    BY DEF Safe, TypeOK, ConstantsAssumption
  <2> QED
    BY <2>1, <2>2 DEF Mishap
<1>2. ~Mishap /\ ~flawed
  BY <1>1, FlawsStay DEF Mishap
<1> USE <1>1, <1>2 DEF UndisturbedInv, ScanStorage, Carried
<1>3. CASE Start
  <2>1. /\ attempt.at = "idle" /\ attempt'.at = "recovering"
        /\ UNCHANGED <<stored, doubled, temporaries, receipt>> /\ outcome' = "running"
    BY <1>3 DEF Start, Idle, files, store
  <2>2. /\ results'.paths = {} /\ results'.recovered = {}
        /\ ~results'.incomplete /\ ~results'.unexplained
    BY <1>3 DEF Start, NoResults
  <2> QED
    BY <2>1, <2>2 DEF Indexed
<1>4. CASE Accepts
  <2>1. attempt.at = "recovering" /\ attempt'.at = "item"
        /\ UNCHANGED <<stored, doubled, temporaries, receipt, results, outcome>>
    BY <1>4 DEF Accepts, files, store
  <2>2. outcome = "running"
    BY <2>1
  <2> QED
    BY <2>1, <2>2 DEF Indexed
<1>5. CASE RefuseRoot
  BY <1>5, UndisturbedRootIsIndexed DEF RefuseRoot
<1>6. ASSUME NEW i \in Item, Handle(i) PROVE UndisturbedInv'
  <2>0. ASSUME NEW how \in Transfer, Listed(how)
        PROVE  results' = results
    <3>1. how # "unlisted"
      BY <2>0 DEF Listed
    <3>2. (results.incomplete \/ how = "unlisted") = results.incomplete
      BY <3>1 DEF Safe, TypeOK, Results
    <3> QED
      BY <2>0, <3>2 DEF Listed, Safe, TypeOK, Results
  <2>1. CASE RejectExisting(i) \/ \E how \in Transfer : FetchNothing(i, how)
    BY <1>6, <2>0, <2>1, DoneMoves DEF RejectExisting, FetchNothing, AtItemOf, files, store, Indexed
  <2>2. CASE ReuseExisting(i)
    <3>1. /\ results'.paths = results.paths /\ results'.recovered = results.recovered
          /\ results'.incomplete = results.incomplete
          /\ results'.unexplained = results.unexplained
      BY <2>2 DEF ReuseExisting, Safe, TypeOK, Results
    <3> QED
      BY <1>6, <2>2, <3>1, DoneMoves DEF ReuseExisting, AtItemOf, files, store, Indexed
  <2>3. ASSUME NEW b \in Body, NEW how \in Transfer, FetchBody(i, b, how) PROVE UndisturbedInv'
    <3>1. Destination(i, b, how) \in Name
      BY <1>6, Payloads, Targets DEF Destination, Item
    <3>2. /\ attempt'.at = "installing" /\ attempt'.item = i
          /\ attempt'.link = "none" /\ attempt'.raw = {}
      BY <1>6, <2>3, <3>1, InstallMoves DEF FetchBody
    <3>3. results' = results
      BY <2>0, <2>3 DEF FetchBody
    <3> QED
      BY <1>6, <2>3, <3>2, <3>3, Items DEF FetchBody, AtItemOf, files, store, Indexed
  <2>4. ASSUME NEW b \in Body, NEW how \in Transfer, FetchUnparsed(i, b, how) PROVE UndisturbedInv'
    BY <1>6, <2>4, DoneMoves DEF FetchUnparsed, AtItemOf, store, Indexed
  <2> QED
    BY <1>6, <2>1, <2>2, <2>3, <2>4 DEF Handle
<1>7. CASE LinkPayload
  <2>1. /\ attempt.at = "installing" /\ attempt.link = "none" /\ attempt.name \notin stored
        /\ stored' = stored \cup {attempt.name} /\ doubled' = doubled \cup {attempt.name}
        /\ UNCHANGED <<temporaries, receipt, results, outcome>>
    BY <1>7 DEF LinkPayload, Installs, Link
  <2>2. /\ attempt'.at = "installing" /\ attempt'.item = attempt.item
        /\ attempt'.name = attempt.name /\ attempt'.link = "linked" /\ attempt'.raw = attempt.raw
    BY <1>7, <2>1, AdvanceMoves DEF LinkPayload, Safe
  <2>3. ScanStorage' = ScanStorage \cup ({attempt.name} \cap CasName)
    BY <2>1
  <2> QED
    BY <2>1, <2>2, <2>3 DEF Indexed
<1>8. CASE Unlink
  <2>1. /\ attempt.at = "installing" /\ attempt.link = "linked"
        /\ stored' = stored /\ doubled' = doubled \ {attempt.name}
        /\ UNCHANGED <<temporaries, receipt, results, outcome>>
    BY <1>8 DEF Unlink, Installs, UnlinkTemporary
  <2>2. /\ attempt'.at = "installing" /\ attempt'.item = attempt.item
        /\ attempt'.name = attempt.name /\ attempt'.link = "attesting" /\ attempt'.raw = attempt.raw
    BY <1>8, <2>1, AdvanceMoves DEF Unlink, Safe
  <2> QED
    BY <2>1, <2>2 DEF Indexed
<1>9. CASE ReusePayload \/ Attest
  <2> DEFINE n == attempt.name
  <2>1. /\ attempt.at = "installing" /\ Installed
        /\ UNCHANGED <<stored, doubled, temporaries, receipt, outcome>>
        /\ n \in stored /\ doubled = {}
    BY <1>9 DEF ReusePayload, Attest, Installs, Reuse, Readable, store, files, Safe, ReadableInv,
                LinkInv
  <2>2. ScanStorage = Indexed(receipt) \cup results.paths \cup results.recovered
                        \cup attempt.raw \cup ({n} \cap CasName)
    BY <1>9, <2>1 DEF ReusePayload, Attest, Installs, Reuse, Readable
  <2>3. n \in Name /\ attempt.raw \subseteq CasName /\ (n[1] # "projections" => attempt.raw = {})
    BY <2>1, Stands DEF Safe, InstallationInv
  <2>4. CASE n[1] = "raw" /\ results' = results /\ attempt'.at = "installing"
             /\ attempt'.item = attempt.item /\ attempt.item # 0
             /\ attempt'.link = "none" /\ attempt'.raw = {n}
    <3>1. n \in CasName
      BY <2>3, <2>4, Names
    <3> QED
      BY <2>1, <2>2, <2>3, <2>4, <3>1 DEF Indexed
  <2>5. CASE /\ results' = Recorded(attempt.item, n, attempt.raw)
             /\ flawed' = (flawed \/ FlawOf(n) # "none")
             /\ n[1] = "raw" => FlawOf(n) = "hashing"
             /\ attempt.item = 0 => attempt'.at = "recovering"
             /\ attempt.item # 0 => attempt'.at = "item"
    <3>1. FlawOf(n) = "none" /\ n[1] # "raw"
      BY <2>5
    <3>2. CASE attempt.item = 0
      <4>1. n[1] = "quarantine" /\ n \in CasName
        BY <2>1, <2>3, <3>2, Names DEF Safe, InstallationInv
      <4>2. /\ results'.paths = results.paths /\ results'.recovered = results.recovered \cup {n}
            /\ results'.incomplete = results.incomplete
            /\ results'.unexplained = results.unexplained
        BY <2>5, <3>2 DEF Recorded, Safe, TypeOK, Results
      <4>3. outcome # "raised"
        BY <2>1
      <4> QED
        BY <2>1, <2>2, <2>3, <2>5, <3>2, <4>1, <4>2, <4>3 DEF Indexed
    <3>3. CASE attempt.item # 0 /\ n[1] = "artifacts"
      <4>1. n \notin CasName
        BY <2>3, <3>3, Names
      <4>2. /\ results'.paths = results.paths /\ results'.recovered = results.recovered
            /\ results'.incomplete = results.incomplete
            /\ results'.unexplained = results.unexplained
        BY <2>5, <3>3 DEF Recorded, Safe, TypeOK, Results
      <4> QED
        BY <2>1, <2>2, <2>3, <2>5, <3>3, <4>1, <4>2 DEF Indexed
    <3>4. CASE attempt.item # 0 /\ n[1] # "artifacts"
      <4>1. n \in CasName
        BY <2>3, <3>4, Names
      <4>2. /\ results'.paths = results.paths \cup {n} \cup attempt.raw
            /\ results'.recovered = results.recovered
            /\ results'.incomplete = (results.incomplete \/ FlawOf(n) = "listing")
            /\ results'.unexplained = results.unexplained
        BY <2>5, <3>1, <3>4 DEF Recorded, Safe, TypeOK, Results
      <4> QED
        BY <2>1, <2>2, <2>5, <3>1, <3>4, <4>1, <4>2 DEF Indexed
    <3> QED
      BY <3>2, <3>3, <3>4
  <2> QED
    BY <2>1, <2>4, <2>5, InstalledMoves, Items DEF Safe
<1>10. CASE WriteReceipt
  BY <1>10 DEF WriteReceipt, AtEnd, files, store, Indexed
<1>11. CASE RefuseReceipt
  BY <1>11, UndisturbedReceiptIsValid DEF RefuseReceipt, AtEnd
<1>12. CASE ReplaceReceipt
  <2>1. ScanStorage = Indexed(NewReceipt)
    BY <1>12 DEF ReplaceReceipt, Safe, ReadableInv, WrittenInv, ReceiptIsValid
  <2>2. attempt.at = "written" /\ attempt'.at = "checking" /\ receipt' = NewReceipt
        /\ UNCHANGED <<stored, doubled, temporaries, results, outcome>>
    BY <1>12 DEF ReplaceReceipt, files, store
  <2>3. Indexed(receipt)' = Indexed(NewReceipt)
    BY <2>2 DEF Indexed
  <2> QED
    BY <2>1, <2>2, <2>3
<1>13. CASE CheckStorage
  <2>1. /\ attempt.at = "checking" /\ attempt'.at = "idle" /\ results' = NoResults
        /\ UNCHANGED <<stored, doubled, temporaries, receipt>>
    BY <1>13, Places DEF CheckStorage, End, files, store
  <2>2. doubled = {} /\ ScanStorage = Indexed(receipt) /\ ~results.unexplained
    BY <2>1
  <2>3. outcome' = "raised" => temporaries # {}
    BY <1>13, <2>2 DEF CheckStorage, End
  <2> QED
    BY <2>1, <2>2, <2>3 DEF NoResults, Indexed
<1>14. ASSUME NEW c \in temporaries, RecoverTemporary(c) PROVE UndisturbedInv'
  <2>1. <<"quarantine", c>> \in Name
    BY Payloads DEF Safe, TypeOK
  <2>2. /\ attempt'.at = "installing" /\ attempt'.item = 0
        /\ attempt'.link = "none" /\ attempt'.raw = {}
    BY <1>14, <2>1, InstallMoves DEF RecoverTemporary
  <2>3. /\ attempt.at = "recovering" /\ UNCHANGED <<stored, doubled, receipt, results, outcome>>
    BY <1>14 DEF RecoverTemporary, store
  <2>4. outcome = "running"
    BY <2>3
  <2> QED
    BY <2>2, <2>3, <2>4 DEF Indexed
<1> QED
  BY <1>2, <1>3, <1>4, <1>5, <1>6, <1>7, <1>8, <1>9, <1>10, <1>11, <1>12, <1>13, <1>14
     DEF Next, FailExisting, FailPayload, FailQuarantine, FailProjection, FailSync, FailWrite,
         FailRun, Crash

-----------------------------------------------------------------------------
(* The invariant, and what follows from it. *)
Inv == Safe /\ UndisturbedInv

LEMMA InitInvariant ==
  ASSUME ConstantsAssumption, Init
  PROVE  Inv
<1> USE DEF Init, StoreInit, Idle, NoResults
<1>1. TypeOK
  <2>1. results \in Results
    BY DEF Results
  <2>2. flawed \in BOOLEAN
    OBVIOUS
  <2>3. mishaps \in 0..MaxMishaps
    BY DEF ConstantsAssumption
  <2> QED
    BY <2>1, <2>2, <2>3 DEF TypeOK
<1>2. InstallationInv /\ ReadableInv
  BY DEF InstallationInv, ReadableInv, ResultsInv, LinkInv, WrittenInv, IndexedIsReadable
<1>3. UndisturbedInv
  BY DEF UndisturbedInv, ScanStorage, Indexed, Carried
<1> QED
  BY <1>1, <1>2, <1>3 DEF Inv, Safe

LEMMA NextInvariant ==
  ASSUME ConstantsAssumption, Inv, [Next]_vars
  PROVE  Inv' /\ [NothingIsForgotten]_root
<1>1. ASSUME Inv, Next PROVE Inv' /\ NothingIsForgotten
  <2>1. TypeOK' /\ InstallationInv' /\ ReadableInv'
    BY <1>1, TypeInvariant, InstallationInvariant, ReadableInvariant DEF Inv, Safe
  <2>2. UndisturbedInv'
    <3>1. CASE mishaps' = 0 /\ ~flawed'
      BY <1>1, <3>1, UndisturbedInvariant DEF Inv
    <3>2. CASE ~(mishaps' = 0 /\ ~flawed')
      BY <3>2 DEF UndisturbedInv
    <3> QED
      BY <3>1, <3>2
  <2>3. NothingIsForgotten
    BY <1>1, ReceiptsGrow DEF Inv, Safe
  <2> QED
    BY <2>1, <2>2, <2>3 DEF Inv, Safe
<1>2. ASSUME Inv, UNCHANGED vars PROVE Inv' /\ UNCHANGED root
  <2> USE <1>2 DEF Inv, vars, root, store
  <2>1. TypeOK' /\ InstallationInv'
    BY DEF Safe, TypeOK, InstallationInv
  <2>2. ReadableInv'
    BY DEF Safe, ReadableInv, ResultsInv, LinkInv, WrittenInv, IndexedIsReadable, Readable, Indexed,
           PriorTransports, ReceiptIsValid, ScanStorage, NewReceipt, History
  <2>3. UndisturbedInv'
    BY DEF UndisturbedInv, ScanStorage, Indexed, Carried
  <2> QED
    BY <2>1, <2>2, <2>3 DEF Safe, root
<1> QED
  BY <1>1, <1>2

(* The files, the receipt and the run that is under way agree at every step.     *)
THEOREM InvariantHolds == ASSUME ConstantsAssumption PROVE Spec => []Inv
<1>1. Init => Inv
  BY InitInvariant
<1>2. Inv /\ [Next]_vars => Inv'
  BY NextInvariant
<1> QED
  BY <1>1, <1>2, PTL DEF Spec

(* What a receipt indexes can be read and what it attests is in its place, for   *)
(* every number of crashes and failing calls; without any, a run is refused only *)
(* for a flawed answer, or leaves a receipt and a temporary that the next one    *)
(* recovers.                                                                     *)
THEOREM ReceiptsAreTrue == ASSUME ConstantsAssumption PROVE Spec => []ReceiptIsTrue
<1>1. Inv => ReceiptIsTrue
  <2> SUFFICES ASSUME Inv PROVE ReceiptIsTrue
    OBVIOUS
  <2>1. IndexedIsReadable
    BY DEF Inv, Safe, ReadableInv
  <2>2. ASSUME mishaps = 0, outcome = "raised", ~flawed
        PROVE  temporaries # {} /\ \A n \in stored : n[1] # "artifacts" => n \in Indexed(receipt)
    <3>1. attempt.at = "idle" /\ temporaries # {} /\ ScanStorage = Indexed(receipt)
      BY <2>2 DEF Inv, UndisturbedInv
    <3>2. \A n \in stored : n[1] # "artifacts" => n \in CasName
      BY Names DEF Inv, Safe, TypeOK
    <3> QED
      BY <3>1, <3>2 DEF ScanStorage
  <2> QED
    BY <2>1, <2>2 DEF ReceiptIsTrue, UndisturbedRunReturns
<1> QED
  BY <1>1, InvariantHolds, PTL

(* No later receipt drops a payload or forgets how an artifact first came.       *)
THEOREM NoEvidenceIsForgotten == ASSUME ConstantsAssumption PROVE Spec => EvidenceIsRetained
<1>1. Init => Inv
  BY InitInvariant
<1>2. Inv /\ [Next]_vars => Inv' /\ [NothingIsForgotten]_root
  BY NextInvariant
<1> QED
  BY <1>1, <1>2, PTL DEF Spec, EvidenceIsRetained
=============================================================================
