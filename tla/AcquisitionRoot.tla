-------------------------- MODULE AcquisitionRoot --------------------------
(***************************************************************************)
(* The root of the acquired evidence as its readers see it: the files that *)
(* are installed there, acquisition.json which indexes them, and how the   *)
(* last run ended; and what may be relied on.  Acquisition has the steps.  *)
(***************************************************************************)
EXTENDS Null, ImmutableStore

VARIABLES
  receipt,      \* acquisition.json
  temporaries,  \* contents of the dot files that dead or failing runs left
  outcome,      \* how the last run ended
  flawed,       \* a server has sent what a run stores and its receipt cannot hold
  mishaps       \* crashes and failing system calls so far

root == <<store, temporaries, receipt, outcome, flawed, mishaps>>

Target(a) == <<"artifacts", a>>

\* _prior_cas_records
Indexed(r) == IF r = None THEN {} ELSE r.paths \cup r.history

-----------------------------------------------------------------------------
\* What a receipt indexes can be read, an artifact whose arrival it attests is in
\* its place, and only such an artifact is called ready: through every later run,
\* however it ends.
IndexedIsReadable ==
  receipt # None =>
    /\ \A n \in Indexed(receipt) : Readable(n)
    /\ \A a \in receipt.attested : Readable(Target(a))
    /\ receipt.ready \subseteq receipt.attested

\* "recording every terminal result": as long as no system call fails, a run is
\* refused only if a server has sent, to it or to an earlier run, what a receipt
\* cannot hold, or if it wrote its receipt and left the temporary of a body that
\* could not be parsed; from that one the next run recovers.
UndisturbedRunReturns ==
  mishaps = 0 /\ outcome = "raised" /\ ~flawed =>
    /\ temporaries # {}
    /\ \A n \in stored : n[1] # "artifacts" => n \in Indexed(receipt)

(* What a receipt indexes can be read, an artifact it attests is in its place,  *)
(* and without a failing system call or a flawed answer no root is spoilt.      *)
ReceiptIsTrue == IndexedIsReadable /\ UndisturbedRunReturns

(* "preserves ... raw official responses": no later receipt drops a payload, or *)
(* forgets how an artifact first came.                                          *)
NothingIsForgotten ==
  receipt # None =>
    /\ Indexed(receipt) \subseteq Indexed(receipt')
    /\ receipt.attested \subseteq receipt'.attested
EvidenceIsRetained == [][NothingIsForgotten]_root
=============================================================================
