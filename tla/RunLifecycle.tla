---------------------------- MODULE RunLifecycle ----------------------------
(***************************************************************************)
(* What a check run promises to whoever polls it: it is created, attempted *)
(* a bounded number of times, and ends once and for all.                   *)
(***************************************************************************)
EXTENDS Naturals

CONSTANTS Run, MaxClaims

VARIABLES phase, attempts
vars == <<phase, attempts>>

InFlight(r) == phase[r] \in {"pending", "running"}

Init ==
  /\ phase = [r \in Run |-> "absent"]
  /\ attempts = [r \in Run |-> 0]

Create(r) ==
  /\ phase[r] = "absent"
  /\ phase' = [phase EXCEPT ![r] = "pending"]
  /\ UNCHANGED attempts

Attempt(r) ==
  /\ InFlight(r)
  /\ attempts[r] < MaxClaims
  /\ phase' = [phase EXCEPT ![r] = "running"]
  /\ attempts' = [attempts EXCEPT ![r] = @ + 1]

\* A result exists only for a run that was attempted.
Succeed(r) ==
  /\ phase[r] = "running"
  /\ phase' = [phase EXCEPT ![r] = "succeeded"]
  /\ UNCHANGED attempts

\* A sweep may fail several runs in one statement.
Fail(rows) ==
  /\ \A r \in rows : InFlight(r)
  /\ phase' = [r \in Run |-> IF r \in rows THEN "failed" ELSE phase[r]]
  /\ UNCHANGED attempts

Next ==
  \/ \E r \in Run : Create(r) \/ Attempt(r) \/ Succeed(r)
  \/ \E rows \in SUBSET Run : Fail(rows)

End(r) == Succeed(r) \/ \E rows \in SUBSET Run : r \in rows /\ Fail(rows)

Spec == Init /\ [][Next]_vars /\ \A r \in Run : WF_vars(End(r))
=============================================================================
