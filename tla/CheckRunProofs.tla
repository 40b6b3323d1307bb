--------------------------- MODULE CheckRunProofs ---------------------------
(***************************************************************************)
(* The safety properties of CheckRun, proved for every set of runs,        *)
(* reviews, workers and requesters.                                        *)
(***************************************************************************)
EXTENDS CheckRun, FiniteSetTheorems, TLAPS

(* What the state of a process says about the fields it has. *)
LEMMA WorkerFields ==
  ASSUME NEW s \in WorkerState
  PROVE  /\ s.at \in {"idle", "claiming", "evaluating", "committed", "retrying", "done"}
         /\ s.at # "idle" => /\ s.msg \in Message
                             /\ s.msg.run \in Run /\ s.msg.retries \in 0..MaxRetries
         /\ s.at = "evaluating" => s.taskId \in BOOLEAN /\ s.claims \in Nat
BY DEF WorkerState, IdleWorker, HoldsMessage, Evaluates, Message

LEMMA WorkerStates ==
  ASSUME NEW m \in Message
  PROVE  /\ \A a \in {"claiming", "committed", "retrying", "done"} :
              [at |-> a, msg |-> m] \in WorkerState
         /\ \A t \in BOOLEAN, c \in Nat :
              [at |-> "evaluating", msg |-> m, taskId |-> t, claims |-> c] \in WorkerState
BY DEF WorkerState, HoldsMessage, Evaluates

LEMMA RequesterFields ==
  ASSUME NEW s \in RequesterState
  PROVE  /\ s.at \in {"idle", "blocked", "reaped", "admitted", "committed", "sent"}
         /\ s.at \in {"blocked", "reaped", "admitted"} => s.review \in Review
         /\ s.at \in {"committed", "sent"} => s.run \in Run
BY DEF RequesterState, IdleRequester, Asks, Sends

LEMMA RequesterStates ==
  /\ IdleRequester \in RequesterState
  /\ \A a \in {"blocked", "reaped", "admitted"}, v \in Review :
       [at |-> a, review |-> v] \in RequesterState
  /\ \A a \in {"committed", "sent"}, r \in Run : [at |-> a, run |-> r] \in RequesterState
BY DEF RequesterState, IdleRequester, Asks, Sends

(* Every operation keeps the type invariant. *)
LEMMA TypeInit == Init => TypeOK
BY RequesterStates DEF Init, TypeOK, WorkerState, Status, Reason

LEMMA TypeRequest ==
  ASSUME TypeOK, NEW q \in Requester, Request(q)
  PROVE  TypeOK'
<1> USE ConstantsAssumption
<1>1. requester[q] \in RequesterState
  BY DEF TypeOK
<1>2. ASSUME NEW v \in Review, RequestCheck(q, v) PROVE TypeOK'
  BY <1>2, RequesterStates DEF RequestCheck, Proceed, row, queue, TypeOK
<1>3. CASE ReapBeforeRefusing(q)
  BY <1>1, <1>3, RequesterFields, RequesterStates
  DEF ReapBeforeRefusing, Proceed, FailAll, queue, TypeOK, Status, Terminal, Reason
<1>4. CASE Recount(q)
  BY <1>1, <1>4, RequesterFields, RequesterStates DEF Recount, Proceed, row, queue, TypeOK
<1>5. ASSUME NEW r \in Run, CreateRun(q, r) PROVE TypeOK'
  BY <1>5, RequesterStates DEF CreateRun, Proceed, queue, TypeOK, Status, InFlightStatus
<1>6. CASE Publish(q)
  <2>1. requester[q].run \in Run
    BY <1>1, <1>6, RequesterFields DEF Publish
  <2>2. Fresh(requester[q].run) \in Message
    BY <2>1 DEF Fresh, Message
  <2> QED
    BY <1>6, <2>1, <2>2, RequesterStates DEF Publish, Proceed, row, TypeOK
<1>7. CASE RecordTaskId(q)
  BY <1>7, RequesterStates DEF RecordTaskId, Proceed, queue, TypeOK
<1>8. CASE AbandonRequest(q)
  BY <1>8, RequesterStates DEF AbandonRequest, Proceed, row, queue, TypeOK
<1> QED
  BY <1>2, <1>3, <1>4, <1>5, <1>6, <1>7, <1>8 DEF Request

LEMMA TypeWork ==
  ASSUME TypeOK, NEW w \in Worker, Work(w)
  PROVE  TypeOK'
<1> USE ConstantsAssumption
<1>1. worker[w] \in WorkerState /\ IdleWorker \in WorkerState
  BY DEF TypeOK, WorkerState
<1>2. ASSUME worker[w].at # "idle"
      PROVE  /\ worker[w].msg \in Message
             /\ Subject(w) \in Run
  BY <1>1, <1>2, WorkerFields DEF Subject
<1>3. ASSUME NEW m \in Message, Deliver(w, m) PROVE TypeOK'
  BY <1>3, WorkerStates DEF Deliver, Become, row, TypeOK
<1>4. CASE ClaimTerminal(w)
  BY <1>2, <1>4, WorkerStates DEF ClaimTerminal, Become, row, queue, TypeOK
<1>5. CASE ClaimExhausted(w)
  BY <1>2, <1>5, WorkerStates
  DEF ClaimExhausted, FailRun, Become, queue, TypeOK, Status, Terminal, Reason
<1>6. CASE Claim(w)
  <2>1. NextClaim(Subject(w)) \in Nat /\ taskId[Subject(w)] \in BOOLEAN
    BY <1>2, <1>6 DEF Claim, TypeOK, NextClaim
  <2>2. [at |-> "evaluating", msg |-> worker[w].msg, taskId |-> taskId[Subject(w)],
         claims |-> NextClaim(Subject(w))] \in WorkerState
    BY <1>2, <1>6, <2>1, WorkerStates DEF Claim
  <2> QED
    BY <1>6, <2>1, <2>2 DEF Claim, Become, queue, TypeOK, Status, InFlightStatus
<1>7. CASE Succeed(w)
  <2>1. worker[w].taskId \in BOOLEAN /\ worker[w].claims \in Nat
    BY <1>1, <1>7, WorkerFields DEF Succeed
  <2> QED
    BY <1>2, <1>7, <2>1, WorkerStates
    DEF Succeed, Become, queue, TypeOK, Status, Terminal, Reason
<1>8. ASSUME NEW why \in Rejection, Reject(w, why) PROVE TypeOK'
  BY <1>2, <1>8, WorkerStates
  DEF Reject, FailRun, Become, queue, TypeOK, Status, Terminal, Reason
<1>9. ASSUME NEW transient \in BOOLEAN, RaiseInternal(w, transient) PROVE TypeOK'
  BY <1>2, <1>9, WorkerStates
  DEF RaiseInternal, FailRun, Become, queue, TypeOK, Status, Terminal, Reason
<1>10. CASE DispatchReport(w)
  BY <1>2, <1>10, WorkerStates DEF DispatchReport, Become, row, TypeOK
<1>11. CASE LoseReportDispatch(w)
  BY <1>2, <1>11, WorkerStates DEF LoseReportDispatch, Become, row, queue, TypeOK
<1>12. CASE PublishRetry(w)
  <2>1. worker[w].msg.retries < MaxRetries =>
          [worker[w].msg EXCEPT !.retries = @ + 1] \in Message
    BY <1>2, <1>12 DEF PublishRetry, Message
  <2> QED
    BY <1>2, <1>12, <2>1, WorkerStates DEF PublishRetry, Become, row, TypeOK
<1>13. CASE Acknowledge(w)
  BY <1>1, <1>13 DEF Acknowledge, Become, row, queue, TypeOK
<1>14. CASE WorkerCrash(w)
  BY <1>1, <1>2, <1>14 DEF WorkerCrash, Become, row, TypeOK
<1>15. CASE HardTimeLimit(w)
  BY <1>1, <1>15 DEF HardTimeLimit, Become, row, queue, TypeOK
<1>16. CASE DatabaseFault(w)
  BY <1>2, <1>16, WorkerStates DEF DatabaseFault, Become, row, queue, TypeOK
<1> QED
  BY <1>3, <1>4, <1>5, <1>6, <1>7, <1>8, <1>9, <1>10, <1>11, <1>12, <1>13, <1>14,
     <1>15, <1>16
  DEF Work, AfterDelivery, Finish, AfterCommit

LEMMA TypeSweep == ASSUME TypeOK, Sweep PROVE TypeOK'
BY DEF Sweep, Age, ReapStalled, ReapLostDispatch, FailAll, queue, TypeOK, Status, Terminal, Reason

LEMMA TypeNext == ASSUME TypeOK, [Next]_vars PROVE TypeOK'
<1>1. CASE UNCHANGED vars
  BY <1>1 DEF vars, row, queue, TypeOK
<1> QED
  BY <1>1, TypeRequest, TypeWork, TypeSweep DEF Next

(* The rows, messages and processes always have their types. *)
THEOREM TypeCorrect == Spec => []TypeOK
BY TypeInit, TypeNext, PTL DEF Spec

(* The conjuncts of the invariant, as the steps below expand them. *)
LEMMA InvInit == Init => IInv
BY TypeInit, ConstantsAssumption
DEF Init, IInv, OneCopy, ActiveIsAlone, RetriesFollowTheEnd, CommitsAreSeen, DispatchedOnce,
    EvaluationIsCurrent, UnclaimedCountsZero, ClaimBound, EndedRunIsExplained, Held, Active,
    IdleWorker, IdleRequester

(* What a sweep of old rows in flight does to the conjuncts about rows. *)
LEMMA SweepKeepsInvariant ==
  ASSUME IInv, NEW why \in {"stalled", "dispatch_lost"}, NEW rows \in SUBSET Run,
         \A r \in rows : /\ status[r] \in {"pending", "running"} /\ old[r]
                         /\ why = "dispatch_lost" => status[r] = "pending",
         FailAll(rows, why), UNCHANGED <<queue, worker>>
  PROVE  /\ OneCopy' /\ ActiveIsAlone' /\ RetriesFollowTheEnd' /\ CommitsAreSeen'
         /\ EvaluationIsCurrent' /\ UnclaimedCountsZero' /\ ClaimBound'
         /\ EndedRunIsExplained'
         /\ \A r \in Run : status'[r] = "absent" <=> status[r] = "absent"
<1> USE ConstantsAssumption
<1>1. /\ status \in [Run -> Status] /\ reason \in [Run -> Reason] /\ claims \in [Run -> Nat]
      /\ ready \subseteq Message /\ worker \in [Worker -> WorkerState] /\ reportJobs \subseteq Run
  BY DEF IInv, TypeOK
<1>2. \A w \in Worker : Held(w) => Subject(w) \in Run
  BY <1>1, WorkerFields DEF Held, Subject
<1>3. \A m \in ready : m.run \in Run
  BY <1>1 DEF Message
<1>4. /\ \A r \in Run : r \in rows => status[r] \in {"pending", "running"} /\ old[r]
      /\ \A r \in Run : status'[r] = IF r \in rows THEN "failed" ELSE status[r]
      /\ \A r \in Run : reason'[r] = IF r \in rows THEN why ELSE reason[r]
      /\ UNCHANGED <<taskId, claims, report, old, ready, reportJobs, worker>>
  BY <1>1 DEF FailAll, queue
<1>5. OneCopy' /\ ActiveIsAlone'
  BY <1>4 DEF IInv, OneCopy, ActiveIsAlone, Held, Active, Subject
<1>6. RetriesFollowTheEnd'
  BY <1>2, <1>3, <1>4 DEF IInv, RetriesFollowTheEnd, Terminal, Held, Subject
<1>7. CommitsAreSeen'
  BY <1>1, <1>2, <1>3, <1>4 DEF IInv, CommitsAreSeen, Terminal, Held, Subject
<1>8. EvaluationIsCurrent'
  BY <1>2, <1>4 DEF IInv, EvaluationIsCurrent, Held, Subject
<1>9. UnclaimedCountsZero'
  BY <1>4 DEF IInv, UnclaimedCountsZero
<1>10. ClaimBound' /\ EndedRunIsExplained'
  BY <1>4 DEF IInv, ClaimBound, EndedRunIsExplained
<1> QED
  BY <1>4, <1>5, <1>6, <1>7, <1>8, <1>9, <1>10

(* A step of a request keeps the invariant. *)
LEMMA InvRequest ==
  ASSUME IInv, NEW q \in Requester, Request(q)
  PROVE  IInv'
<1> USE ConstantsAssumption
<1> USE DEF IInv, OneCopy, ActiveIsAlone, RetriesFollowTheEnd, CommitsAreSeen, DispatchedOnce,
    EvaluationIsCurrent, UnclaimedCountsZero, ClaimBound, EndedRunIsExplained, Held, Active, Subject
<1>1. /\ TypeOK /\ TypeOK'
      /\ requester \in [Requester -> RequesterState]
      /\ worker \in [Worker -> WorkerState]
  BY TypeRequest DEF TypeOK
<1>2. ASSUME NEW v \in Review, RequestCheck(q, v) PROVE IInv'
  BY <1>1, <1>2 DEF RequestCheck, Proceed, row, queue
<1>3. CASE ReapBeforeRefusing(q)
  <2> DEFINE v == requester[q].review
             rows == {r \in InFlightOf(v) : DispatchLost(r)}
  <2>1. /\ FailAll(rows, "dispatch_lost") /\ UNCHANGED <<queue, worker>>
        /\ requester' = [requester EXCEPT ![q] = [at |-> "reaped", review |-> v]]
    BY <1>3 DEF ReapBeforeRefusing, Proceed
  <2>2. rows \in SUBSET Run /\ \A r \in rows : status[r] = "pending" /\ old[r]
    BY DEF InFlightOf, DispatchLost
  <2> HIDE DEF v, rows
  <2>3. /\ OneCopy' /\ ActiveIsAlone' /\ RetriesFollowTheEnd' /\ CommitsAreSeen'
        /\ EvaluationIsCurrent' /\ UnclaimedCountsZero' /\ ClaimBound' /\ EndedRunIsExplained'
        /\ \A r \in Run : status'[r] = "absent" <=> status[r] = "absent"
    BY <2>1, <2>2, SweepKeepsInvariant, Zenon
  <2>4. DispatchedOnce'
    BY <1>1, <2>1, <2>3, RequesterFields DEF queue
  <2> QED
    BY <1>1, <2>3, <2>4
<1>4. CASE Recount(q)
  BY <1>1, <1>4 DEF Recount, Proceed, row, queue, IdleRequester
<1>5. ASSUME NEW r \in Run, CreateRun(q, r) PROVE IInv'
  BY <1>1, <1>5, WorkerFields DEF CreateRun, Proceed, queue, Terminal, TypeOK
<1>6. CASE Publish(q)
  <2> DEFINE r == requester[q].run
  <2>1. /\ requester[q].at = "committed" /\ r \in Run
        /\ ready' = ready \cup {Fresh(r)}
        /\ requester' = [requester EXCEPT ![q] = [at |-> "sent", run |-> r]]
        /\ UNCHANGED <<status, claims, reason, report, old, reportJobs, worker>>
    BY <1>1, <1>6, RequesterFields DEF Publish, Proceed, row
  <2>2. Fresh(r).run = r /\ Fresh(r).retries = 0
    BY DEF Fresh
  <2> HIDE DEF r
  <2>3. OneCopy'
    BY <2>1, <2>2 DEF r
  <2>4. ActiveIsAlone'
    BY <1>1, <2>1, <2>2, WorkerFields DEF r
  <2>5. RetriesFollowTheEnd' /\ CommitsAreSeen'
    BY <2>1, <2>2 DEF r
  <2>6. DispatchedOnce'
    BY <1>1, <2>1, <2>2 DEF r
  <2>7. EvaluationIsCurrent' /\ UnclaimedCountsZero' /\ ClaimBound' /\ EndedRunIsExplained'
    BY <2>1
  <2> QED
    BY <1>1, <2>3, <2>4, <2>5, <2>6, <2>7
<1>7. CASE RecordTaskId(q)
  BY <1>1, <1>7 DEF RecordTaskId, Proceed, queue, IdleRequester, TypeOK
<1>8. CASE AbandonRequest(q)
  BY <1>1, <1>8 DEF AbandonRequest, Proceed, row, queue, IdleRequester
<1> QED
  BY <1>2, <1>3, <1>4, <1>5, <1>6, <1>7, <1>8 DEF Request

(* A step of a worker keeps the invariant. *)
LEMMA InvWork ==
  ASSUME IInv, NEW w \in Worker, Work(w)
  PROVE  IInv'
<1> USE ConstantsAssumption
<1> USE DEF IInv, OneCopy, ActiveIsAlone, RetriesFollowTheEnd, CommitsAreSeen, DispatchedOnce,
    EvaluationIsCurrent, UnclaimedCountsZero, ClaimBound, EndedRunIsExplained, Held, Active, Subject
<1>1. /\ TypeOK /\ TypeOK'
      /\ requester \in [Requester -> RequesterState]
      /\ worker \in [Worker -> WorkerState]
      /\ ready \subseteq Message
      /\ status \in [Run -> Status] /\ reason \in [Run -> Reason] /\ report \in [Run -> BOOLEAN]
      /\ claims \in [Run -> Nat] /\ old \in [Run -> BOOLEAN]
  BY TypeWork DEF TypeOK
<1>2. /\ \A u \in Worker : Held(u) => worker[u].msg \in Message /\ Subject(u) \in Run
      /\ \A m \in ready : m.run \in Run
  BY <1>1, WorkerFields DEF Message
<1>3. ASSUME NEW m \in Message, Deliver(w, m) PROVE IInv'
  BY <1>1, <1>3 DEF Deliver, Become, row
<1>4. CASE ClaimTerminal(w)
  BY <1>1, <1>4 DEF ClaimTerminal, Become, row, queue
<1>5. CASE ClaimExhausted(w)
  <2> DEFINE r == Subject(w)
             m == worker[w].msg
  <2>1. /\ worker[w].at = "claiming" /\ m \in Message /\ r \in Run /\ r = m.run
        /\ status[r] \in {"pending", "running"} /\ claims[r] >= MaxClaims
        /\ status' = [status EXCEPT ![r] = "failed"]
        /\ reason' = [reason EXCEPT ![r] = "resource_exhausted"]
        /\ worker' = [worker EXCEPT ![w] = [at |-> "done", msg |-> m]]
        /\ UNCHANGED <<claims, report, old, ready, reportJobs, requester>>
    BY <1>2, <1>5
    DEF ClaimExhausted, FailRun, Become, queue, InFlight, InFlightStatus, Exhausted
  <2> HIDE DEF r, m
  <2>2. OneCopy' /\ ActiveIsAlone'
    BY <1>1, <2>1 DEF r, m
  <2>3. RetriesFollowTheEnd' /\ CommitsAreSeen'
    BY <1>1, <1>2, <2>1 DEF r, m, Terminal
  <2>4. DispatchedOnce'
    BY <1>1, <1>2, <2>1, RequesterFields DEF r, m
  <2>5. EvaluationIsCurrent'
    BY <1>1, <1>2, <2>1 DEF r, m
  <2>6. UnclaimedCountsZero'
    BY <1>1, <2>1
  <2>7. ClaimBound'
    <3>1. claims[r] = MaxClaims
      BY <1>1, <2>1
    <3>2. \A x \in Run : reason'[x] = "resource_exhausted" => x = r \/ reason[x] = reason'[x]
      BY <1>1, <2>1
    <3> QED
      BY <1>1, <2>1, <3>1, <3>2
  <2>8. EndedRunIsExplained'
    BY <1>1, <2>1 DEF Reason
  <2> QED
    BY <1>1, <2>2, <2>3, <2>4, <2>5, <2>6, <2>7, <2>8
<1>6. CASE Claim(w)
  <2> DEFINE r == Subject(w)
             m == worker[w].msg
  <2>1. /\ worker[w].at = "claiming" /\ m \in Message /\ r \in Run /\ r = m.run
        /\ status[r] \in {"pending", "running"} /\ claims[r] < MaxClaims
        /\ status' = [status EXCEPT ![r] = "running"]
        /\ claims' = [claims EXCEPT ![r] = claims[r] + 1]
        /\ old' = [old EXCEPT ![r] = FALSE]
        /\ worker' = [worker EXCEPT ![w] = [at |-> "evaluating", msg |-> m,
                          taskId |-> taskId[r], claims |-> claims[r] + 1]]
        /\ UNCHANGED <<taskId, reason, report, ready, reportJobs, requester>>
    BY <1>1, <1>2, <1>6
    DEF Claim, Become, queue, InFlight, InFlightStatus, Exhausted, NextClaim
  <2>2. /\ \A u \in Worker : Held(u) /\ Subject(u) = r => u = w
        /\ \A x \in ready : x.run # r
    \* Every message of a run in flight is its first; there is one copy of it.
    <3>1. m.retries = 0 /\ m = Fresh(r)
      BY <2>1 DEF Terminal, Message, Fresh
    <3>2. ASSUME NEW u \in Worker, Held(u), Subject(u) = r PROVE u = w
      BY <1>2, <2>1, <3>1, <3>2 DEF Terminal, Message, Fresh
    <3>3. ASSUME NEW x \in ready, x.run = r PROVE FALSE
      BY <1>1, <2>1, <3>1, <3>3 DEF Terminal, Message, Fresh
    <3> QED
      BY <3>2, <3>3
  <2> HIDE DEF r, m
  <2>3. OneCopy' /\ ActiveIsAlone'
    BY <1>1, <2>1, <2>2 DEF r, m
  <2>4. RetriesFollowTheEnd' /\ CommitsAreSeen'
    BY <1>1, <1>2, <2>1, <2>2 DEF r, m, Terminal
  <2>5. DispatchedOnce'
    BY <1>1, <1>2, <2>1, <2>2, RequesterFields DEF r, m
  <2>6. EvaluationIsCurrent'
    BY <1>1, <1>2, <2>1, <2>2 DEF r, m
  <2>7. UnclaimedCountsZero' /\ ClaimBound' /\ EndedRunIsExplained'
    BY <1>1, <2>1
  <2> QED
    BY <1>1, <2>3, <2>4, <2>5, <2>6, <2>7
<1>7. CASE Succeed(w)
  BY <1>1, <1>2, <1>7 DEF Succeed, Become, queue, Terminal
<1>8. ASSUME NEW why \in Rejection, Reject(w, why) PROVE IInv'
  BY <1>1, <1>2, <1>8 DEF Reject, FailRun, Become, queue, Terminal, Rejection
<1>9. ASSUME NEW transient \in BOOLEAN, RaiseInternal(w, transient) PROVE IInv'
  BY <1>1, <1>2, <1>9 DEF RaiseInternal, FailRun, Become, queue, Terminal
<1>10. CASE DispatchReport(w)
  BY <1>1, <1>10 DEF DispatchReport, Become, row
<1>11. CASE LoseReportDispatch(w)
  BY <1>1, <1>11 DEF LoseReportDispatch, Become, row, queue
<1>12. CASE PublishRetry(w)
  <2> DEFINE m == worker[w].msg
             n == [m EXCEPT !.retries = @ + 1]
  <2>1. /\ worker[w].at = "retrying" /\ m \in Message /\ ready' \subseteq ready \cup {n}
        /\ worker' = [worker EXCEPT ![w] = [at |-> "done", msg |-> m]]
        /\ UNCHANGED <<status, claims, reason, report, old, reportJobs, requester>>
    BY <1>2, <1>12 DEF PublishRetry, Become, row
  <2>2. n.run = m.run /\ n # m /\ status[m.run] \in Terminal /\ ready \subseteq ready'
    BY <1>12, <2>1 DEF Message, PublishRetry
  <2>3. /\ \A x \in ready : x.run # m.run
        /\ \A u \in Worker : Held(u) /\ Subject(u) = m.run => u = w
    BY <2>1
  <2> HIDE DEF m, n
  <2>4. OneCopy'
    BY <1>1, <2>1, <2>2, <2>3 DEF m
  <2>5. ActiveIsAlone'
    BY <1>1, <2>1, <2>2, <2>3 DEF m
  <2>6. RetriesFollowTheEnd' /\ CommitsAreSeen'
    BY <1>1, <2>1, <2>2, <2>3 DEF m, Terminal
  <2>7. DispatchedOnce'
    BY <1>1, <2>1, <2>2, <2>3 DEF m
  <2>8. EvaluationIsCurrent' /\ UnclaimedCountsZero' /\ ClaimBound' /\ EndedRunIsExplained'
    BY <1>1, <2>1
  <2> QED
    BY <1>1, <2>4, <2>5, <2>6, <2>7, <2>8
<1>13. CASE Acknowledge(w)
  BY <1>1, <1>13 DEF Acknowledge, Become, row, queue, IdleWorker
<1>14. CASE WorkerCrash(w)
  BY <1>1, <1>2, <1>14 DEF WorkerCrash, Become, row, IdleWorker
<1>15. CASE HardTimeLimit(w)
  BY <1>1, <1>15 DEF HardTimeLimit, Become, row, queue, IdleWorker
<1>16. CASE DatabaseFault(w)
  BY <1>1, <1>16 DEF DatabaseFault, Become, row, queue
<1> QED
  BY <1>3, <1>4, <1>5, <1>6, <1>7, <1>8, <1>9, <1>10, <1>11, <1>12, <1>13, <1>14,
     <1>15, <1>16
  DEF Work, AfterDelivery, Finish, AfterCommit

LEMMA InvSweep ==
  ASSUME IInv, Sweep
  PROVE  IInv'
<1>1. TypeOK'
  BY TypeSweep DEF IInv
<1>2. ASSUME NEW why \in {"stalled", "dispatch_lost"}, NEW rows \in SUBSET Run,
             \A r \in rows : /\ status[r] \in {"pending", "running"} /\ old[r]
                             /\ why = "dispatch_lost" => status[r] = "pending",
             FailAll(rows, why), UNCHANGED <<queue, worker, requester>>
      PROVE  IInv'
  <2>1. requester \in [Requester -> RequesterState]
    BY DEF IInv, TypeOK
  <2>2. /\ OneCopy' /\ ActiveIsAlone' /\ RetriesFollowTheEnd' /\ CommitsAreSeen'
        /\ EvaluationIsCurrent' /\ UnclaimedCountsZero' /\ ClaimBound' /\ EndedRunIsExplained'
        /\ \A r \in Run : status'[r] = "absent" <=> status[r] = "absent"
    BY <1>2, SweepKeepsInvariant, Zenon
  <2>3. DispatchedOnce'
    BY <1>2, <2>1, <2>2, RequesterFields DEF IInv, DispatchedOnce, Held, Subject, queue
  <2> QED
    BY <1>1, <2>2, <2>3 DEF IInv
<1>3. ASSUME NEW r \in Run, Age(r) PROVE IInv'
  <2>1. /\ status[r] = "pending" \/ (StallCoversLimit => ~Evaluating(r))
        /\ old' = [old EXCEPT ![r] = TRUE] /\ old \in [Run -> BOOLEAN]
        /\ UNCHANGED <<status, claims, reason, report, ready, reportJobs, worker, requester>>
    BY <1>3 DEF Age, queue, IInv, TypeOK
  <2>2. EvaluationIsCurrent'
    BY <2>1 DEF IInv, EvaluationIsCurrent, Evaluating, Subject
  <2> QED
    BY <1>1, <2>1, <2>2
    DEF IInv, OneCopy, ActiveIsAlone, RetriesFollowTheEnd, CommitsAreSeen, DispatchedOnce,
        UnclaimedCountsZero, ClaimBound, EndedRunIsExplained, Held, Active, Subject
<1>4. CASE ReapStalled
  BY <1>2, <1>4 DEF ReapStalled, Stalled
<1>5. CASE ReapLostDispatch
  BY <1>2, <1>5 DEF ReapLostDispatch, DispatchLost
<1> QED
  BY <1>3, <1>4, <1>5 DEF Sweep

LEMMA InvNext == ASSUME IInv, [Next]_vars PROVE IInv'
<1>1. CASE UNCHANGED vars
  BY <1>1
  DEF vars, row, queue, IInv, TypeOK, OneCopy, ActiveIsAlone, RetriesFollowTheEnd,
      CommitsAreSeen, DispatchedOnce, EvaluationIsCurrent, UnclaimedCountsZero, ClaimBound,
      EndedRunIsExplained, Held, Active, Subject
<1> QED
  BY <1>1, InvRequest, InvWork, InvSweep DEF Next

THEOREM Invariance == Spec => []IInv
BY InvInit, InvNext, PTL DEF Spec

-----------------------------------------------------------------------------
(* The safety properties. *)

(* Two workers never evaluate one run at once, however long the stall window. *)
THEOREM OnlyOneExecutor == Spec => []SingleExecutor
<1>1. IInv => SingleExecutor
  BY DEF IInv, ActiveIsAlone, SingleExecutor, Held, Active
<1> QED
  BY <1>1, Invariance, PTL

(* No run is claimed more often than CHECK_RUN_MAX_CLAIMS allows. *)
THEOREM PoisonRunIsStopped == Spec => []ClaimBound
<1>1. IInv => ClaimBound
  BY DEF IInv
<1> QED
  BY <1>1, Invariance, PTL

(* A worker's copy of claim_count is the count of the row. *)
THEOREM EveryClaimIsCounted == Spec => []ClaimCountIsAccurate
<1>1. IInv => ClaimCountIsAccurate
  BY DEF IInv, EvaluationIsCurrent, ClaimCountIsAccurate
<1> QED
  BY <1>1, Invariance, PTL

(* A run ended as never dispatched was never claimed. *)
THEOREM LostDispatchIsLost == Spec => []LostDispatchNeverClaimed
<1>1. IInv => LostDispatchNeverClaimed
  BY DEF IInv, TypeOK, EvaluationIsCurrent, UnclaimedCountsZero, LostDispatchNeverClaimed,
         Evaluating
<1> QED
  BY <1>1, Invariance, PTL

(* Messages follow the commits they speak of. *)
THEOREM DispatchFollowsCommit == Spec => []MessagesFollowCommits
<1>1. IInv => MessagesFollowCommits
  BY DEF IInv, TypeOK, CommitsAreSeen, EndedRunIsExplained, MessagesFollowCommits, Messages,
         Held, Subject
<1> QED
  BY <1>1, Invariance, PTL

(* The check constraints of the table hold, and so do their converses. *)
THEOREM EveryEndIsExplained == Spec => []EndedRunIsExplained
<1>1. IInv => EndedRunIsExplained
  BY DEF IInv
<1> QED
  BY <1>1, Invariance, PTL

-----------------------------------------------------------------------------
(* With a stall window that covers the hard time limit. *)

(* A run ended as stalled has no worker left. *)
THEOREM StalledIsDead == ASSUME StallCoversLimit PROVE Spec => []StalledHasNoWorker
<1>1. IInv => StalledHasNoWorker
  BY DEF IInv, TypeOK, EvaluationIsCurrent, EndedRunIsExplained, StalledHasNoWorker, Evaluating
<1> QED
  BY <1>1, Invariance, PTL

(* A run that has ended never changes its status, reason or report again. *)
LEMMA EndedRunStaysAsItIs ==
  ASSUME StallCoversLimit, IInv, [Next]_vars, NEW r \in Run, status[r] \in Terminal
  PROVE  status'[r] = status[r] /\ reason'[r] = reason[r] /\ report'[r] = report[r]
<1>1. /\ status \in [Run -> Status] /\ reason \in [Run -> Reason] /\ report \in [Run -> BOOLEAN]
  BY DEF IInv, TypeOK
<1>2. ASSUME NEW rows, NEW why, FailAll(rows, why), r \notin rows
      PROVE  status'[r] = status[r] /\ reason'[r] = reason[r] /\ report'[r] = report[r]
  BY <1>2 DEF FailAll
<1>3. ASSUME NEW w \in Worker, worker[w].at = "evaluating" PROVE Subject(w) # r
  BY <1>3 DEF IInv, EvaluationIsCurrent, Terminal
<1>4. ASSUME NEW q \in Requester, Request(q)
      PROVE  status'[r] = status[r] /\ reason'[r] = reason[r] /\ report'[r] = report[r]
  <2>1. CASE ReapBeforeRefusing(q)
    BY <1>2, <2>1 DEF ReapBeforeRefusing, DispatchLost, Terminal
  <2>2. ASSUME NEW x \in Run, CreateRun(q, x)
        PROVE  status'[r] = status[r] /\ reason'[r] = reason[r] /\ report'[r] = report[r]
    BY <1>1, <2>2 DEF CreateRun, Terminal
  <2> QED
    BY <1>4, <2>1, <2>2
    DEF Request, RequestCheck, Recount, Publish, RecordTaskId, AbandonRequest, row
<1>5. ASSUME NEW w \in Worker, Work(w)
      PROVE  status'[r] = status[r] /\ reason'[r] = reason[r] /\ report'[r] = report[r]
  <2>1. CASE Finish(w)
    BY <1>1, <1>3, <2>1 DEF Finish, Succeed, Reject, RaiseInternal, FailRun
  <2>2. CASE AfterDelivery(w)
    BY <1>1, <2>2
    DEF AfterDelivery, ClaimTerminal, ClaimExhausted, Claim, FailRun, InFlight, InFlightStatus,
        Terminal, row
  <2> QED
    BY <1>5, <2>1, <2>2
    DEF Work, Deliver, AfterCommit, DispatchReport, LoseReportDispatch, PublishRetry,
        Acknowledge, WorkerCrash, HardTimeLimit, DatabaseFault, row
<1>6. CASE Sweep
  BY <1>2, <1>6 DEF Sweep, Age, ReapStalled, ReapLostDispatch, Stalled, DispatchLost, Terminal
<1> QED
  BY <1>4, <1>5, <1>6 DEF Next, vars, row

THEOREM EndsAreFinal == ASSUME StallCoversLimit PROVE Spec => TerminalIsFinal
<1>1. ASSUME IInv, [Next]_vars
      PROVE  [\A r \in Run : status[r] \in Terminal =>
                /\ status'[r] = status[r]
                /\ reason'[r] = reason[r]
                /\ report'[r] = report[r]]_vars
  BY <1>1, EndedRunStaysAsItIs
<1> QED
  BY <1>1, Invariance, PTL DEF Spec, TerminalIsFinal

(* Every step is a step of RunLifecycle, or leaves status and claims alone. *)
LEMMA LifecycleStep ==
  ASSUME StallCoversLimit, IInv, [Next]_vars
  PROVE  [Lifecycle!Next]_(Lifecycle!vars)
<1> USE ConstantsAssumption
<1> USE DEF Lifecycle!Next, Lifecycle!vars, Lifecycle!Create, Lifecycle!Attempt,
    Lifecycle!Succeed, Lifecycle!Fail, Lifecycle!InFlight
<1>1. /\ status \in [Run -> Status] /\ claims \in [Run -> Nat] /\ TypeOK
  BY DEF IInv, TypeOK
<1>2. \A w \in Worker : worker[w].at # "idle" => Subject(w) \in Run
  BY WorkerFields DEF IInv, TypeOK, Subject
<1>3. ASSUME NEW rows \in SUBSET Run, NEW why, FailAll(rows, why), \A r \in rows : InFlight(r)
      PROVE  [Lifecycle!Next]_(Lifecycle!vars)
  BY <1>3 DEF FailAll, InFlight, InFlightStatus
<1>4. ASSUME NEW r \in Run, NEW why, FailRun(r, why), InFlight(r)
      PROVE  [Lifecycle!Next]_(Lifecycle!vars)
  <2>1. status' = [x \in Run |-> IF x \in {r} THEN "failed" ELSE status[x]]
    BY <1>1, <1>4 DEF FailRun
  <2>2. {r} \in SUBSET Run /\ UNCHANGED claims
    BY <1>4 DEF FailRun
  <2>3. Lifecycle!Fail({r})
    BY <1>4, <2>1, <2>2 DEF InFlight, InFlightStatus
  <2> QED
    BY <2>2, <2>3
<1>5. ASSUME NEW w \in Worker, worker[w].at = "evaluating"
      PROVE  /\ Subject(w) \in Run /\ status[Subject(w)] = "running" /\ InFlight(Subject(w))
             /\ worker[w].claims = claims[Subject(w)]
  BY <1>2, <1>5 DEF IInv, EvaluationIsCurrent, InFlight, InFlightStatus
<1>6. ASSUME NEW q \in Requester, Request(q) PROVE [Lifecycle!Next]_(Lifecycle!vars)
  <2>1. CASE ReapBeforeRefusing(q)
    <3> DEFINE rows == {r \in InFlightOf(requester[q].review) : DispatchLost(r)}
    <3>1. FailAll(rows, "dispatch_lost") /\ rows \in SUBSET Run /\ \A r \in rows : InFlight(r)
      BY <2>1 DEF ReapBeforeRefusing, InFlightOf
    <3> QED
      BY <1>3, <3>1
  <2>2. ASSUME NEW r \in Run, CreateRun(q, r) PROVE [Lifecycle!Next]_(Lifecycle!vars)
    BY <2>2 DEF CreateRun
  <2> QED
    BY <1>6, <2>1, <2>2
    DEF Request, RequestCheck, Recount, Publish, RecordTaskId, AbandonRequest, row
<1>7. ASSUME NEW w \in Worker, Work(w) PROVE [Lifecycle!Next]_(Lifecycle!vars)
  <2>1. CASE Claim(w)
    <3>1. Lifecycle!Attempt(Subject(w))
      BY <1>1, <1>2, <2>1
      DEF Claim, InFlight, InFlightStatus, Exhausted, NextClaim
    <3> QED
      BY <1>2, <2>1, <3>1 DEF Claim
  <2>2. CASE ClaimExhausted(w)
    BY <1>2, <1>4, <2>2 DEF ClaimExhausted
  <2>3. CASE Succeed(w)
    <3>1. Lifecycle!Succeed(Subject(w))
      BY <1>1, <1>5, <2>3 DEF Succeed
    <3> QED
      BY <1>5, <2>3, <3>1 DEF Succeed
  <2>4. ASSUME NEW why, Reject(w, why) PROVE [Lifecycle!Next]_(Lifecycle!vars)
    BY <1>4, <1>5, <2>4 DEF Reject
  <2>5. ASSUME NEW transient, RaiseInternal(w, transient)
        PROVE  [Lifecycle!Next]_(Lifecycle!vars)
    BY <1>4, <1>5, <2>5 DEF RaiseInternal
  <2> QED
    BY <1>7, <2>1, <2>2, <2>3, <2>4, <2>5
    DEF Work, AfterDelivery, Finish, ClaimTerminal, Deliver, AfterCommit, DispatchReport,
        LoseReportDispatch, PublishRetry, Acknowledge, WorkerCrash, HardTimeLimit,
        DatabaseFault, row
<1>8. CASE Sweep
  <2>1. CASE ReapStalled
    <3> DEFINE rows == {r \in Run : Stalled(r)}
    <3>1. FailAll(rows, "stalled") /\ rows \in SUBSET Run /\ \A r \in rows : InFlight(r)
      BY <2>1 DEF ReapStalled, Stalled, InFlight, InFlightStatus
    <3> QED
      BY <1>3, <3>1
  <2>2. CASE ReapLostDispatch
    <3> DEFINE rows == {r \in Run : DispatchLost(r)}
    <3>1. FailAll(rows, "dispatch_lost") /\ rows \in SUBSET Run /\ \A r \in rows : InFlight(r)
      BY <2>2 DEF ReapLostDispatch, DispatchLost, InFlight, InFlightStatus
    <3> QED
      BY <1>3, <3>1
  <2> QED
    BY <1>8, <2>1, <2>2 DEF Sweep, Age
<1> QED
  BY <1>6, <1>7, <1>8 DEF Next, vars, row

(* The row of a run behaves as RunLifecycle promises, but for its liveness. *)
THEOREM RefinesLifecycle == ASSUME StallCoversLimit PROVE Spec => LifecycleSafety
<1>1. Init => Lifecycle!Init
  BY DEF Init, Lifecycle!Init
<1> QED
  BY <1>1, LifecycleStep, Invariance, PTL DEF Spec, LifecycleSafety

-----------------------------------------------------------------------------
(* Requests one after another. *)

(* Only the creation of a run puts one in flight. *)
LEMMA OnlyCreationStarts ==
  ASSUME TypeOK, [Next]_vars, NEW r \in Run, InFlight(r)', ~InFlight(r)
  PROVE  \E q \in Requester : CreateRun(q, r)
<1> USE DEF InFlight, InFlightStatus, Terminal
<1>1. status \in [Run -> Status]
  BY DEF TypeOK
<1>2. ASSUME NEW q \in Requester, Request(q) PROVE \E p \in Requester : CreateRun(p, r)
  BY <1>1, <1>2
  DEF Request, RequestCheck, ReapBeforeRefusing, Recount, CreateRun, Publish, RecordTaskId,
      AbandonRequest, FailAll, row
<1>3. ASSUME NEW w \in Worker, Work(w) PROVE FALSE
  BY <1>1, <1>3
  DEF Work, Deliver, AfterDelivery, ClaimTerminal, ClaimExhausted, Claim, Finish, Succeed, Reject,
      RaiseInternal, FailRun, AfterCommit, DispatchReport, LoseReportDispatch, PublishRetry,
      Acknowledge, WorkerCrash, HardTimeLimit, DatabaseFault, row
<1>4. CASE Sweep
  BY <1>1, <1>4 DEF Sweep, Age, ReapStalled, ReapLostDispatch, FailAll
<1>5. CASE UNCHANGED vars
  BY <1>5 DEF vars, row
<1> QED
  BY <1>2, <1>3, <1>4, <1>5 DEF Next

(* The count is that of a set of at most one run; below the limit it is empty. *)
LEMMA CountOfOne ==
  ASSUME OneAtATimeInv, NEW v \in Review
  PROVE  /\ Cardinality(InFlightOf(v)) <= MAX_IN_FLIGHT_RUNS
         /\ ~Full(v) => InFlightOf(v) = {}
<1> USE DEF MAX_IN_FLIGHT_RUNS
<1>1. CASE InFlightOf(v) = {}
  <2>1. Cardinality(InFlightOf(v)) = 0
    BY <1>1, FS_EmptySet
  <2> QED
    BY <1>1, <2>1 DEF Full
<1>2. CASE InFlightOf(v) # {}
  <2>1. PICK r \in Run : InFlightOf(v) = {r}
    BY <1>2 DEF InFlightOf, OneAtATimeInv
  <2>2. Cardinality({r}) = 1
    BY FS_Singleton, Zenon
  <2>3. Cardinality(InFlightOf(v)) = 1
    BY <2>1, <2>2
  <2> QED
    BY <2>3 DEF Full
<1> QED
  BY <1>1, <1>2

LEMMA OneAtATimeNext ==
  ASSUME TypeOK, OneAtATimeInv, \A p, q \in Requester : p = q, [Next]_vars
  PROVE  OneAtATimeInv'
<1>1. /\ status \in [Run -> Status] /\ requester \in [Requester -> RequesterState]
      /\ ReviewOf \in [Run -> Review]
  BY ConstantsAssumption DEF TypeOK
<1>2. ASSUME NEW q \in Requester, NEW r \in Run, CreateRun(q, r) PROVE OneAtATimeInv'
  <2>1. /\ requester[q].at = "admitted" /\ requester[q].review = ReviewOf[r]
        /\ status' = [status EXCEPT ![r] = "pending"]
        /\ requester'[q].at = "committed"
    BY <1>1, <1>2 DEF CreateRun, Proceed
  <2>2. \A x \in Run : InFlight(x)' => InFlight(x) \/ x = r
    BY <1>1, <2>1 DEF InFlight
  <2>3. \A x \in Run : ReviewOf[x] = ReviewOf[r] => ~InFlight(x)
    BY <2>1 DEF OneAtATimeInv
  <2> QED
    BY <2>1, <2>2, <2>3 DEF OneAtATimeInv
<1>3. ASSUME \A q \in Requester, r \in Run : ~CreateRun(q, r) PROVE OneAtATimeInv'
  <2>1. \A r \in Run : InFlight(r)' => InFlight(r)
    BY <1>3, OnlyCreationStarts
  <2>2. ASSUME NEW q \in Requester, requester'[q].at = "admitted"
        PROVE  \A r \in Run : ReviewOf[r] = requester'[q].review => ~InFlight(r)
    <3>1. CASE requester'[q] = requester[q]
      BY <2>2, <3>1 DEF OneAtATimeInv
    <3>2. ASSUME NEW v \in Review, RequestCheck(q, v) PROVE ~Full(v) /\ requester'[q].review = v
      BY <1>1, <2>2, <3>2 DEF RequestCheck, Proceed
    <3>3. ASSUME Recount(q)
          PROVE  LET v == requester[q].review IN
                 v \in Review /\ ~Full(v) /\ requester'[q].review = v
      BY <1>1, <2>2, <3>3, RequesterFields DEF Recount, Proceed, IdleRequester
    <3>4. \/ requester'[q] = requester[q]
          \/ \E v \in Review : RequestCheck(q, v)
          \/ Recount(q)
      <4>1. CASE requester' = requester
        BY <4>1
      <4>2. ASSUME NEW p \in Requester, Request(p)
            PROVE  (\E v \in Review : RequestCheck(q, v)) \/ Recount(q)
        BY <1>1, <1>3, <2>2, <4>2
        DEF Request, ReapBeforeRefusing, Publish, RecordTaskId, AbandonRequest, Proceed,
            IdleRequester
      <4>3. (\E w \in Worker : Work(w)) \/ Sweep \/ UNCHANGED vars => requester' = requester
        BY DEF Work, Deliver, AfterDelivery, ClaimTerminal, ClaimExhausted, Claim, Finish, Succeed,
               Reject, RaiseInternal, AfterCommit, DispatchReport, LoseReportDispatch,
               PublishRetry, Acknowledge, WorkerCrash, HardTimeLimit, DatabaseFault, Sweep, Age,
               ReapStalled, ReapLostDispatch, vars
      <4> QED
        BY <4>1, <4>2, <4>3 DEF Next
    <3> QED
      BY <3>1, <3>2, <3>3, <3>4, CountOfOne DEF InFlightOf
  <2> QED
    BY <2>1, <2>2 DEF OneAtATimeInv
<1> QED
  BY <1>2, <1>3

(* One request at a time leaves a review at most one run in flight, whatever    *)
(* workers, sweeps and crashes do meanwhile.  Two at once do not: both may have *)
(* counted before either creates its run.                                       *)
THEOREM OneRunInFlight ==
  ASSUME \A p, q \in Requester : p = q
  PROVE  Spec => []OneInFlight
<1>1. Init => OneAtATimeInv
  BY DEF Init, OneAtATimeInv, InFlight, InFlightStatus, IdleRequester
<1>2. TypeOK /\ OneAtATimeInv /\ [Next]_vars => OneAtATimeInv'
  BY OneAtATimeNext
<1>3. OneAtATimeInv => OneInFlight
  BY CountOfOne DEF OneInFlight
<1> QED
  BY <1>1, <1>2, <1>3, TypeCorrect, PTL DEF Spec

-----------------------------------------------------------------------------
(* A database that answers. *)

LEMMA InHandIsOutstanding == \A r \in Run : InHand(r) <=> Outstanding(r)
BY DEF InHand, Outstanding, Messages, Held, Subject

LEMMA QueuedRequest ==
  ASSUME IInv, QueuedInv, NEW q \in Requester, Request(q)
  PROVE  QueuedInv'
<1> USE DEF QueuedInv, InHand, Sent, Held, Subject
<1>1. /\ requester \in [Requester -> RequesterState] /\ worker \in [Worker -> WorkerState]
      /\ status \in [Run -> Status] /\ taskId \in [Run -> BOOLEAN]
      /\ \A w \in Worker : worker[w].at # "idle" =>
           worker[w].msg.run \in Run /\ status[worker[w].msg.run] # "absent"
  BY WorkerFields DEF IInv, TypeOK, CommitsAreSeen
<1>2. ASSUME NEW v \in Review, RequestCheck(q, v) PROVE QueuedInv'
  BY <1>1, <1>2 DEF RequestCheck, Proceed, row, queue
<1>3. CASE ReapBeforeRefusing(q)
  BY <1>1, <1>3 DEF ReapBeforeRefusing, Proceed, FailAll, queue
<1>4. CASE Recount(q)
  BY <1>1, <1>4 DEF Recount, Proceed, row, queue, IdleRequester
<1>5. ASSUME NEW r \in Run, CreateRun(q, r) PROVE QueuedInv'
  <2>1. \A p \in Requester : requester[p].at = "sent" => requester[p].run # r
    BY <1>5 DEF CreateRun, IInv, DispatchedOnce
  <2> QED
    BY <1>1, <1>5, <2>1 DEF CreateRun, Proceed, queue
<1>6. CASE Publish(q)
  <2>1. Fresh(requester[q].run).run = requester[q].run
    BY DEF Fresh
  <2> QED
    BY <1>1, <1>6, <2>1 DEF Publish, Proceed, row
<1>7. CASE RecordTaskId(q)
  <2>1. requester[q].run \in Run /\ status[requester[q].run] # "absent"
    BY <1>1, <1>7, RequesterFields DEF RecordTaskId, IInv, DispatchedOnce
  <2> QED
    BY <1>1, <1>7, <2>1 DEF RecordTaskId, Proceed, queue, IdleRequester
<1>8. CASE AbandonRequest(q)
  BY <1>1, <1>8 DEF AbandonRequest, Proceed, row, queue, IdleRequester
<1> QED
  BY <1>2, <1>3, <1>4, <1>5, <1>6, <1>7, <1>8 DEF Request

LEMMA QueuedWork ==
  ASSUME IInv, QueuedInv, ~DatabaseFaults, NEW w \in Worker, Work(w)
  PROVE  QueuedInv'
<1> USE DEF QueuedInv, InHand, Sent, Held, Subject
<1>1. /\ worker \in [Worker -> WorkerState] /\ ready \subseteq Message
      /\ status \in [Run -> Status] /\ taskId \in [Run -> BOOLEAN]
      /\ \A u \in Worker : worker[u].at # "idle" =>
           worker[u].msg.run \in Run /\ status[worker[u].msg.run] # "absent"
  BY WorkerFields DEF IInv, TypeOK, CommitsAreSeen
<1>2. worker[w].at \in {"idle", "claiming", "evaluating", "committed", "retrying", "done"}
  BY <1>1, WorkerFields
<1>3. ASSUME NEW m \in Message, Deliver(w, m) PROVE QueuedInv'
  BY <1>1, <1>3 DEF Deliver, Become, row
<1>4. CASE ClaimTerminal(w)
  BY <1>1, <1>4 DEF ClaimTerminal, Become, row, queue, Terminal
<1>5. CASE ClaimExhausted(w)
  BY <1>1, <1>5 DEF ClaimExhausted, FailRun, Become, queue, InFlight, InFlightStatus
<1>6. CASE Claim(w)
  BY <1>1, <1>6 DEF Claim, Become, queue, InFlight, InFlightStatus
<1>7. CASE Succeed(w)
  BY <1>1, <1>7 DEF Succeed, Become, queue
<1>8. ASSUME NEW why \in Rejection, Reject(w, why) PROVE QueuedInv'
  BY <1>1, <1>8 DEF Reject, FailRun, Become, queue
<1>9. ASSUME NEW transient \in BOOLEAN, RaiseInternal(w, transient) PROVE QueuedInv'
  BY <1>1, <1>9 DEF RaiseInternal, FailRun, Become, queue
<1>10. CASE DispatchReport(w)
  BY <1>1, <1>10 DEF DispatchReport, Become, row
<1>11. CASE LoseReportDispatch(w)
  BY <1>1, <1>11 DEF LoseReportDispatch, Become, row, queue
<1>12. CASE PublishRetry(w)
  <2>1. ready \subseteq ready'
    BY <1>12 DEF PublishRetry
  <2> QED
    BY <1>1, <1>12, <2>1 DEF PublishRetry, Become, row
<1>13. CASE Acknowledge(w)
  BY <1>1, <1>13 DEF Acknowledge, Become, row, queue, IdleWorker
<1>14. CASE WorkerCrash(w)
  BY <1>1, <1>14 DEF WorkerCrash, Become, row, IdleWorker
<1>15. CASE HardTimeLimit(w)
  BY <1>1, <1>15 DEF HardTimeLimit, Become, row, queue, IdleWorker
<1> QED
  BY <1>3, <1>4, <1>5, <1>6, <1>7, <1>8, <1>9, <1>10, <1>11, <1>12, <1>13, <1>14, <1>15
  DEF Work, AfterDelivery, Finish, AfterCommit, DatabaseFault

LEMMA QueuedNext ==
  ASSUME IInv, QueuedInv, ~DatabaseFaults, [Next]_vars
  PROVE  QueuedInv'
<1> USE DEF QueuedInv, InHand, Sent, Held, Subject
<1>1. CASE Sweep
  <2>1. /\ status \in [Run -> Status]
        /\ \A u \in Worker : worker[u].at # "idle" => worker[u].msg.run \in Run
        /\ \A u \in Worker : worker[u].at \in {"evaluating", "committed", "retrying", "done"} =>
             worker[u].at # "idle"
    BY WorkerFields DEF IInv, TypeOK
  <2> QED
    BY <1>1, <2>1 DEF Sweep, Age, ReapStalled, ReapLostDispatch, FailAll, queue
<1>2. CASE UNCHANGED vars
  BY <1>2 DEF vars, row, queue
<1> QED
  BY <1>1, <1>2, QueuedRequest, QueuedWork DEF Next

(* A pending run that carries a task_id is in the queue or in a worker's hands, *)
(* in every order of dispatches, deliveries, crashes and sweeps, as long as no  *)
(* statement of a worker raises OperationalError.                               *)
THEOREM QueuedRunsAreQueued == ASSUME ~DatabaseFaults PROVE Spec => []QueuedRunHasMessage
<1>1. Init => QueuedInv
  BY DEF Init, QueuedInv, IdleWorker
<1>2. IInv /\ QueuedInv /\ [Next]_vars => QueuedInv'
  BY QueuedNext
<1>3. QueuedInv => QueuedRunHasMessage
  BY InHandIsOutstanding DEF QueuedInv, QueuedRunHasMessage
<1> QED
  BY <1>1, <1>2, <1>3, Invariance, PTL DEF Spec
=============================================================================
