------------------------------ MODULE CheckRun ------------------------------
(***************************************************************************)
(* The life of a check run: a web request creates it (ReviewService), the  *)
(* broker carries it, a Celery worker claims and evaluates it              *)
(* (CheckRunExecutor), two periodic sweeps end the runs nobody will end.   *)
(*                                                                         *)
(* One action is one database statement, one broker operation or one       *)
(* crash.  Between two actions of one process every other process may run. *)
(***************************************************************************)
EXTENDS Naturals, FiniteSets

CONSTANTS
  Review,            \* the reviews whose checks are requested
  Run,               \* identities of rows, each created at most once
  ReviewOf,          \* the review under which a run would be created
  Worker,            \* pool processes of the Celery workers
  Requester,         \* web processes inside request_check
  MaxClaims,         \* settings.CHECK_RUN_MAX_CLAIMS
  MaxRetries,        \* max_retries of execute_check_run
  StallCoversLimit,  \* CHECK_RUN_STALL_SECONDS >= CELERY_TASK_TIME_LIMIT ?
  DatabaseFaults     \* may a worker's statement raise OperationalError ?

ASSUME ConstantsAssumption ==
  /\ ReviewOf \in [Run -> Review]
  /\ MaxClaims \in Nat \ {0}
  /\ MaxRetries \in Nat
  /\ StallCoversLimit \in BOOLEAN
  /\ DatabaseFaults \in BOOLEAN

MAX_IN_FLIGHT_RUNS == 1

VARIABLES
  (* the check_run table *)
  status, taskId, claims, reason, report, old,
  (* the broker *)
  ready, reportJobs,
  (* the processes *)
  worker, requester

row   == <<status, taskId, claims, reason, report, old>>
queue == <<ready, reportJobs>>
vars  == <<row, queue, worker, requester>>

-----------------------------------------------------------------------------
(* Types. *)

Terminal  == {"succeeded", "failed"}
InFlightStatus == {"pending", "running"}
Status    == {"absent"} \cup InFlightStatus \cup Terminal

\* What an evaluation can find wrong; execute returns normally after these.
Rejection == {"invalid_model", "invalid_rule_set", "rule_pack_modified"}
Reason    == Rejection \cup {"none", "internal_error", "stalled",
                             "resource_exhausted", "dispatch_lost"}

\* A message of queue `checks`: which run, and which attempt of autoretry.
Message == [run : Run, retries : 0..MaxRetries]
Fresh(r) == [run |-> r, retries |-> 0]

\* A worker holding a message has not acknowledged it (acks_late).  From the
\* claim on it also holds its own copy of the row, as select_for_update read it.
IdleWorker == [at |-> "idle"]
HoldsMessage == [at : {"claiming", "committed", "retrying", "done"}, msg : Message]
Evaluates == [at : {"evaluating"}, msg : Message, taskId : BOOLEAN, claims : Nat]
WorkerState == {IdleWorker} \cup HoldsMessage \cup Evaluates

IdleRequester == [at |-> "idle"]
Asks  == [at : {"blocked", "reaped", "admitted"}, review : Review]
Sends == [at : {"committed", "sent"}, run : Run]
RequesterState == {IdleRequester} \cup Asks \cup Sends

TypeOK ==
  /\ status \in [Run -> Status]
  /\ taskId \in [Run -> BOOLEAN]
  /\ claims \in [Run -> Nat]
  /\ reason \in [Run -> Reason]
  /\ report \in [Run -> BOOLEAN]
  /\ old \in [Run -> BOOLEAN]
  /\ ready \subseteq Message
  /\ reportJobs \subseteq Run
  /\ worker \in [Worker -> WorkerState]
  /\ requester \in [Requester -> RequesterState]

Init ==
  /\ status = [r \in Run |-> "absent"]
  /\ taskId = [r \in Run |-> FALSE]
  /\ claims = [r \in Run |-> 0]
  /\ reason = [r \in Run |-> "none"]
  /\ report = [r \in Run |-> FALSE]
  /\ old = [r \in Run |-> FALSE]
  /\ ready = {}
  /\ reportJobs = {}
  /\ worker = [w \in Worker |-> IdleWorker]
  /\ requester = [q \in Requester |-> IdleRequester]

-----------------------------------------------------------------------------
(* The querysets. *)

\* Seeded fault: the terminal statuses are not excluded.
InFlightUnlessAbsent(r) == status[r] # "absent"
InFlight(r) == status[r] \in InFlightStatus
InFlightOf(v) == {r \in Run : ReviewOf[r] = v /\ InFlight(r)}
\* Seeded fault: off by one at the limit.
FullOffByOne(v) == Cardinality(InFlightOf(v)) > MAX_IN_FLIGHT_RUNS
Full(v) == Cardinality(InFlightOf(v)) >= MAX_IN_FLIGHT_RUNS

\* Seeded faults: the age filter forgotten; the status filter forgotten.
StalledAtAnyAge(r) == status[r] = "running"
DispatchLostInFlight(r) == InFlight(r) /\ ~taskId[r] /\ old[r]

\* CheckRunQuerySet.stalled and .dispatch_lost, past their age cutoff.
Stalled(r) == status[r] = "running" /\ old[r]
DispatchLost(r) == status[r] = "pending" /\ ~taskId[r] /\ old[r]

\* One filtered UPDATE: the filter is evaluated on the rows as they are written.
FailAll(rows, why) ==
  /\ status' = [r \in Run |-> IF r \in rows THEN "failed" ELSE status[r]]
  /\ reason' = [r \in Run |-> IF r \in rows THEN why ELSE reason[r]]
  /\ UNCHANGED <<taskId, claims, report, old>>

-----------------------------------------------------------------------------
(* ReviewService.request_check, in a web process. *)

Proceed(q, state) == requester' = [requester EXCEPT ![q] = state]

\* The first count.  It locks nothing.
RequestCheck(q, v) ==
  /\ requester[q].at = "idle"
  /\ Proceed(q, [at |-> IF Full(v) THEN "blocked" ELSE "admitted", review |-> v])
  /\ UNCHANGED <<row, queue, worker>>

\* Seeded fault: the alternative _reap_lost_dispatch rejects, dispatching again.
DispatchAgainBeforeRefusing(q) ==
  /\ requester[q].at = "blocked"
  /\ LET v == requester[q].review IN
       /\ ready' = ready \cup {Fresh(r) : r \in {x \in InFlightOf(v) : DispatchLost(x)}}
       /\ Proceed(q, [at |-> "reaped", review |-> v])
  /\ UNCHANGED <<row, reportJobs, worker>>

\* About to refuse: end this review's lost dispatches.
ReapBeforeRefusing(q) ==
  /\ requester[q].at = "blocked"
  /\ LET v == requester[q].review IN
       /\ FailAll({r \in InFlightOf(v) : DispatchLost(r)}, "dispatch_lost")
       /\ Proceed(q, [at |-> "reaped", review |-> v])
  /\ UNCHANGED <<queue, worker>>

\* The second count: ConflictError, or go on.
Recount(q) ==
  /\ requester[q].at = "reaped"
  /\ LET v == requester[q].review IN
       Proceed(q, IF Full(v) THEN IdleRequester
                  ELSE [at |-> "admitted", review |-> v])
  /\ UNCHANGED <<row, queue, worker>>

\* create_run commits; the on_commit callback is now due.
CreateRun(q, r) ==
  /\ requester[q].at = "admitted"
  /\ requester[q].review = ReviewOf[r]
  /\ status[r] = "absent"
  /\ status' = [status EXCEPT ![r] = "pending"]
  /\ Proceed(q, [at |-> "committed", run |-> r])
  /\ UNCHANGED <<taskId, claims, reason, report, old, queue, worker>>

\* _dispatch, first half: task.delay() publishes the message.
Publish(q) ==
  /\ requester[q].at = "committed"
  /\ ready' = ready \cup {Fresh(requester[q].run)}
  /\ Proceed(q, [at |-> "sent", run |-> requester[q].run])
  /\ UNCHANGED <<row, reportJobs, worker>>

\* _dispatch, second half: a separate UPDATE of task_id, whatever the row became.
RecordTaskId(q) ==
  /\ requester[q].at = "sent"
  /\ taskId' = [taskId EXCEPT ![requester[q].run] = TRUE]
  /\ Proceed(q, IdleRequester)
  /\ UNCHANGED <<status, claims, reason, report, old, queue, worker>>

\* The request ends early: _resolve_selection refuses, .delay() raises because
\* the broker is unreachable, or the web process dies.
AbandonRequest(q) ==
  /\ requester[q].at # "idle"
  /\ Proceed(q, IdleRequester)
  /\ UNCHANGED <<row, queue, worker>>

-----------------------------------------------------------------------------
(* The broker and the worker around execute_check_run. *)

Become(w, state) == worker' = [worker EXCEPT ![w] = state]

Deliver(w, m) ==
  /\ worker[w].at = "idle"
  /\ m \in ready
  /\ ready' = ready \ {m}
  /\ Become(w, [at |-> "claiming", msg |-> m])
  /\ UNCHANGED <<row, reportJobs, requester>>

\* The task returned, or raised something that is not retried: both acknowledge.
Acknowledge(w) ==
  /\ worker[w].at = "done"
  /\ Become(w, IdleWorker)
  /\ UNCHANGED <<row, queue, requester>>

\* autoretry: the retry is published as a message of its own, before the ack.
PublishRetry(w) ==
  /\ worker[w].at = "retrying"
  /\ LET m == worker[w].msg IN
       /\ ready' = IF m.retries < MaxRetries
                   THEN ready \cup {[m EXCEPT !.retries = @ + 1]} ELSE ready
       /\ Become(w, [at |-> "done", msg |-> m])
  /\ UNCHANGED <<row, reportJobs, requester>>

\* Seeded fault: acks_late off, the message dies with its worker.
WorkerCrashLosesMessage(w) ==
  /\ worker[w].at # "idle"
  /\ Become(w, IdleWorker)
  /\ UNCHANGED <<row, queue, requester>>

\* The process dies; the unacknowledged message is delivered again, at once
\* (reject_on_worker_lost) or after the visibility timeout.
WorkerCrash(w) ==
  /\ worker[w].at # "idle"
  /\ ready' = ready \cup {worker[w].msg}
  /\ Become(w, IdleWorker)
  /\ UNCHANGED <<row, reportJobs, requester>>

\* The hard time limit kills the evaluation and acknowledges the message.
HardTimeLimit(w) ==
  /\ worker[w].at = "evaluating"
  /\ Become(w, IdleWorker)
  /\ UNCHANGED <<row, queue, requester>>

\* The statement of _claim, _succeed or _fail raises.  OperationalError is not
\* in autoretry_for, so the task fails and its message is acknowledged.
DatabaseFault(w) ==
  /\ DatabaseFaults
  /\ worker[w].at \in {"claiming", "evaluating"}
  /\ Become(w, [at |-> "done", msg |-> worker[w].msg])
  /\ UNCHANGED <<row, queue, requester>>

-----------------------------------------------------------------------------
(* CheckRunExecutor, inside a worker. *)

Subject(w) == worker[w].msg.run

\* Seeded fault: the reason is not saved.
FailRunWithoutReason(r, why) ==
  /\ status' = [status EXCEPT ![r] = "failed"]
  /\ UNCHANGED <<taskId, claims, reason, report, old>>

\* _fail: saves status, finished_at and the reason, and looks at nothing.
FailRun(r, why) ==
  /\ status' = [status EXCEPT ![r] = "failed"]
  /\ reason' = [reason EXCEPT ![r] = why]
  /\ UNCHANGED <<taskId, claims, report, old>>

\* Seeded faults: off by one at the bound; the attempt is not counted.
ExhaustedOffByOne(r) == claims[r] > MaxClaims
ClaimUncounted(r) == claims[r]

Exhausted(r) == claims[r] >= MaxClaims
NextClaim(r) == claims[r] + 1

\* _claim under the row lock, when the run has already ended.
ClaimTerminal(w) ==
  /\ worker[w].at = "claiming"
  /\ status[Subject(w)] \in Terminal
  /\ Become(w, [at |-> "done", msg |-> worker[w].msg])
  /\ UNCHANGED <<row, queue, requester>>

\* _claim, when the run was claimed too often.
ClaimExhausted(w) ==
  /\ worker[w].at = "claiming"
  /\ InFlight(Subject(w))
  /\ Exhausted(Subject(w))
  /\ FailRun(Subject(w), "resource_exhausted")
  /\ Become(w, [at |-> "done", msg |-> worker[w].msg])
  /\ UNCHANGED <<queue, requester>>

\* Seeded fault: the count is not saved with the claim.
ClaimCountedInMemory(w) ==
  LET r == Subject(w) IN
  /\ worker[w].at = "claiming"
  /\ InFlight(r)
  /\ ~Exhausted(r)
  /\ status' = [status EXCEPT ![r] = "running"]
  /\ old' = [old EXCEPT ![r] = FALSE]
  /\ Become(w, [at |-> "evaluating", msg |-> worker[w].msg,
                taskId |-> taskId[r], claims |-> NextClaim(r)])
  /\ UNCHANGED <<taskId, claims, reason, report, queue, requester>>

\* Seeded fault: a redelivered run goes back to pending before it is claimed.
ClaimThroughPending(w) ==
  LET r == Subject(w) IN
  /\ worker[w].at = "claiming"
  /\ InFlight(r)
  /\ ~Exhausted(r)
  /\ status' = [status EXCEPT ![r] = IF @ = "running" THEN "pending" ELSE "running"]
  /\ claims' = [claims EXCEPT ![r] = NextClaim(r)]
  /\ old' = [old EXCEPT ![r] = FALSE]
  /\ Become(w, [at |-> "evaluating", msg |-> worker[w].msg,
                taskId |-> taskId[r], claims |-> NextClaim(r)])
  /\ UNCHANGED <<taskId, reason, report, queue, requester>>

\* _claim: PENDING or RUNNING becomes RUNNING, with a new started_at.
Claim(w) ==
  LET r == Subject(w) IN
  /\ worker[w].at = "claiming"
  /\ InFlight(r)
  /\ ~Exhausted(r)
  /\ status' = [status EXCEPT ![r] = "running"]
  /\ claims' = [claims EXCEPT ![r] = NextClaim(r)]
  /\ old' = [old EXCEPT ![r] = FALSE]
  /\ Become(w, [at |-> "evaluating", msg |-> worker[w].msg,
                taskId |-> taskId[r], claims |-> NextClaim(r)])
  /\ UNCHANGED <<taskId, reason, report, queue, requester>>

\* _succeed: run.save() of the worker's whole copy; the row is not read again.
Succeed(w) ==
  LET r == Subject(w) IN
  /\ worker[w].at = "evaluating"
  /\ status' = [status EXCEPT ![r] = "succeeded"]
  /\ reason' = [reason EXCEPT ![r] = "none"]
  /\ report' = [report EXCEPT ![r] = TRUE]
  /\ taskId' = [taskId EXCEPT ![r] = worker[w].taskId]
  /\ claims' = [claims EXCEPT ![r] = worker[w].claims]
  /\ Become(w, [at |-> "committed", msg |-> worker[w].msg])
  /\ UNCHANGED <<old, queue, requester>>

\* on_commit: generate_report_file.delay() ...
DispatchReport(w) ==
  /\ worker[w].at = "committed"
  /\ reportJobs' = reportJobs \cup {Subject(w)}
  /\ Become(w, [at |-> "done", msg |-> worker[w].msg])
  /\ UNCHANGED <<row, ready, requester>>

\* ... which raises when the broker is unreachable.
LoseReportDispatch(w) ==
  /\ worker[w].at = "committed"
  /\ Become(w, [at |-> "done", msg |-> worker[w].msg])
  /\ UNCHANGED <<row, queue, requester>>

\* The model, the rules or the citation are refused.
Reject(w, why) ==
  /\ worker[w].at = "evaluating"
  /\ FailRun(Subject(w), why)
  /\ Become(w, [at |-> "done", msg |-> worker[w].msg])
  /\ UNCHANGED <<queue, requester>>

\* Any other exception: recorded as internal_error and raised again.  A
\* ConnectionError or TimeoutError is one that autoretry_for names.
RaiseInternal(w, transient) ==
  /\ worker[w].at = "evaluating"
  /\ FailRun(Subject(w), "internal_error")
  /\ Become(w, [at |-> IF transient THEN "retrying" ELSE "done",
                msg |-> worker[w].msg])
  /\ UNCHANGED <<queue, requester>>

Evaluating(r) == \E w \in Worker : worker[w].at = "evaluating" /\ Subject(w) = r
Dispatching(r) ==
  \E q \in Requester : requester[q].at \in {"committed", "sent"}
                       /\ requester[q].run = r

-----------------------------------------------------------------------------
(* Time, and the two periodic sweeps. *)

\* created_at of a pending run, or started_at of a running one, falls behind the
\* stall window.  By then gunicorn (--timeout 120) has ended the request that
\* dispatches it, and, when the window covers the hard time limit, Celery has
\* killed the worker that evaluates it.
Age(r) ==
  /\ ~old[r]
  /\ \/ status[r] = "pending" /\ ~Dispatching(r)
     \/ status[r] = "running" /\ (StallCoversLimit => ~Evaluating(r))
  /\ old' = [old EXCEPT ![r] = TRUE]
  /\ UNCHANGED <<status, taskId, claims, reason, report, queue, worker, requester>>

ReapStalled ==
  /\ \E r \in Run : Stalled(r)
  /\ FailAll({r \in Run : Stalled(r)}, "stalled")
  /\ UNCHANGED <<queue, worker, requester>>

ReapLostDispatch ==
  /\ \E r \in Run : DispatchLost(r)
  /\ FailAll({r \in Run : DispatchLost(r)}, "dispatch_lost")
  /\ UNCHANGED <<queue, worker, requester>>

-----------------------------------------------------------------------------
Request(q) ==
  \/ \E v \in Review : RequestCheck(q, v)
  \/ ReapBeforeRefusing(q)
  \/ Recount(q)
  \/ \E r \in Run : CreateRun(q, r)
  \/ Publish(q)
  \/ RecordTaskId(q)
  \/ AbandonRequest(q)

Finish(w) ==
  \/ Succeed(w)
  \/ \E why \in Rejection : Reject(w, why)
  \/ \E transient \in BOOLEAN : RaiseInternal(w, transient)

AfterDelivery(w) == ClaimTerminal(w) \/ ClaimExhausted(w) \/ Claim(w)
AfterCommit(w) == DispatchReport(w) \/ LoseReportDispatch(w)

Work(w) ==
  \/ \E m \in Message : Deliver(w, m)
  \/ AfterDelivery(w)
  \/ Finish(w)
  \/ AfterCommit(w)
  \/ PublishRetry(w)
  \/ Acknowledge(w)
  \/ WorkerCrash(w)
  \/ HardTimeLimit(w)
  \/ DatabaseFault(w)

Sweep ==
  \/ \E r \in Run : Age(r)
  \/ ReapStalled
  \/ ReapLostDispatch

Next ==
  \/ \E q \in Requester : Request(q)
  \/ \E w \in Worker : Work(w)
  \/ Sweep

ClaimBySomeone(r) ==
  \E w \in Worker :
    worker[w].at = "claiming" /\ Subject(w) = r /\ AfterDelivery(w)
EndOfDispatch(q) ==
  /\ requester[q].at \in {"committed", "sent"}
  /\ Publish(q) \/ RecordTaskId(q) \/ AbandonRequest(q)

\* Celery keeps consuming a durable queue, so a run's message is taken and
\* claimed if it can be again and again (no worker dies before the claim for
\* ever); an evaluation ends or meets its time limit; beat keeps ticking; a web
\* process does not hang in its on_commit callback (gunicorn --timeout).
\* Requests, crashes and faults are the environment's and carry no fairness.
Fairness ==
  /\ \A m \in Message : SF_vars(\E w \in Worker : Deliver(w, m))
  /\ \A r \in Run : SF_vars(ClaimBySomeone(r))
  /\ \A q \in Requester : WF_vars(EndOfDispatch(q))
  /\ \A w \in Worker :
       /\ WF_vars(Finish(w) \/ HardTimeLimit(w))
       /\ WF_vars(AfterCommit(w) \/ PublishRetry(w))
       /\ WF_vars(Acknowledge(w))
  /\ \A r \in Run : WF_vars(Age(r))
  /\ WF_vars(ReapStalled)
  /\ WF_vars(ReapLostDispatch)

Spec == Init /\ [][Next]_vars /\ Fairness

-----------------------------------------------------------------------------
(* Properties. *)

Messages == ready \cup {worker[w].msg : w \in {u \in Worker : worker[u].at # "idle"}}
Outstanding(r) == \E m \in Messages : m.run = r

\* Two workers never evaluate one run at once: what the docstring of execute
\* relies on when it claims a run that is already RUNNING.
SingleExecutor ==
  \A w1, w2 \in Worker :
    /\ worker[w1].at = "evaluating" /\ worker[w2].at = "evaluating"
    /\ Subject(w1) = Subject(w2)
    => w1 = w2

\* A run that has ended never changes its status, reason or report again.
TerminalIsFinal ==
  [][\A r \in Run : status[r] \in Terminal =>
       /\ status'[r] = status[r]
       /\ reason'[r] = reason[r]
       /\ report'[r] = report[r]]_vars

\* A poison run is stopped: no run is claimed more than CHECK_RUN_MAX_CLAIMS
\* times, and one ended as exhausted has used every one of them.
ClaimBound ==
  \A r \in Run :
    /\ claims[r] <= MaxClaims
    /\ reason[r] = "resource_exhausted" => claims[r] = MaxClaims

\* claim_count knows every attempt: a worker's copy is the count of the row.
ClaimCountIsAccurate ==
  \A w \in Worker : worker[w].at = "evaluating" =>
    /\ worker[w].claims = claims[Subject(w)]
    /\ claims[Subject(w)] > 0

\* A run ended as never dispatched was claimed by nobody, before or after.
LostDispatchNeverClaimed ==
  \A r \in Run : reason[r] = "dispatch_lost" => claims[r] = 0 /\ ~Evaluating(r)

\* A run ended as stalled has no live worker.
StalledHasNoWorker ==
  \A r \in Run : reason[r] = "stalled" => ~Evaluating(r)

\* A pending run that carries a task_id is in the queue: the reason why the
\* sweeps may leave it alone whatever its age.
QueuedRunHasMessage ==
  \A r \in Run : status[r] = "pending" /\ taskId[r] => Outstanding(r)

\* on_commit: no message names a row that is not there, and no report job a run
\* that has no report.
MessagesFollowCommits ==
  /\ \A m \in Messages : status[m.run] # "absent"
  /\ \A r \in reportJobs : status[r] = "succeeded" /\ report[r]

\* succeeded_run_has_a_report and failed_run_states_a_reason, and their converse.
EndedRunIsExplained ==
  \A r \in Run :
    /\ status[r] = "failed" <=> reason[r] # "none"
    /\ status[r] = "succeeded" <=> report[r]

\* MAX_IN_FLIGHT_RUNS: one review has at most one run in flight.
OneInFlight ==
  \A v \in Review : Cardinality(InFlightOf(v)) <= MAX_IN_FLIGHT_RUNS

\* autoretry_for: a retry that is queued finds a run it can execute.
RetryFindsWork ==
  \A m \in ready : m.retries > 0 => status[m.run] \notin Terminal

\* Every run that is created comes to an end, so no review stays blocked.
EveryRunEnds == \A r \in Run : InFlight(r) ~> status[r] \in Terminal

-----------------------------------------------------------------------------
(* What a run promises, and that it is kept: the row's status and claim_count *)
(* behave as the phase and attempts of RunLifecycle, and it ends.             *)
Lifecycle == INSTANCE RunLifecycle WITH phase <- status, attempts <- claims
ImplementsLifecycle == Lifecycle!Spec
LifecycleSafety == Lifecycle!Init /\ [][Lifecycle!Next]_(Lifecycle!vars)

-----------------------------------------------------------------------------
(***************************************************************************)
(* The inductive invariant of CheckRun.  The argument in one line: of all  *)
(* the copies and retries of a run's message at most one can be claimed,   *)
(* because every other one exists only after the run has ended.            *)
(***************************************************************************)

Held(w) == worker[w].at # "idle"

\* A worker that may still change the row or publish a retry.
Active(w) == worker[w].at \in {"evaluating", "retrying"}

\* A message is in one place: the queue, or the hands of one worker.
OneCopy ==
  /\ \A w \in Worker : Held(w) => worker[w].msg \notin ready
  /\ \A w1, w2 \in Worker :
       Held(w1) /\ Held(w2) /\ worker[w1].msg = worker[w2].msg => w1 = w2

\* While a worker is active, its message is the run's only one.
ActiveIsAlone ==
  \A w \in Worker : Active(w) =>
    /\ \A m \in ready : m.run # Subject(w)
    /\ \A u \in Worker : Held(u) /\ Subject(u) = Subject(w) => u = w

\* A retry is published only after _fail has ended the run.
RetriesFollowTheEnd ==
  /\ \A m \in ready : m.retries > 0 => status[m.run] \in Terminal
  /\ \A w \in Worker : Held(w) /\ worker[w].msg.retries > 0
                         => status[Subject(w)] \in Terminal

\* What a process knows of the row after its own commit.
CommitsAreSeen ==
  /\ \A m \in ready : status[m.run] # "absent"
  /\ \A w \in Worker : Held(w) => status[Subject(w)] # "absent"
  /\ \A w \in Worker : worker[w].at = "retrying" => status[Subject(w)] \in Terminal
  /\ \A w \in Worker : worker[w].at = "committed" => status[Subject(w)] = "succeeded"
  /\ \A r \in reportJobs : status[r] = "succeeded"

\* A request publishes its own row's message, once.
DispatchedOnce ==
  /\ \A q \in Requester : requester[q].at \in {"committed", "sent"} =>
       status[requester[q].run] # "absent"
  /\ \A q \in Requester : requester[q].at = "committed" =>
       /\ \A m \in ready : m.run # requester[q].run
       /\ \A w \in Worker : Held(w) => Subject(w) # requester[q].run
  /\ \A q1, q2 \in Requester :
       /\ requester[q1].at \in {"committed", "sent"}
       /\ requester[q2].at \in {"committed", "sent"}
       /\ requester[q1].run = requester[q2].run
       => q1 = q2

\* A worker's copy of the row is the row, as long as it evaluates.
EvaluationIsCurrent ==
  \A w \in Worker : worker[w].at = "evaluating" =>
    /\ status[Subject(w)] \in {"running", "failed"}
    /\ StallCoversLimit => status[Subject(w)] = "running" /\ ~old[Subject(w)]
    /\ worker[w].claims = claims[Subject(w)]
    /\ claims[Subject(w)] > 0

UnclaimedCountsZero ==
  \A r \in Run :
    status[r] \in {"absent", "pending"} \/ reason[r] = "dispatch_lost" => claims[r] = 0

\* The inductive invariant: the safety properties of CheckRun follow from it.
IInv ==
  /\ TypeOK
  /\ OneCopy
  /\ ActiveIsAlone
  /\ RetriesFollowTheEnd
  /\ CommitsAreSeen
  /\ DispatchedOnce
  /\ EvaluationIsCurrent
  /\ UnclaimedCountsZero
  /\ ClaimBound
  /\ EndedRunIsExplained

-----------------------------------------------------------------------------
(* What holds of the environments in which one thing more can be relied on. *)

\* A message of the run is in the queue or in the hands of a worker.
InHand(r) ==
  \/ \E m \in ready : m.run = r
  \/ \E w \in Worker : Held(w) /\ Subject(w) = r

Sent(r) == \E q \in Requester : requester[q].at = "sent" /\ requester[q].run = r

\* As long as no statement of a worker raises, nobody lets go of a run that he has
\* not claimed.
QueuedInv ==
  /\ \A r \in Run : status[r] = "pending" /\ (taskId[r] \/ Sent(r)) => InHand(r)
  /\ \A r \in Run : status[r] = "absent" => ~taskId[r]
  /\ \A w \in Worker : worker[w].at \in {"evaluating", "committed", "retrying", "done"} =>
       status[Subject(w)] # "pending"

\* With one web process at a time inside request_check, what it has counted stays so.
OneAtATimeInv ==
  /\ \A r1, r2 \in Run : InFlight(r1) /\ InFlight(r2) /\ ReviewOf[r1] = ReviewOf[r2] => r1 = r2
  /\ \A q \in Requester : requester[q].at = "admitted" =>
       \A r \in Run : ReviewOf[r] = requester[q].review => ~InFlight(r)
=============================================================================
