# A verification of CadGPT

CadGPT checks building models (IFC) against rules (IDS). This directory holds
TLA+ modules that model its core protocols, the TLC configurations that check
them on small instances, and proofs that TLAPS checks for every value of their
constants. Source paths below are relative to the repository.

## 1. The system

| Part | State it keeps | Operations | Talks to |
|---|---|---|---|
| Review API (`services/api/cadgpt/apps/review`) | `check_run` rows | request a check, poll it, ask again for its report file | Celery through Redis, media store |
| Check execution (`review/services/execution.py`, `review/tasks.py`) | the claim on a row | claim, evaluate, succeed, fail; two periodic sweeps | rule engine, report generation |
| Report generation (`review/services/report_generation.py`) | `report_file`, `report_generation_error` | render, store, attach, discard, record a refusal | media store |
| Media store (`media/`) | `media` rows, bytes in a file storage | store, validate, open | every app with files |
| Rule sets and rule packs (`rulepack/`) | rows, IDS files | upload, archive, seed, snapshot | engine, review |
| Tenancy (`tenancy/`), accounts, projects | tenants, memberships, users, projects | create, invite, revoke, resolve | every request |
| Engine (`packages/engine`) | none | `run_check`: a verdict per entity, requirement, specification, model | called by execution |
| Regulations (`packages/regulations`) | directories of immutable evidence, receipts, a ledger | acquire, probe, transcribe, lease, ingest, reconcile, publish, compile, release | file system, official web sites, a language model run by the host |
| INBR import (`inbr/`) | `pdf_document`, `pdf_page`, `rule_candidate` | import a projection, import rule extractions | files of the regulations package |
| Web client (`services/web`) | a token, a refresh in flight, a query cache | sign in and out, choose a workspace, refresh, upload, poll | Review API, account API |

What is hard in it:

* **Check runs.** A run is touched by the web process that creates it, by the
  `on_commit` callback that publishes its message and then records `task_id`, by
  Celery workers that may die at any point and whose unacknowledged messages are
  delivered again, by `autoretry_for`, by the hard time limit, and by two
  periodic sweeps. The table is the only thing they share. Correct means: one
  executor at a time, a bounded number of claims, a definite and final end with a
  reason that is so, and no review blocked for ever.
* **Report files.** Two short transactions around a write to a storage that has
  no transactions, run by any number of callers who are all told that asking
  again is safe. Correct means: an attached file has its bytes, belongs to its run
  and stays; a crash leads to reuse; whoever asks is answered.
* **Immutable evidence.** Several processes install files by hard link, without a
  lock, and may die between two system calls; a restarted run must find either
  the whole payload or none.
* **The transcript ledger.** Workers lease chunks, answer late, die; an operator
  reclaims their leases; all of it is one JSON file under a file lock.
* **Memberships.** Every request resolves its caller once and then runs statement
  by statement, without a transaction or a lock. Correct means: a workspace keeps an
  owner, ownership comes from owners, and nobody reaches a workspace but his own.
* **The catalogue and the imports.** A seed looks, validates, writes the file and
  inserts, and other seeds run in between; an import reads a page's marks and writes
  them all back. Correct means: one pack to a file and one file to a pack, and only
  the marks and candidates of imports that returned.
* **Page evidence.** A worker process, a probe, an OCR engine shared by threads, and
  the cutting into bundles each decide again what the one before decided; commands
  without a lock share one root and may die in it. Correct means: no stage refuses
  what the last one made, no text and no doubt is lost, an index tells the truth.
* **From text to rules.** The graph of a document, two blind extractions and their
  validator, the publication, the join to the IFC mapping, the compilation and the
  release are separate commands over files, with no transaction around any of them.
  Correct means: whatever a later stage states goes back to what an earlier one has.
* **Verdicts.** Aggregation must not turn "nothing was checked" into a pass.
* **The browser session.** Calls race into the end of an access token and share one
  refresh, while a person may leave or choose another workspace.

PROJECT.json lists every component with its status, and every hazard at its line.

## 2. Modules

| Module | Models |
|---|---|
| `RunLifecycle` | abstract: what a check run promises to whoever polls it |
| `CheckRun` | request, dispatch, claim, evaluation, sweeps: `review/services/review.py`, `execution.py`, `tasks.py`, `repositories/querysets.py` and the Celery settings |
| `CheckRunProofs` | the theorems about it; its inductive invariant is at the end of `CheckRun` |
| `ReportFiles`, `ReportGeneration` | `report_generation.py`, its three callers, and the media store under it |
| `ReportGenerationProofs` | its inductive invariants, and the theorems |
| `ImmutableStore` | how `storage.py` installs one file; a library of steps, extended by its users |
| `ChunkLeases` | abstract: what the transcript ledger promises to its workers |
| `TranscriptLedger` | `luna_transcript.py` and `transcript_assembly.py` over `ImmutableStore` |
| `TranscriptLedgerProofs` | the theorems about it; its inductive invariant is at the end of `TranscriptLedger` |
| `AcquisitionRoot`, `Acquisition` | `acquisition.py` over `ImmutableStore`: one run after another on one root |
| `AcquisitionProofs` | its inductive invariant, and the theorems |
| `Membership` | `tenancy/services.py` and the views that call it, one action per statement |
| `MembershipProofs` | its inductive invariant, and the theorems |
| `RulePacks`, `RulePackCatalogue` | `rulepack/services.py`: seeding, and the bytes a run cites and evaluates |
| `TranscriptTables`, `InbrImport` | `inbr/services`: the transactions of the two imports |
| `PageStages`, `PagePipeline` | one page through `page_worker.py`, `page_probe.py` and `transcription.py` |
| `OcrEngine`, `OcrQueue` | the pages of a document before the one OCR engine of `paddle_ocr.py` |
| `Bundles` | `_build_bundles` of `transcription.py` and the validators of its result |
| `PageRoot`, `PageEvidence` | the root of `page-probe`, `transcribe` and `transcription-check` |
| `Structure` | `structure.py`: one document's pages to its graph, and the check of it |
| `DocumentProofs` | the theorems about `PageEvidence`, `Bundles` and `Structure`, with their invariants |
| `ExtractionQueue`, `Extraction` | the queue of `extraction_ingest.py`, `validator_ingest.py`, `extraction_status.py` and `semantic_publish.py` |
| `ExtractionProofs` | its inductive invariant, and the theorems |
| `Publications`, `Publication` | `reconcile_validator` and the records that `semantic_publish.py` makes |
| `RuleFiles`, `RulePipeline` | `cli.py` from candidates to a release, and `rule_projection.py` |
| `RunReport`, `Verdict` | `engine/check.py`, and the combination of reports in `execution.py` |
| `WebSession` | `client.ts` and `session.tsx` of the web client in one tab, and the refresh cookie that all tabs share |
| `PartsProofs` | the theorems about `WebSession` and the seven pairs from `RulePacks` to `RunReport` that have none of their own |
| `Null` | the value `None`, of every module that needs one |
| `MCParts` | the service beside its checks, and the page tools, as instances with their bounds |
| `MCCorpus` | the parts from acquisition to the verdict, and the workspaces |
| `MCCheckRun`, `MCTranscriptLedger` | instances for TLC: model values, symmetry |

The first of two modules in a row (`ReportFiles`, `RulePacks`, ...) holds
what is shared and lasting: the variables, what a reader makes of them, and the
properties that may be relied on. The second holds the steps. `Membership`, `WebSession`,
`Bundles` and `Structure` hold both; the last two prefix what several modules call
`Init`, `Next` and `Spec`. `ReportGeneration`, `Membership` and `WebSession` are also
checked directly, in runs whose `.cfg` is named after the module.

Definitions whose comment begins "Seeded fault" are not part of any
specification. They are the plausible bugs that the properties must catch:
PROJECT.json pairs each property with one.

### 2.1 CheckRun

| In the model | In the code |
|---|---|
| `status`, `taskId`, `claims`, `reason`, `report` | columns of `check_run`; `taskId` and `report` are "is set" |
| `old` | `created_at` (pending) or `started_at` (running) is behind `CHECK_RUN_STALL_SECONDS` |
| `ready` | messages of `execute_check_run` the broker may deliver, with their retry number |
| `worker[w]` | where the pool process stands, the message it has not acknowledged, and, while it evaluates, its own copy of `task_id` and `claim_count` |
| `requester[q]` | where a web process stands inside `request_check` |
| `RequestCheck`, `ReapBeforeRefusing`, `Recount`, `CreateRun` | `request_check`: two counts without a lock, the reap of lost dispatches between them, `create_run` |
| `Publish`, `RecordTaskId` | `_dispatch`: `delay()`, then an UPDATE of its own |
| `Deliver`, `Acknowledge`, `PublishRetry`, `WorkerCrash`, `HardTimeLimit` | Celery: `acks_late`, `reject_on_worker_lost`, `autoretry_for`, `task_time_limit` |
| `ClaimTerminal`, `ClaimExhausted`, `Claim` | the three ways through `_claim` |
| `Succeed`, `Reject`, `RaiseInternal`, `DatabaseFault` | the ends of `execute`: `_succeed`, `_fail` for the classified errors, `_fail` and raise for the others, and a statement that raises |
| `ReapStalled`, `ReapLostDispatch`, `Age` | the two beat tasks, and the clock |

A worker's save writes its whole copy (`run.save()` without `update_fields`), so
`Succeed` puts back the `task_id` it read at its claim. What the evaluation
computes is abstracted to the way it ends.

### 2.2 ReportGeneration

The row, the media table and the storage are three variables, because they are
three stores that do not commit together: `media.file.save` writes bytes before
the INSERT, `media.file.delete` removes them before the transaction that deletes
the row commits. `process[p]` follows `generate` statement by statement; the row
lock is held only across `discarding`, the one place where a transaction has an
effect that the storage shows at once. A rendering is its checksum, a function of
the run and of the tenant's language. `GenerateReport`, `Backfill` and
`RunSucceeds` are the callers.

An attempt may raise at any statement (`Raise`, and `AttachVanished` when the Media it
holds has been deleted). The task is retried for `ConnectionError` and `TimeoutError` only,
and not for ever: any other exception (`OSError`, `OperationalError`), or the last retry,
acknowledges the message and leaves neither a file nor a refusal (`GivesUp`;
views.py:184-186 says so). `raised` remembers the runs whose message ended so, until
somebody asks anew. A process that dies, or a retry, brings the message again (`Crash`).

`overlapped` is history: the runs at which two attempts were once under way together.
It divides what holds always from what holds of attempts that follow one another.

### 2.3 ImmutableStore and TranscriptLedger

`install_temporary_file` links a private temporary to its destination, unlinks
the temporary, synchronises the directory and reads the destination back. The
model keeps the names that exist (`stored`) and those whose file still has its
second link (`doubled`): a reader and a second installation accept a file with one
link only. A name is the address of its content, so one name stands for one content.

`TranscriptLedger` puts the calls on top: `Acquire` (the flock), `Initialise` or
one of the deciding actions (`load_luna_ledger` and the call's own checks), the
payloads of a completion and the ledger's snapshot through `Install`, and
`Point`, the replacement of `ledger.json`. `Fault` is a failing system call (the
code withdraws what it linked), `Crash` a dead process (nothing is withdrawn, the
kernel drops the lock). A withdrawal that fails too leaves what a crash leaves.
`granted` remembers every lease that was ever returned to a worker, so late and
repeated answers are among the inputs. `Assemble` reads without a lock.
`lease_token` is a hash of job, worker and attempts; the model compares these.

### 2.4 Acquisition

| In the model | In the code |
|---|---|
| `stored`, `doubled` | the payloads under `metadata/raw`, `metadata/projections`, `quarantine` and `artifacts` |
| `temporaries` | the contents of the dot files that earlier runs left (files of one content count as one) |
| `foreign` | the artifacts at whose path the operator has put a file that is not the pinned one |
| `flawed` | history: a server has sent what a run stores and its receipt cannot hold |
| `receipt` | `acquisition.json`: the paths its results name, the paths in its history, the artifacts that are ready and those with an `initial_transport` |
| `attempt` | where `acquire_corpus` stands: recovering, at an item, inside `_install_temp_no_clobber`, about to replace the receipt, checking the storage |
| `results` | what it has gathered; `incomplete` (a field the schema refuses, or a projection that was not installed) and `unexplained` are results that the two validations refuse |
| `Start`, `RecoverTemporary`, `Accepts`, `RefuseRoot` | `_load_previous_receipt`, `_recover_owned_temporaries`, `_reject_unknown_temporary_entries`, `_validate_startup_storage_index` |
| `RejectExisting`, `ReuseExisting`, `FetchNothing`, `FetchBody`, `FetchUnparsed` | the ways through `_acquire_artifact` and `_acquire_metadata_source` up to the first installation |
| `LinkPayload`, `ReusePayload`, `Unlink`, `Attest` | `_install_temp_no_clobber`; `Installed` says what comes after |
| `WriteReceipt`, `RefuseReceipt`, `ReplaceReceipt`, `CheckStorage` | `_build_history`, `validate_acquisition_receipt` without the root, `write_inventory`, and the validation with the root |
| `Fail*`, `Crash` | a system call that fails, by who catches it; the process dies |

Runs do not overlap: the code takes no lock, and the operations manual starts them
one by one. A server sends any body, soundly or not: `RecordOf` and `Pinned` are
the bodies that pass the code's checks, `ProjectionOf` is what
`project_wordpress_record` keeps, so that two raw records can share a projection.
Drift (a record with an unexpected projection) is left out, because it changes the
state of a result and no path.

Some answers end a run that no system call has failed. A body in `Unparsed` makes
`project_wordpress_record` raise a ValueError that acquisition.py:948 does not catch: it
is recorded as an internal error and its temporary stays (`FetchUnparsed`). A projection
may have a `Flaw`: "hashing" (its text cannot be encoded, so it has no digest), "linking"
(:1002 cannot normalise one of its links, after both payloads are installed), "listing" (a
field that the receipt's schema does not allow, :273-277, such as an empty `date`). A
status above 599 has no place in the schema either ("unlisted"). The payloads of a flawed
answer are in no receipt, so every later run refuses the root.

### 2.5 Parts that are checked together

`MCParts` and `MCCorpus` hold parts that share no state that changes, so that one
run can check them all: the variable `part` is chosen in `Init` and never changes,
the variables of the other parts stay as they begin, and each property holds of
them as it does of a part that has not begun. A part is an `INSTANCE` of its module with bounds of its own; where two
sets of bounds are interesting, there are several instances over the same variables
(`Follow`, `Overlap` and `Crowd`; `Evidence` and `Race`; `Sources` and `Answers`), or
two parts of one instance (`members` and `workspaces`). The components are
extended by their state and properties, so that what a run checks of them
and what a theorem states is one definition; their variables are there in every part
and stay in one of the states they begin with. The instances and their bounds are in `MCParts` and
`MCCorpus`, and in section 3.

### 2.6 Membership, RulePackCatalogue, InbrImport

| In the model | In the code |
|---|---|
| `membership`, `tenants` | the two tables; (tenant, user) and the slug are unique |
| `request[p]` | the request a web process answers, with the copy of its caller's membership |
| `overlapped` | history: the workspaces in which two revocations had both counted the owners and neither had saved |
| `ValidateTenant`, `CreateTenant` | `full_clean`, and the transaction with both inserts |
| `Resolve` | `resolve_membership` and the permission class |
| `ValidateGrant`, `Grant` | `MembershipService.add`: `full_clean`, then the INSERT |
| `FindRow`, `CountOwners`, `Revoke` | `revoke`: the row by its uuid, the count, the save |
| `Look`, `Clean`, `Store`, `Insert`, `Withdraw`, `LookAgain` | `seed`: the look-up, `full_clean`, the bytes, the INSERT, what is undone when it is refused, the second look-up |
| `Request`, `Checksum`, `Evaluate` | the snapshot a run cites, and the two openings of the file |
| `ImportProjection`, `Begin`, `Get`, `Save`, `Commit` ... | the imports: a page is read without a lock and saved under one |

`imported` and `disturbed` of `InbrImport` are history: what returned, and whether
two imports overlapped or the pages were imported again, in which case marks may be
missing (section 3).

### 2.7 Pages

`PagePipeline` starts with any measures of a page (`chars`, `coverage`, `ink`, the
OCR's `tokens`, each measure in permyriad) around the code's thresholds and takes it through the worker's
decision to render, `_classify`, the package that is written and the entries its
validator expects, OCR, the flags, and the transcription package with its own
validator. `OcrQueue` counts time in ticks: `PaddleGpuWorker.run` takes its
stopwatch before it waits for the lock, loads the models with the lock held, and
compares the stopwatch at the end; `threads` is how many of the pool's threads there
are, a constant of each behaviour. `Bundles` is `_build_bundles` turn by turn:
`OpenChunk` and `TakePage` fill a chunk, `EndChunk` cuts it, `SkipFailed` passes what
was not read, `WriteBundle` is the second loop with `_validate_bundle`, and
`ValidateDocument` the validator of the whole. `PageEvidence` is the root that
three commands share: packages, bundles, manifests and indexes appear one by one,
`CheckInventory` accepts or refuses the whole, `Crash` and `SyncFails` strike once
anywhere. `concurrent` is history: whether two commands were ever under way together.
`validate_page_inventory` compares directories as well as files (store_index.py:86-104).
`trees` is therefore each stage's private directory, the parent of its packages:
`ensure_private_tree` makes it before a page is packed ("made") and nobody removes it, so a
page that fails while it is packed leaves it empty ("spoilt") until another page of the
stage is installed ("packed"). `Accounted` is `FilesAccounted` and no `EmptyTrees`.
`FailPage` is every way in which a page fails: a time-out, a worker that dies, a package
that is there and does not attest, a failing system call before or while it is packed.
A page's package is one of `Variant`: workers and OCR are not
deterministic, so two commands may make different ones.

### 2.8 Structure, Extraction, Publication, RulePipeline

`Structure` is one line at a time: the builder walks through the two readings of each
page, `Kept` says which lines `_page_lines` gives it (native text, OCR, or on a mixed
page the native lines and of the OCR what is not among them), `AddLine` makes the node,
`cursor` walks through the alternate reading, `stack` is `parent_stack`, and `EndPage`
adds the records of the page. A node's line is its place (`span`), its text is looked up
(`LineOf`). `Validate` is what `validate_structure` recomputes of the graph, `Publish`
the count that `semantic_publish.py` compares. `Routed` is what `_classify` has decided
before: only where it asks for it is a page read by the OCR.

`Extraction` is one bundle with its two blind passes and the validation of each
pair. A command is followed from file to file: list, response, fsync, directory of
receipts, receipt. `Litter` and `Copy` are what a crash leaves in a directory that
its readers list. `Publication` is the content of the same commands: every
response the validator may give about two candidates, what `reconcile_validator`
refuses, and how rules, rejected and deferred records come out. A rejected or deferred
record cites any list of ids (`Audit`; semantic_publish.py:957-975 takes its own id where
there is no list), `Foreign` being also what is no list of ids, and may repeat the record
of an accepted candidate word for word. `broken` are the texts that the files cannot
hold: a `surrogate` cannot be encoded, and is found before anything is written; a
`separator` (U+2028, U+2029, U+0085) is written unescaped and splits the line when the
check re-reads it by `splitlines()`, so it raises after the files are installed (`Valid`).

`RulePipeline` is a set of files and the command under way: `pending` are the files
it has yet to install, with their turns, so that a crash is between any two, or between
the link and the unlink of one (`Halfway`): such a file is `halfLinked` and every later
installation of it is refused. Content addresses make a name its content; a rule file,
the record of the unmapped candidates, and the sidecar of a compiled rule (named after the
rule, holding the compiler's version) have names of their own and can therefore meet
another content. `compile-native-rule` takes a rule of a join or any other file
(`Handmade`); `compiled` is history.

### 2.9 Verdict and WebSession

`Verdict` takes specifications with their cardinality, whether the model has the
schema they need, and for each requirement what ifctester said of each matched
element. Its steps are the turns of the code's loops: `JudgeRequirement` counts one
requirement, `JudgeNext` ends a specification, `EndPack` a pack with its report,
`Combine` adds one pack's report to that of the run, `StatusFromCounts` makes its
status, `Attribute` writes beside each outcome the pack it is of. `Established`,
against which the report is checked, says without counting what the model shows.

`WebSession` has one action for each answer that a call can get, so that any number
of calls are under way at once, and a workspace is chosen, or somebody signs in or out,
whatever is under way. Tokens are numbered in the order of their issue.
`refreshInFlight` is the promise that all refused calls share, with the cookie it was sent
with; a call that is repeated has its headers made anew (`Resent`). The cookie is the
browser's: another tab may replace or delete it at any time (`CookieChanges`). Two
variables are history. `parted` says what has set the tab and its cookie apart: "tabs"
(another tab gave the cookie to somebody else) or "refresh" (one with somebody else's
cookie was in flight when a person signed in or out). `moved`, of a call, says that
another workspace was chosen after it was made and before it was repeated.

## 3. Runs

| Run | Bounds | Distinct states | Shows |
|---|---|---|---|
| `check_run` | 1 review, 2 runs, 2 workers, 2 requesters, 2 claims, 1 retry, database faults | 362,463 | safety of check runs under everything at once |
| `check_run_live` | as above with 1 worker, 1 requester, no retry, no database faults | 99,664 | liveness, refinement of `RunLifecycle`, and what holds of requests that do not overlap |
| `ledger` | 2 chunks, 2 workers, 2 responses, 2 processes, 1 assembler, 2 attempts, 1 mishap | 306,579 | the ledger under a crash or failure at any step, refinement of `ChunkLeases` |
| `parts` | as listed below | 561,026 | catalogue, imports, report files, pages, bundles, OCR and page evidence: safety and liveness |
| `corpus` | as listed below | 2,362,473 | acquisition, document graph, extraction queue, publication, rule pipeline, verdicts, workspaces and browser session: safety |

| Part | Bounds |
|---|---|
| `catalogue` | 3 seeders, 2 of 3 files with one title, 1 check run |
| `import` | 2 records on 2 pages, 2 extractions, 2 processes, `MaxRuns` 4 imports |
| `follow` | report files: 1 run, 3 media, 2 processes, 2 languages, `MaxOutstanding` 1, `MaxCrashes` 2 |
| `overlap` | 2 runs, 2 media, 2 processes, `MaxOutstanding` 2, no crash; the report of one of them may be too large |
| `crowd` | 1 run, 2 media, 3 processes, `MaxOutstanding` 3, `MaxCrashes` 1 |
| `pipeline` | each measure just below, at and above each of its thresholds, `MaxOnPage` 2 tokens |
| `bundles` | every document of up to `Length` 4 pages, failed ones among them, of 3 sizes; `MaxPages` 3, `MaxBytes` 4 |
| `queue` | 3 pages (`QueueSize`), 1 thread or 2, `Timeout` 3, `LoadTime` 1, `MaxTicks` 4 |
| `evidence`, `race` | 2 pages, 1 command at a time, 1 mishap, `MaxRuns` 4; 1 page of 2 variants, 2 commands at once |
| `acquisition` | 1 source with 2 records of one projection, 1 artifact, 3 bodies, 1 mishap; runs are not bounded |
| `structure` | one page of every route with up to 2 lines in each reading; 2 pages of 2 and 4 pages of 1 labelled line; `Headers` 3 |
| `extraction` | 2 answers to pass A, 1 to B, 2 decisions, 2 commands at once, 1 mishap |
| `publication` | 2 candidates, 2 meanings, every response over them and a foreign id with up to `MaxAccepted` 2 and `MaxMerged` 2 |
| `pipeline` (corpus) | 2 records, 2 rule keys, 3 extractions, 2 mappings, `MaxRuns` 4 commands |
| `verdict` | every specification of up to 2 elements and 2 requirements; selections of up to 3 packs |
| `members`, `workspaces` | 3 people, 1 workspace, 2 requests at once; 2 people, 2 workspaces, 1 request |
| `session` | 2 people, 2 workspaces, 2 queries, `MaxTokens` 3 |

Why the bounds are enough to be interesting: two runs of one review are what
`MAX_IN_FLIGHT_RUNS` forbids; two workers and one crash make a redelivery meet a
live worker; two claims let a run be exhausted after a genuine second attempt;
one retry is what `PublishRetry` needs to matter. In `crowd` three
attempts let two of them hold one Media while a third attaches. In `ledger` two
chunks and two workers give the lost update, two attempts the late answer under a
reclaimed lease, and two responses the conflicting one. The ledger run was also
made with two mishaps (2.15 million states) and with three attempts (2.24
million) without an error. In `acquisition` one source that sends another record
of the same projection is what moves a raw payload to the history and makes a
projection be reused; the artifact gives attestation and reuse; runs are not
bounded. It was also made with two mishaps (7.28 million states) without an error.
In `corpus` the processes of a part are alike, and so are the queries of the session
(`Symmetry`); `workspaces` was also made with two requests at once, and `pipeline`
with five commands, without an error.
Three people in `members` are two owners and one who is granted; three seeders are
the one that wins, the one that loses at `full_clean` and the one that loses at the
INSERT. Four pages let a bundle of three be followed by another that repeats a page.
Two threads are what makes one page wait for another; `MaxTicks` exceeds `Timeout`, so
that a page can be too slow by itself or only for having waited. Four runs in `evidence` are
a probe, a transcription, a check and a repetition. Two answers to one job are the
race that a directory of one entry has to survive. Three tokens are the one that
expires, the one that replaces it, and the next person's. The bounds by name:
`MaxOutstanding` and `MaxCrashes` (ReportGeneration), `MaxAttempts` and `MaxMishaps`
(TranscriptLedger, Acquisition), `MaxRuns` (InbrImport, PageEvidence, RulePipeline),
`MaxTicks`, `MaxTokens`, `MaxOnPage`, `MaxAccepted`, `MaxMerged`, `QueueSize`, `Length`; the sets bound the rest. `MaxClaims`, `MaxRetries`,
`MaxPages` and `MaxBytes` are limits of the code.

The type invariants of `CheckRun` and `TranscriptLedger` are conjuncts of the
inductive invariants that their runs check (`IInv`, `InductiveInvariant`).

**Deadlock** is checked in every run but `parts`, `corpus` and `report_self_delete`:
a page that is transcribed, a run that has its report file, a command that has used
its bound leave nothing to do.

**Fairness** is a definition of its own, and only for what the scheduling gives.
Celery keeps consuming a durable queue, so delivery and claim are strongly fair
(a worker may die first, but not for ever); an evaluation ends or is killed by the
hard time limit; beat ticks; gunicorn ends a hung request (`--timeout 120`).
Requests, crashes, database faults, changes of language and operators have none.
`parts` adds that a report job which is taken again and again is at last taken by a
process that lives (SF of taking, WF of each step of `generate`),
and that the loops of the page tools go on (WF): they are plain loops and a thread
pool. The ledger, `corpus` and what else an operator starts have no fairness and no
liveness property: nothing in them runs by itself.

### Runs that end in a violation

| Run | What it shows |
|---|---|
| `two_in_flight` | Two requests count zero runs in flight before either creates its own: `OneInFlight` needs a lock or a constraint that `request_check` (review.py:107) does not have. |
| `retry` | `execute` records `internal_error` before it raises again, so the retry that `autoretry_for` publishes always finds a terminal run and does nothing. |
| `database_fault` | `OperationalError` in `_claim` acknowledges the only message of a pending run which has a `task_id`; no sweep matches it and its review is refused for ever. |
| `report_self_delete` | A second attempt reuses the Media that the first has stored but not attached; after the first attaches it, the second deletes it as redundant. |
| `ledger_half_installed` | Killed between `os.link` and the unlink, an installation is refused for good when it is repeated; at the first save of a new queue that stops the whole queue. |
| `acquisition_rerun` | Killed between the first installed payload and the receipt, an acquisition leaves a temporary with two links or an unindexed payload: every later run refuses the root that the manual says to run again. |
| `membership_race` | Two requests that revoke the two owners of a workspace both count the other one and both save (tenancy/services.py:84): the workspace has no owner. `WorkspaceHasAnOwner` holds of every workspace in which no two revocations overlapped. |

Further observations that no run states:

* `StalledHasNoWorker`, `TerminalIsFinal` and the refinement hold if
  `CHECK_RUN_STALL_SECONDS` covers `CELERY_TASK_TIME_LIMIT`. The default says so
  (base.py:283), but the two are settable separately. `StallCoversLimit` is that
  condition; everything else is proved without it.
* querysets.py:114-117 says that a pending run without a `task_id` was never
  delivered. A web process that dies between `delay()` and the UPDATE leaves
  one that was. The sweep may then end it; `LostDispatchNeverClaimed` shows that no
  worker ever executes such a run, before or after.
* docs/inbr-operations.md:160-162 says that failed work is "made pending again
  with `mark-started`". `claim_luna_chunks` takes only pending chunks, and no
  command of cli.py reaches `requeue_failed_luna_chunk`.
* Two assemblers can install one book at once, and one whose directory fsync fails
  withdraws the file the other has reused. `ManifestIsOfTheLedger` is therefore a
  statement about one assembler (`ManifestsAreOfTheLedger`).
* A failing system call can do to an acquisition what a crash does: a projection
  that cannot be installed after its raw payload makes the result incomplete, the
  receipt is refused (acquisition.py:2245) although `acquire_corpus` is
  "recording every terminal result" (:144), and the raw payload is unindexed from
  then on. Without mishaps a run always ends with its receipt
  (`UndisturbedRunReturns`).
* A second seeder whose look-up passed, but whose `full_clean` comes after the first
  one's INSERT, raises a ValidationError where it would have answered "skipped" a
  moment earlier or later (rulepack/services.py:146-150 catches the loser of the
  INSERT only; custom_managers.py:109-115). A title with blanks around it is not
  found by the look-up of a second, later seed either.
* A slug or a membership that exists already makes `full_clean` raise Django's
  ValidationError, which `tenancy/services.py`:35 and :67-68 do not catch and the
  exception handler does not know: the answer is 500, and a person who was revoked
  cannot be invited again. The ConflictError is left for those who lose the race.
* Importing the projection again replaces the metadata of each page and with it the
  marks of every extraction; two imports that overlap on a page lose the marks of
  one. `ImportsAreWhole` speaks of the others.
* A page whose OCR waits for another page's is failed as slow for the time the other
  took: the stopwatch starts before the lock (paddle_ocr.py:134). `OcrIsServed`
  states it of one thread, which is the default (transcription.py:154).
* A command of the page tools that dies with a private directory in the root leaves it
  there, and every later run on that root is refused: `RerunIsAccepted` of
  `PageRoot` fails, `RerunAdoptsPackages` holds.
* `_build_bundles` passes over a chunk without bytes as if its pages had failed
  (transcription.py:1059-1062), and the validators then refuse the document:
  `NeverRefused` fails as soon as blank pages, or gaps in the selection, are among
  `Transcripts`. `OneRange`, the assumption of `Bundles`, leaves out both.
* `validate_structure` refuses a page that looks like a table and has no line of
  text, which `build_structure` makes without complaint (`OnlyEmptyTablesAreRefused`).
* The validator may reject or defer a record that cites a candidate of neither pass;
  `validator-ingest` takes it and `semantic-publish` raises. An accepted candidate
  that is not a source of its own merge may be deferred as well as published as a
  rule, though docs/tasks/T-0102-blind-luna-semantic-extraction.md:64-65 keeps deferred
  items out of publishable data.
* A pipeline command that dies half way leaves rules without the record of the
  unmapped candidates (cli.py:953-968), and repeating the join over a larger batch
  meets an `unmapped.json` of other content and is refused. A released rule whose
  target is a property stops the projection, of which rule_projection.py:38-40 says
  that it has a row for every compiled rule.
* With `Overlaps` TRUE the tab's properties fail in two ways. A refresh that is sent
  before signing out and answered after it sets the cookie and the token of the
  person who has left (`TheTabIsOneUsers`; session.tsx:72-77). A query that is
  repeated after a refresh carries the workspace chosen in the meantime and is cached
  under the one it was asked for (`CachedIsOfItsWorkspace`; client.ts:113-127).
  `session` leaves both out and shows that nothing else goes wrong. A late 401, after
  the shared refresh is over, starts a second one; client.ts:10-12 says exactly one,
  and it does no harm.

## 4. Properties

Of check runs: no two workers evaluate one run (`SingleExecutor`); claims are
bounded and counted (`ClaimBound`, `ClaimCountIsAccurate`); ends are final and
their reasons are so (`TerminalIsFinal`, `EndedRunIsExplained`,
`StalledHasNoWorker`, `LostDispatchNeverClaimed`); a pending run with a `task_id`
has its message (`QueuedRunHasMessage`); every run ends (`EveryRunEnds`); the row
implements what a client is promised (`ImplementsLifecycle`).

Of the ledger: only the holder of the current lease answers
(`OnlyTheHolderAnswers`); a completed chunk keeps its response (`CompletedIsFinal`)
and both payloads can be read (`CompletedIsReadable`); a manifest agrees with its
book and with the ledger (`ManifestIsOfTheLedger`); the whole is a set of atomic
leases (`ImplementsChunkLeases`).

Of the service (`parts`): packs and files go together, and what is evaluated is what
was cited (`CatalogueIsWhole`); marks and candidates are those of whole imports
(`ImportsAreWhole`); a report file is of its run and never beside a refusal, and, where
attempts follow one another, has its bytes and is one to a rendering
(`ReportFileIsTrue`) and stays (`UndisturbedFileStays`); whoever asks is answered
(`AskedIsAnswered`). `AttachedFileStays`, without the condition, is what
`report_self_delete` violates.

Of pages (`parts`): no stage refuses what the one before made (`StagesAgree`); every
doubt of the probe or the OCR and every text is in the record (`NothingIsDropped`); no
page with content is left out of the bundles, the validators refuse none of them, and a
sentence across pages is kept together (`BundlesAreWhole`); the engine serves every page once and fails only slow ones
(`OcrIsServed`); indexes tell the truth and interrupted work is adopted
(`EvidenceIsTrue`); every page ends (`EveryPageEnds`).

From the sources to the reader (`corpus`): a workspace is created with its owner and
keeps one, unless two revocations overlapped in it (`WorkspaceHasAnOwner`), and
ownership is granted by owners, nobody who was revoked comes back, and nobody changes a
workspace but his own, whatever stale copy a request acts on (`MembershipIsGuarded`); what a receipt indexes can be read and
undisturbed runs succeed (`ReceiptIsTrue`); no later receipt drops evidence
(`EvidenceIsRetained`); a graph is that of its pages (`GraphIsOfItsPages`); a
publication is of one queue, and the queue can be read (`QueueIsTrue`); a status is
never taken back (`StatusNeverContradicts`); no candidate is lost or has two fates
(`CandidatesHaveOneFate`); a released rule goes back to whole joins
(`ReleaseIsFounded`); a verdict is never better than what was established
(`VerdictIsEstablished`); the tab is one person's, and calls are refused only when
the session ends (`SessionIsTrue`).

## 5. Proofs

The theorems hold for every value of the constants that meets
`ConstantsAssumption` (and, for the ledger, `NoneAssumption`: None is not a ledger).
It says that sets are disjoint where the code tells their members apart, that counts are
natural numbers and that tables have their domains; it bounds nothing but what the code
bounds (percentages, `MaxPages`, `MaxBytes`). Where a
component shares its state with others in one run it is a hypothesis of each
theorem, and the runs assume it of every instance. A theorem says what a run checks of
a small instance, in the same words; a further hypothesis, where it has one, is named
below.

**CheckRun.** None of the safety properties is inductive. The argument rests on
one observation: of all copies and retries of a run's message at most one can
still be claimed. A request publishes its own run's message once
(`DispatchedOnce`); a message is in one place (`OneCopy`), and a crash only moves
it back; a retry is published by a worker that has ended the run
(`RetriesFollowTheEnd`). So a worker that evaluates is alone with its run
(`ActiveIsAlone`) and its copy of the row is still the row
(`EvaluationIsCurrent`). `IInv` is the conjunction; `Invariance` proves it with one
lemma per action. The properties follow, `TerminalIsFinal` and the refinement of
the safety part of `RunLifecycle` from one step lemma each.

Two properties of check runs hold in a smaller environment and have their own
invariant. `QueuedRunHasMessage` needs statements that do not raise (`~DatabaseFaults`):
then nobody lets go of a message before he has claimed or found ended the run it
names, and a request records `task_id` only after the message is out (`QueuedInv`).
`OneInFlight` needs one requester: nothing but `CreateRun` puts a run in flight
(`OnlyCreationStarts`), so what a request has counted is still so when it creates
(`OneAtATimeInv`). The runs `database_fault` and `two_in_flight` show that neither
condition can be dropped.

**TranscriptLedger.** The process that holds the lock is the one that is not idle
(`LockInv`); since nobody else replaces the pointer, what it is about to save
follows from the ledger as it still is and from its call (`TargetOfLedger`). A
completion installs payloads while its chunk is leased (`OnlyCompletionInstalls`),
hence a payload that a failing call withdraws is never that of a completed chunk;
payloads are readable before the pointer names them (`PayloadsAhead`). From
`InductiveInvariant` follow serial calls, readable completions, their finality,
the refusal of late workers, and that the ledger, with its lock, files, crashes
and failures, implements `ChunkLeases`. The proof does not use `MaxAttempts` or
`MaxMishaps`: it holds whatever the bounds are. Assembly takes no lock. With one
assembler at a time (`AssemblyInv`) a book that may still be withdrawn has no manifest,
and the responses it was made of are final, so `ManifestIsOfTheLedger` follows; with
two assemblers it does not hold.

**Membership.** A request acts on a copy of its caller's membership, but rows are never
removed and never change their role, so the copy is stale only in `active`
(`CallerIsMember`). What it grants was allowed to that role (`GrantIsAllowed`), what it
revokes is a row of its own workspace (`RevokesARow`), and a tenant and its first owner
come in one transaction (`TenantsHadAnOwner`): `IInv`, from which `MembershipIsGuarded`
follows for any number of people, workspaces and requests at once. That a workspace
keeps an owner needs more (`OwnersInv`): as long as the revocations of a workspace take
turns, the other owner that one of them has counted is still there when it saves. The
condition is per workspace (`overlapped`); what happens in others does not matter.

**ReportGeneration.** `IInv` holds however many attempts overlap: a Media is of one
attempt until its row is there, and a row holds what its attempt has rendered, so a run's
file is a rendering of that run and stands beside no refusal. `SerialInv` holds besides
of a run whose attempts have followed one another: whoever is at work found it without
a file, hence makes nothing that is redundant and never reaches `discarding`; a crash
leaves at most a Media that the next attempt finds again by its checksum. From both
follow `ReportFileIsTrue` and `UndisturbedFileStays`, whatever attempts at other runs do.

**Extraction.** The argument follows the directory of receipts of one job: absent, then
empty, then holding one entry, and only a failing sync goes back. Commands at work on
one job have one answer unless they contest it (`OneAnswerEach`), an empty directory is
about to be filled (`EmptyIsInTheMaking`), and a receipt names a response that is there
(`FilesHold`). `Held` is the key: a receipt that a reader has seen is found by every
later reader, or else the directory is broken in such a way that only the same answer can
be put there again. So a status is never contradicted, and a publication, which reads
the files twice, gets the same from both readings. The one exception is named
(`RaceOnFailingDisk`: two different answers raced and a directory failed to sync).

**Acquisition.** What a run is installing is named by no receipt (`LinkInv`), so that
what a failing call withdraws is not evidence; what it attests is in place and includes
everything attested before (`ResultsInv`); the receipt that replaces the old one was
validated (`WrittenInv`). That gives `ReceiptIsTrue` and `EvidenceIsRetained` for any
catalogue, any bodies and any number of crashes and failures. For runs without a mishap
`UndisturbedInv` accounts for every payload in the root: it is in the receipt, recorded
by this run, or being installed; hence no validation refuses and no run raises.

**PageEvidence.** Files are never replaced, and every index, manifest and bundle is
installed after what it names (`RunIsTrue`), so what an index reaches is true for any
number of pages and of commands at once. A run begins from a run that returned
(`RunFollows`), hence the page of a transcription is the probe's. Until something goes
wrong every file in the root is named by an index or will be by the run that made it
(`UndisturbedInv`), so the inventory accepts. After a crash, and as long as commands do
not overlap, what no index names is the dead run's or the present one's (`OrphansInv`),
and the same run started again takes it up (`TakesUp`).

**Bundles.** For any document of one range, and any limits that the configuration
allows (`BundlesAssumption`). A chunk is legible and within the limits from its first page on
(`Legible`, `WithinLimits`); the next one begins where it ended, or with its last page if
a sentence joins the two (`ChunksInOrder`); every page behind the loop is unread or in a
chunk, and two that are joined are together in one (`CutSoFar`, `ChunkUnderWay`). Since
only a chunk without bytes is passed over by the second loop, and there is none, the
records are the chunks (`WrittenSoFar`). That the validators accept them
(`ChunksMeetTheValidators`) rests on the pages' numbers being consecutive: what lies between
two chunks is failed. That no page is in three bundles follows from the strict order of
chunks that are not neighbours.

**Structure.** For any documents whose pages are routed as `_classify` routes them
(`Routed`), any depths, and any number of repeated heads. The nodes are the kept lines
behind the builder that are not blank, one each, in their order (`NodesAreLines`,
`LinesAreNodes`, `NodesAreInOrder`). Of the headings before the next line each is open or
hidden by an open one after it of no greater depth (`OpenHeadings`): therefore the deepest
open heading above a depth is the last heading of a smaller depth, which is what
`HeadingsNest` asks for without a stack. Each text has as many nodes as the readings so far ask
for (`TextsAreCounted`): on a mixed page those of the native text, and of the OCR what
exceeds them, which at the end of the page is the larger of the two counts (`ExcessIs`). The
check then refuses nothing but a table without a line (`ValidateKeeps`), and the publication
counts what the summary counts, because a deferred record has one reason (`CountsAgree`).

**RulePackCatalogue.** A row is that of the one seeder that created it, a file has the bytes
of its seeder and is there while he may need it, and names are unique (`PacksAreOfSeeders`,
`FilesAreOfSeeders`). A check run cites a row, whose bytes nobody changes (`CitedIsThere`).

**OcrQueue.** Who was served has ended or holds the lock (`ServedInTurn`); the stopwatch of the
holder will have covered its inference when it is done (`StopwatchCovers`), so a page
that is ready was fast enough. With one thread no page waits, so the stopwatch covers
nothing else (`NobodyElsesTime`), whatever the number of pages and ticks.

**PagePipeline.** For any measures between 0 and 10000 permyriad: what a stage hands on is
what the measures make of it (`HandedOn`), and the worker's thresholds and those of
`_classify` agree (`ThresholdsAgree`).

**InbrImport.** A transaction holds the rows it has written, so what it will write is what is
there and its own (`Keeps`), as long as nobody imports pages or another extraction beside
it (`NoMarkIsLost`); and whatever happens it has no mark that nobody owes (`Owed`).

**WebSession.** Under `~Overlaps`. The token, the cookie and the refresh are those of the
person who is signed in (`CredentialsAreOnes`), a cookie that is left over is never used
(`CookieIsIdle`), and a query that will be cached is of the person and the workspace of
the tab (`QueriesAreOnes`). A repeated call is not refused again (`ResentIsLive`), so only
the end of the session gives calls up. Section 3 says what happens with `Overlaps`.

**RulePipeline.** What is installed or will be is true of the joins there have been
(`FilesAreTrue`), a manifest is installed after what it lists (`ManifestsAreLast`), and the
last join has an outcome for each of its candidates among what is written
(`JoinIsUnderWay`); a command may stop anywhere in between. Files are only added, so what
is true of one stays true (`FilesStayTrue`).

**Publication.** The invariant is short, because the two steps are large: what is published
is a function of the response. The argument is where each candidate is found in it
(`FoundInRules`, `FoundInTheOthers`): one that is merged into a certain rule is in the rule
of its meaning's first candidate, one that is merged into a doubtful one is deferred with it, and
`Reconciles` lets no candidate be decided twice. Every meaning has a first rule
(`FirstOfMeaning`) for any number of candidates.

**Verdict.** For any selection of packs. The counts of a requirement say what its elements show
(`OfFacet`), the sums over some requirements what those show (`JudgedOf`), and an outcome is what its
specification establishes (`Sound`), packs behind the loop have sound reports
(`ReportsAreSound`), and the run's report has their outcomes laid end to end, each at its
place beside its pack (`CombinedInOrder`, `AttributedInOrder`). No sum is computed over
data: each step adds one term, and only whether it is zero matters.

What these proofs rest on beside the modules' own definitions: the library's facts about
finite sets, and one lemma of the project, that a non-empty finite set of natural numbers
has a least (`LeastOf`, from the well-founded order of finite subsets). `PartsProofs`
instantiates eight modules by name; a constant of one name (`None`, `Process`, `Revision`)
stands for an arbitrary value in each, so that sharing it restricts nothing.

**Only model-checked:** what needs fairness (`EveryRunEnds`, `AskedIsAnswered`,
`EveryPageEnds`, the liveness part of `ImplementsLifecycle`). Every invariant and every
action property that a passing run checks is stated by a theorem. `Bundles`, `Verdict` and
`Structure` are written as the loops they model, a step for each turn, because what a
recursive definition computes for every input cannot be proved: an invariant takes the
place of the induction.

## 6. Not modelled

Whole components: accounts, projects and the base classes (single rows, no
protocol); the wording and translation of reports (a rendering is its checksum);
serializers, routers and filters; the hand-written catalogue, the inventory and the
publication gate (validation of files that people write); deployment and tools.

Parts of components: page bundles, continuation edges and crops of `structure.py`;
rule sets that are created or archived; uploads and downloads of media; the
byte-level attestation of the store's index and of page packages; the books an INBR
import is assembled from; how a ledger's queue is cut into chunks; pages and polling
of the web client. Parsing of IFC and IDS is done by ifcopenshell and ifctester.

Django, PostgreSQL, Celery and the browser are modelled as the code uses them: a
statement is atomic, `select_for_update` excludes, `on_commit` runs after the commit,
a message is delivered again after its worker dies (the visibility timeout exceeds
the hard time limit, base.py:277, so not before), a renaming that may not replace is
atomic, a signed token is good until it expires.

## 7. What is left

1. A composition of `CheckRun` and `ReportGeneration` through `reportJobs`: each is proved
   with the other as its environment.
2. `PageEvidence` with real bundles: it takes the set of a run's bundles as given, and
   `Bundles` shows of one document that it is whole.
3. The parts of section 6 that have a protocol: rule sets that are archived while a check
   run cites them, and the pages and polling of the web client.
