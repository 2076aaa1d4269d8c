# SmartIngest in TLA+

This directory models SmartIngest, a service that takes documents over HTTP, runs
each one through a LangGraph pipeline of five agents and stores a routing
decision (`auto_approve`, `flag_for_review` or `reject`). The modules are
translated from `src/src/smartingest`; TLC checks them on small instances and
TLAPS proves every safety property that the passing runs check, for every
value of the parameters.

    tlc -config MCPipeline.cfg MCPipeline        one run
    tlapm PipelineProofs.tla                     the proofs of one module

## 1. The system

| Component | State it keeps | Operations | Interacts with |
|---|---|---|---|
| `graph.py`, `state.py` | one `AgentState` per run | nodes, the conditional edge, `_state_to_result` | the agents; called by the worker |
| `agents/` | none of their own | `guardrail_node`, `classifier_node`, `extractor_node`, `validator_node` and `needs_retry`, `router_node` | `AgentState`, the LLM client, the rules, the file |
| `guardrails/` | none | injection, personal-data and grounding scanners, `validate_upload` | the agents; `validate_upload` is called by the API |
| `models.py` | none | alias synchronisation, effective accessors | everything |
| `rules.py`, `config/rules.yaml` | one cached rule set per process | accessors | validator, router |
| `llm.py` | none | `classify`, `extract`, fail-over along a chain of models, parsing and salvage of payloads | classifier, extractor, the Gemini service |
| `api.py` | the open requests | `/upload`, `/status`, `/results`, start-up and shutdown | limiter, store, worker |
| `store.py` | rows `(job_id, status, result)` in SQLite | `create`, `set_status`, `save_result`, `get_status`, `get_result`, `exists`, `close` | API handlers and worker threads, under one lock |
| `worker.py` | the queue and the threads of a pool | `submit`, `_run`, `shutdown` | store, graph |
| `ratelimit.py` | a day window with its count, a bucket per client | `check`, `_prune` | the upload handler |
| `streamlit_app.py` | the script of a page and what it shows | upload, then polling with a deadline, then the result; a rerun on any interaction | the API |
| `eval/` | a dataset file, LangSmith's copy of it, a report | `load_dataset`, `run_evaluation` and its gate, `run_langsmith_eval` | the graph, LangSmith |
| `cli.py`, `tracing.py`, `scripts/` | none | see `PROJECT.json`, "components" | the graph |

A request to `/upload` passes the limiter and the checks of the body, writes the
file, inserts a `queued` row, submits the job and answers with its id. A pool
thread sets the row to `running`, runs the graph and saves status and result in
one statement. Clients poll. Threads of the pool, threads of the read handlers
and the event loop run concurrently, and the process may stop between any two
steps; only rows and files survive.

What is hard to test here, and what makes each part correct:

* **The retry loop.** Fields, issues, findings, confidence, counter and error
  are written by different nodes at different passes. The decision must rest on
  one consistent set of them, the loop must stop, and an approval must mean that
  the approved fields pass every rule.
* **The store and the pool.** Readers must never see half an outcome, a job must
  be run once, an accepted job must stay known, a finished one must stay
  finished, and an unfinished one must be on its way.
* **Process life.** Shutdown does not wait for the pool; start-up does not look
  at rows.
* **The limiter.** Two fixed windows, a clock that is read outside the lock, and
  a map that is pruned when it overflows.
* **The language model.** A request can be refused, fail, or come back with
  prose around the answer, with null, missing and malformed fields. A refusal
  must cost no more than the next model, a bad field no good one, and where a
  default stands in for what the model did not say, it must be known how far an
  approval may rest on it.
* **The page.** It is a client with deadlines in front of a service that may
  stop, and whose reads may raise: its script must end, and what it shows must be
  what is stored.
* **The evaluation.** A gate of the continuous integration, which must not pass
  for lack of anything to measure.

`PROJECT.json`, "hazards", has the full list with the line of each.

## 2. The modules

    Models <- Rules <- Guardrails <- Validator <- Router <- Pipeline <- MCPipeline
                                                                     <- PipelineProofs
    Models <- Llm
    Pipeline, Llm <- LlmPipeline <- MCLlm      LlmPipeline ~~ refines ~~> Pipeline
    LlmPipeline, PipelineProofs, Counting <- LlmProofs
    Ingest <- MCIngest, IngestProofs           Ingest ~~ refines ~~> JobLifecycle
    Ingest <- Frontend <- MCFrontend
    Frontend, IngestProofs <- FrontendProofs
    RateLimiter <- MCRateLimiter, RateLimiterProofs
    Models <- Evaluation <- MCEvaluation
    Evaluation, Counting <- EvaluationProofs

* **Models, Rules, Guardrails, Validator, Router** hold the pure functions as
  operators. Amounts are integers (cents), confidences hundredths or `NaN`,
  dates day numbers. `LowConfidence` is the comparison with the threshold, below
  which a NaN never is. A regular expression is the set of strings it matches,
  and a document is what the scanners can tell about it: is there text, which
  injection and personal-data labels match, which values occur in it.
* **Pipeline** is one run of `run_pipeline`. Its variables are the keys of
  `AgentState`, plus `node` (where the graph is), `steps` (what LangGraph counts
  against its recursion limit), `result` and the histories `extract_calls` and
  `sufficient` (was any extraction confident enough?). Each
  node is one action together with the edge taken after it. The LLM returns any
  payload of its set with any confidence, fails with an `LLMError` (the `_fails`
  actions), or makes the node raise (`llm_node_raises`).
* **Llm** is `llm.py` as operators: which client and which models the settings
  name, how the text of an answer becomes an object (`safe_json_loads`), and how
  an object becomes a classification or a set of fields. An object is a function
  from its keys to null, a valid value, or `Malformed`; a text is a sequence of
  objects, prose and stray braces. A confidence may also be `NaN`, which
  `json.loads` and `float()` both let through.
* **LlmPipeline** is Pipeline with the model opened up: the actions of the two
  LLM nodes are replaced by the calls of a client. `call` is the open call of
  `_generate_json` and the answers it has had, `calls`, `heard` and `failure` are
  histories. Everything else is Pipeline's, and `ImplementsPipeline` says that
  what Pipeline leaves to chance covers all that a client can do.
* **JobLifecycle** says what a job is to the outside: unknown, queued, running,
  finished, with the answer of `/results` moving along.
* **Ingest** is the service: `upload` ... `submit` are the statements of the
  handler between which other threads run; `pick`, `set_status`, `run_pipeline`,
  `save_result` are the steps of a pool thread; `poll` and `poll_result` the two
  reads of a status or results request, `poll_raises` and `poll_result_raises`
  the same reads when they raise and the answer is a 500; `worker_shutdown`,
  `store_close`, `process_exit`, `crash` and `restart` the life of the process.
  The pipeline is its outcome, completed or failed. What is stored may also be
  `unreadable`: a NaN or infinite confidence is written as a null, which
  `get_result` cannot validate. Here `file`, `status` and `stored` survive a
  crash, the queue, the threads and the requests do not.
* **Frontend** puts pages in front of Ingest. `page[r]` is where the script of
  page r is; `press` starts it, `rerun` is Streamlit starting it anew because
  some widget was touched, and the rest are the statements of `upload_document`
  and `poll_result`, which treats a 500 in two ways: for /status its body is no
  JSON and the script stops, for /results it is one more answer that is not a
  200. A page reads in the slot `reader[r]` of Ingest; `wire` holds
  the uploads that are on their way. A server that stops takes its connections
  along.
* **Evaluation** is `eval/`: a dataset file that may be edited, the local runner
  with its scores and its gate, and the LangSmith experiment over a copy that is
  uploaded once. Its loops, like the one that builds the chain of models in Llm,
  are recursive functions of the number of turns done.
* **RateLimiter** is `check` in two steps, the clock reading and the locked
  part, for any number of callers.

Mutated forms of the actions and operators (named after what they break, and
commented "Mutant of") stand before the definitions they mutate. They take part
in no specification; replacing the definition by the mutant makes TLC report the
property that `PROJECT.json`, "mutants", names, which shows that the property
depends on that line of the code.

## 3. The runs

| Run | What it shows | Instance and bounds |
|---|---|---|
| `pipeline` | 12 properties of a run, below | 4 documents (plain, with an injection, with personal data, without text), 29 payloads of which each fails one check or sits on its boundary, confidences below, at and above the threshold and NaN, 2 retries, 10 steps; 74 356 states |
| `ingest` | 8 properties of the service, below | 3 uploads, 2 threads, 1 polling request at a time, at most 1 shutdown, 1 crash and 1 error; 867 233 states |
| `ingest_live` | `FinishesUnlessStruck` of the service and 4 properties of a page, below, with fairness | 2 uploads, 2 threads, 1 page, at most 1 shutdown, 1 crash and 1 error; 305 129 states |
| `llm` | 7 properties of the clients, below | 3 settings (Gemini with a primary and 3 fallbacks of which one is blank and one a repetition; without the SDK; without a key), 4 errors, 8 answers to classify, 10 and 3 to extract, 5 documents, 2 retries, 8 steps; 79 354 states |
| `evaluation` | `GateIsEarned`, `FullMarksPassTheGate` | datasets of at most 3 lines out of 8, 1 edit, 3 outcomes or an exception per example; 764 640 states |
| `ratelimit` | 6 properties of the limiter, below | 4 clients, 1 bucket before pruning, 2 per minute, 3 per day, two days of two minutes of two ticks; 129 591 states |
| `pipeline_totals`, `pipeline_budget`, `pipeline_retries`, `llm_nan`, `ingest_stuck`, `ratelimit_threads` | statements of the documentation that the code does not satisfy (section 5) | as above; `ratelimit_threads` has 2 callers |

Why the bounds are enough. In `pipeline`, two retries give a first pass, a retry
and an exhausted budget; ten steps leave room for the budget (at most
3 + 2 * 2 = 7 steps without failures) and let failing extractions reach the
limit. LangGraph's limit is 25 by default; the proofs hold for every limit. In
`ingest`, three jobs and two threads let a job wait while two run and another is
uploaded, and each kind of interruption can hit each of them. In `ratelimit`, the
daily cap can be reached within one minute or over two, the map overflows with
the second client, and both windows change. In `llm`, the two distinct
models of the chain give a first refusal, a second and an exhausted chain, and
the texts cover each kind of value for each kind of field: valid, null, absent,
malformed, set under an alias only, and malformed under one alias and valid
under the other. In `ingest_live`, two jobs are one for the page and one that was
given up, for two threads. In `evaluation`, the thresholds (66, 50 and 70 per
cent) lie between and on the ratios of three examples, and every denominator can
be zero.

The bounds by name: `MaxShutdowns`, `MaxCrashes`, `MaxFaults` (Ingest),
`LastTick` (RateLimiter), `MaxLines`, `Edits` (Evaluation). `MaxRetries` and
`RecursionLimit` are the system's own. Deadlock is checked except in
`ingest_live` and `ingest_stuck`: there the finitely many uploads all end, and a
page at rest, or no reader at all, leaves nothing to do.

**Pipeline properties.** `ApprovalIsSound` states the business rules directly on
the fields and asks that an approval implies them, through retries and failures.
`InjectionAlwaysRejected`, `IssuesMatchFields`, `PiiNeverRoutes` tie the
decision to what earlier nodes found (on the last one the texts disagree,
section 5). `RetryBudget`, `OnlyFailuresExhaustSteps` and `Termination` are
about the loop. `WeakApprovalIsLastResort` says when an extraction of low
confidence is approved, which the router allows: only after exactly the budget
of attempts, none of which was better. `ResultReflectsRun` is about the outcome,
and `FindingsNeverLost` and `ErrorSticks` about what no step may do.

**Service properties.** `ResultIffTerminal` and `StatusAnswerWhole`: no half
outcome, at rest or across the two reads of a status request. `OnePlace`: a job
is in the queue once or in one thread. `WorkIsBacked`: what a thread works on has
its row and its file. `UnfinishedIsHeld`: no interleaving alone loses a job.
`AnswersMatchKnowledge`: answers never contradict earlier ones, across restarts.
`ImplementsLifecycle`: the rows and answers refine `JobLifecycle!Spec`.

**Page properties** (Frontend). `ShownIsStored`: an outcome on a page is the
stored one of the job that page uploaded. `OnlyErrorsCostTheResult`:
`poll_result` reads the status out of any body, and takes the status record for
the result on any answer but a 200. The first never fails. The second happens
when an error of the database turns the answer of `/results` into a 500, and for
no other reason: the job then has its result, and has it readable.
`PageSettles`: a script ends, whatever becomes of the job, by its deadline and
the timeouts. `PageTypeOK` includes that only an accepted job is polled for.

**Client properties** (LlmPipeline). `FailureIsDeserved`: an `LLMError` means
that the file could not be read, that an error other than 429 and 503 came, or
that every model named in the settings refused with one of these two.
`SalvageKeepsGoodFields` describes the fields at any time from the last answer
alone: whatever it gives validly is kept, whatever it does not comes from the
alias or the default. `ApprovalRestsOnAnswers` lists what stands behind an
approval: the type and each required field come from the model; so does the
confidence of the type, unless the threshold is 0; and the extraction had a
sufficient confidence from the model, or none at all and a threshold that the
default of 0.7 reaches, or was the last attempt of the budget. `Vouched` counts
a NaN as sufficient, as the code does. `OnlyConfidenceRaises`: among the values
of an object that was parsed, the confidence is the one whose form can end a
run. `ServiceCallBudget`: attempts times models bounds the requests, as long as
no call fails (a failed extraction is not counted as an attempt, section 5).
`ImplementsPipeline`: the steps of LlmPipeline are steps of Pipeline.

**Evaluation properties.** `GateIsEarned` compares the exit code, reached by
accumulating a report pair by pair, with counts over the whole dataset, zero
denominators included. `FullMarksPassTheGate` relates the two scorings of the
same outcomes.

**Limiter properties.** `DailyCap` and `MinuteCap` compare the caps with a
history of what was let through per window of the clock; `CountersAreExact` says
that refusals consume nothing; `BucketsBounded` bounds the map; and
`RetryAfterHonest` says that after the wait the refusing cap no longer refuses.

## 4. Fairness

* `Pipeline`: weak fairness of the run's steps. A thread of the pool runs the
  graph until it returns or raises.
* `Ingest`: weak fairness of a handler that has started, of each thread of the
  pool, and of completing a shutdown and starting again. The event loop and the
  operating system schedule runnable work, the interpreter joins the pool before
  it exits, and the operator runs the service. Clients, crashes and errors have
  no fairness. A model call is assumed to return or to raise in the end: the code
  sets no timeout on it, and a call that hangs would hold its thread for good.
* `Frontend`: the service as in Ingest; the steps of a running script, since each
  request it makes is answered or runs into its timeout; and the passing of the
  deadline. The visitor, who presses buttons and touches widgets, has none, and
  neither do uploads in flight.
* `LlmPipeline`: weak fairness of the run's steps, as in Pipeline; no property of
  the run `llm` needs it.
* `RateLimiter` and `Evaluation` have safety properties only.

## 5. Where the code and its documentation disagree

1. **Large totals** (`pipeline_totals`). The cap is compared with
   `total_amount`; reconciliation uses `grand_total`. With both set, an invoice
   above the cap is approved, against `config/rules.yaml:13`.
2. **The budget does not end the loop** (`pipeline_budget`). A failed extraction
   leaves the counter alone, so weak answer, failure, failure, ... runs into the
   recursion limit, against `architecture.md:74-76`. `OnlyFailuresExhaustSteps`
   is what does hold.
3. **Retries are attempts** (`pipeline_retries`). `SMARTINGEST_MAX_RETRIES=2`
   gives one retry, against `.env.example:35`.
4. **A NaN approves** (`llm_nan`). A model that answers `NaN` (or `"nan"`) for its
   confidence has a document approved, although the NaN reaches no threshold:
   `router.py:35-38` names a borderline confidence among what is flagged and
   leaves only the rest to be approved. `ApprovalIsSound` claims no more than that
   the confidence is not below the threshold.
5. **Jobs left behind by a shutdown** (`ingest_stuck`). An orderly shutdown
   closes the store under the pool, and the rows are never looked at again,
   against `architecture.md:86-87`. `FinishesUnlessStruck` is what does hold.
6. **The limiter under threads** (`ratelimit_threads`). With several callers the
   day window can move backwards and lose its count, against `ratelimit.py:37`.
   The service has one caller, the event loop, and there `DailyCap` holds.

Not turned into a run:

* **Personal data.** The docstring of `route_decision` (`router.py:35`) lists
  "Security warnings (PII/grounding)" among what is flagged for review. The code
  leaves personal data out, and the comment beside it (`router.py:45-46`) and
  `architecture.md`, section 9, say that it is meant to. `PiiNeverRoutes` is what
  the code and these two say; against the docstring it is a disagreement.
* **A missing rules file.** `rules.py:67-69` promises that without the file
  everything simply gets flagged for review. With the empty rule set nothing is
  required, capped or matched, and clean documents are approved.
* **Results that cannot be read back.** If a confidence of a result is NaN or
  infinite (the run of item 4 makes such a result), it is stored as a null, and
  `get_result` raises on it: the job is finished, and `/status` and `/results`
  answer 500 for ever, where the docstrings of `api.py` know the status, the
  result, 404 and 409. The page then reports that its status check failed.

Smaller ones: `config/rules.yaml:11-12` offers a `min_confidence` that
no code reads, and `AgentState`'s comment says that the validator bumps
`retries`, which the extractor does. The caption at `streamlit_app.py:137` offers
a toggle to show raw values of a result, and the toggle, like any widget, reruns
the script without the button pressed, so that the result disappears (`rerun` in
Frontend shows `none` afterwards). A dataset whose line is JSON but no object, or
whose `expected_fields` is null, ends the runner with an exception, although
`load_dataset` means to skip malformed lines: the gate still does not pass
(`Unloadable`, `Unscorable`). LangSmith keeps an empty dataset when the second
request of the first upload fails, and the old one after the file is edited.

## 6. Proofs

### The pipeline: `PipelineProofs`

It proves every safety property of `Pipeline` that the run `pipeline` checks,
for all documents, payloads, confidences, rule sets, budgets and recursion
limits. The assumptions are the types of the constants: integers or `NaN` for
confidences, integers for amounts (or `None`), lists for the parties, naturals
for the limits, `None` not an integer, `NaN` neither.

* `TypeCorrect` goes step by step; the fields are always `sync_aliases` of one
  payload, or the initial ones.
* **The loop.** `RetryBudget` alone is not inductive: the counter may grow only
  because the validator sent the run back with budget left. `LoopInv` adds, for
  each node, how `steps`, `extract_calls` and `retries` are related (two steps
  for each extraction, fewer retries than the budget whenever the extractor is
  next). `RetryBudgetHolds` and `OnlyFailuresExhaustStepsHolds` follow.
* **The last resort.** `WeakApprovalIsLastResort` relates an approval to every
  attempt before it. `ResortInv` adds that without an error each call was
  counted, and that a sufficient confidence, once there, is the present one: the
  loop is left at the first. With `LoopInv` at the router it gives
  `WeakApprovalIsLastResortHolds`.
* **The decision.** What the router decides on was established earlier by
  different nodes. `DataInv` carries it: after the scan an injection has its
  finding, at the router the issues and the grounding findings are those of the
  present fields, and after the router the decision is still the one that this
  state yields. With lemmas on the order of the router's cases (`ApprovalMeans`,
  `InjectionMeansReject`, `ErrorMeansReject`) it gives
  `InjectionAlwaysRejectedHolds`, `IssuesMatchFieldsHolds`,
  `PiiNeverRoutesHolds`, and, with one lemma per document type on what the
  absence of issues means, `ApprovalIsSoundHolds`.
* **The outcome.** `OutcomeInv` carries the rejection of a failed run to the
  result. `FindingsNeverLostHolds` and `ErrorSticksHolds` are the two action
  properties.

`RunInv` is the conjunction of these invariants. `RunInductive` says of `Init`
and `Next` alone that it is inductive, and `RunMeans` that it implies the
properties: neither mentions `Spec` or its fairness, so that another
specification whose steps are steps of `Pipeline` may use both, as the clients do
below.

### The service: `IngestProofs`

For any number of uploads, threads, polling requests, shutdowns, crashes and
errors; the one assumption that matters is that `NoJob` is no job.

* **Types.** `TypeOK` is not inductive: what `save_result` writes is the outcome
  that its thread holds, and to the row of the job it holds. `Shapes` says which
  fields of a thread or a reader are set where (`ShapesCorrect`, `TypeCorrect`).
* **Rows, queue, threads.** `OnePlace`, `WorkIsBacked`, `UnfinishedIsHeld` and
  `ResultIffTerminal` each fail to be inductive for the same reason: whether a
  step is harmless depends on where the other actors are with the same job.
  `HandlerInv` ties each operation of the upload handler to what its job has (no
  row and no place before `create`, a queued row but no place until `submit`),
  `PoolInv` ties the place of a thread to the status of its row. With these two
  the conjunction, `CoreInv`, is inductive (`CoreCorrect`): one lemma for the
  upload, one for the pool, one for a crash, one for everything else.
* **The life cycle.** `RowsMove`, from `CoreInv`: every step moves one row one
  step of `JobLifecycle`, or none. `ImplementsLifecycleHolds` follows under the
  refinement mapping of `Lifecycle`.
* **The answers.** A request reads twice with the lock released in between.
  `AnswerInv` says that what it holds agrees with the row now, and that a job
  which was reported finished has a row that is; it is inductive because a
  finished row is never written again (`FinishedStays`). A read that raises
  answers nothing and leaves what was told alone (`RaisedKeepsAnswers`). It gives
  `AnswersMatchKnowledgeHolds` and `StatusAnswerWholeHolds`.

### The page: `FrontendProofs`

A step of pages and service is a step of `Ingest`, or a page drops its request
(`StepsOfService`), so the invariants above hold under any number of pages.
`Fits` says what a page may rely on where its script is: beyond the upload its
job was accepted, beyond the polling the job was reported finished, the
request it waits for is about that job and was sent with that knowledge, and a
page that shows a status record has met an error of the database. None of this is
ever taken back (`Grows`). `PagesCorrect` is the invariant; `PageTypeCorrect`,
`ShownIsStoredHolds` and `OnlyErrorsCostTheResultHolds` follow. The last one needs
that a 500 of `/results` for a job that was reported finished can only be an
error: what was told is readable (`AnswerInv`).

### The limiter: `RateLimiterProofs`

For every cap, retention limit, length of the windows and number of clients, and
with `OneCaller`: one caller at a time between its reading of the clock and the
lock. That is the service, where the event loop calls `check`; with two callers
the run `ratelimit_threads` refutes the daily cap. The caps are not inductive,
since they rest on the counters being exact, and the counters are exact only if
no window is opened twice. `CapInv` therefore adds that all that was counted
lies behind the clock and behind the reading of the caller in `check`
(`Behind`), pruned clients included. `RetryAfterHonestHolds` uses it once more:
after the wait the time is in the next window (`NextWindow`), which nothing has
been counted in.

`BucketsBoundedHolds` bounds the map without a word on how many clients there
are. The bound is not inductive, since pruning leaves all the buckets of the
present minute. `BucketInv` adds where these come from: a minute has no more
buckets than its day has let requests through (`MinuteWithinDay`). After a
pruning that does not suffice every bucket is one of this minute, and `DailyCap`
bounds them.

### The clients: `LlmProofs`

For all settings, error codes and texts. Most of it is under `ClientsCovered`:
the constants of `Pipeline` include what the clients can produce. `MCLlm`
assumes the same of its instance, so TLC evaluates it there, and the hypothesis
is one that instances satisfy. `SettingsAssumption` says that the fallbacks of a
settings are a list, of any length.

* **The refinement.** `ImplementsPipelineHolds`: every step with a client is a
  step of `Pipeline` (`StepOfPipeline`). With `RunInductive` it gives
  `ClientsKeepPipelineSafe`: all the safety properties of `Pipeline` hold with
  either client of `llm.py` in place of a model left to chance.
* **The fields.** `FieldsAreSalvaged` shows what `fields_from_payload` computes
  for every object, its second validation included: the valid fields with the
  aliases synced; with it `SalvageKeepsGoodFieldsHolds` says so of every state of
  a run, and `OnlyConfidenceRaisesHolds` that nothing else raises.
* **The chain.** `ChainOfNames`, by induction over the loop of
  `gemini_model_chain`: for any number of fallbacks, blank and repeated ones
  included, the chain holds each configured name once. So a call that was
  refused `Len(chain)` times has asked every model, and none twice.
* **The calls.** `ClientInv` says that a call is open in an LLM node only, by a
  client that can make it, and that its answers so far are refusals, no more of
  them than models. `FailureIsDeservedHolds` and `LlmTypeOKHolds` follow.
* **The budget.** `ServiceCallBudget` is not inductive: the bound is reached only
  if every call asks the whole chain every time. `SpentInv` counts requests
  against the calls that have come to an end (`Answered`) and the refusals of the
  open one, as long as no call has failed. `ServiceCallBudgetHolds` then needs
  `RetryBudget`.
* **The answers behind an approval.** `NamedInv` says that a type other than
  `unknown` is the one in the last answer to `classify`, with that answer's
  confidence, and `AnswersInv` that the fields and the confidence of the
  extraction are those of the last answer to `extract`. An approval requires
  such a type, a confidence that is not low and the required fields
  (`ApprovalFollows` of `PipelineProofs`). A confidence that is not low was the
  model's own or a default that is not low either (`VouchedFor`), and a low one
  was the last resort (`WeakApprovalIsLastResort`): hence
  `ApprovalRestsOnAnswersHolds`.

### The evaluation: `EvaluationProofs`

For every dataset, outcome and threshold from 1 to 100 per cent.

* `LoadFacts` and `EvaluateFacts` say what the two loops compute:
  `load_dataset` gives one object for each line it does not skip, and each
  counter of the report that `evaluate_all` accumulates is the cardinality of the
  set it is meant to count. The matches and misses of one example are a set of
  fields; those of the dataset are pairs of an example and a field (`RowAdds`).
* `GateDecides` turns the divisions and comparisons of the gate into integer
  inequalities between these cardinalities, zero denominators included
  (`ShareIsEnough`, `F1IsEnough`).
* `EvalInv` is the inductive invariant: the runner's examples are those of the
  present file, it is never ahead of them, and a verdict is the gate's on all of
  them. `GateIsEarnedHolds` and `FullMarksPassTheGateHolds` follow.

Assumptions, all in `Evaluation` and evaluated by TLC: an example labels finitely
many fields, since it is a JSON object (`LinesAssumption`); a run that returns
has a route, since every path of the graph to `END` leads through the router,
while a run that raises has no outcome (`OutcomesAssumption`); the value for an
absent label is no Boolean (`NoLabelAssumption`).

### Loops and counts: `Counting`

The induction theorems of the library take a predicate as a parameter, which the
provers cannot instantiate. `UpTo` says the same of a set: one that holds 0 and,
with each index of a loop, the next, holds them all. It comes from the library's
fact that a non-empty set of naturals has a least element (`WFMin`), whose
parameters are sets. `LoopExists` builds the sequence of states of a loop, which
is what makes a recursive function, in TLA+ a `CHOOSE`, equal to its definition.
`CountNext`, `RowAdds` and `DistinctLength` are about cardinalities that change
by one, by a row, and about lists without repetitions.

### What is only model-checked

Liveness, since fairness is out of the prover's reach: `Termination`,
`FinishesUnlessStruck`, `PageSettles`. Every other property of a passing run is
stated by a theorem. The six runs that expect a violation show a counterexample,
which is all that there is to show.

## 7. What is not modelled, and the plan

Left out: text processing (regular expressions, `redact_pii`, `mask_value`, what
the patterns of `MockLLMClient` find), the layout of the page and the masking of
what it displays, the reading of the environment, the report that the evaluation
prints, logging and tracing, timestamps, `cli.py` (one run, printed), demo
scripts. `PROJECT.json` gives the reason per component. A document's file is
assumed readable, or unreadable, for the whole of a run.

Outside the value domains: amounts are finite (a NaN or infinite amount, which
pydantic accepts as a float, is in no payload), and so are confidences apart
from the NaN; an infinite one compares like a very large or small number and is
covered as such. An answer on which `json.loads` raises something else than a
`JSONDecodeError` (nesting beyond the recursion limit, integers of thousands of
digits) ends a run like the other exceptions of the LLM nodes in `Pipeline`, and
is in no text of `LlmPipeline`. The caps of the limiter are per process: a
restart forgets the counts, and a clock that is set back is outside
`RateLimiter`.

What is left, in order:

1. A page and an upload over the limiter in one module, so that a refusal comes
   from `check` and not from a choice of `upload`.
2. That the pipeline's outcome in `Ingest` is the `result` of a run of
   `Pipeline`, with the properties that follow for stored results.
3. The safety part of the three liveness properties as theorems: that a step not
   taken leaves the run, the job or the page where its fair step stays possible.
