# A TLA+ model of the DGX SQL tuning pipeline

The repository automates Oracle SQL tuning on a local machine: a *writer*
language model rewrites each collected statement, *critic* models review the
rewrite, Oracle parses, explains and executes both versions, and only a rewrite
that passes the gates the operator asked for is copied into a success directory.
This directory holds TLA+ modules for the parts of that program whose
correctness depends on the order of steps, the TLC configurations that check
them, and TLAPS proofs about all of them.

Run things from this directory: `tlc -config Pipeline.cfg MCPipeline`,
`tlapm PipelineProofs.tla`. `PROJECT.json` names every run, the source lines of
every definition, the hazards and the theorems.

## 1. Inventory of the system

| Part (source) | State it keeps | Operations | Hard behaviour |
|---|---|---|---|
| Pipeline loop (`AutorunEnum_Final/main.py`, `Autorun.py`) | current state, retry counter, critic-retune counter | `run_pipeline` | two nested retry loops sharing handlers; an exception anywhere ends the run |
| Handlers (`PipelineManager.py`, `QueryJob.py`, `EnumAuto.py`) | per statement: status, candidate file, critiques, validation, benchmark dictionary, feedback file, error | collect, metadata, rag, analyse, tune, critique, validate, benchmark, verify, retry, notify, move | verdicts of earlier candidates survive into later rounds; statements pass in different rounds; a writer can fail, be cut short or break the contract |
| Oracle validation and benchmark (`PipelineManager.py` 2243-2661, 2879-2985) | a database session, the read-only transaction | policy check, parse, explain, snapshot, compare, time | other sessions commit between the two executions; row limits; failures at each stage |
| DB context selection (`PipelineManager.py` 1419-1625) | catalogue and per-query context files | load, validate against the contract, select the relevant objects transitively | closure over cyclic dependencies, budget limits |
| Model endpoints (`PipelineManager.py` 2725-2830, `Llamacpp/modelctl.sh`) | which of three large models is loaded | readiness probe, stop/start, wait for the operator | one model at a time; readiness goes stale before the call; commands that fail half-way |
| Workspace and archive (`PipelineManager.py` 40-246, 3135-3255) | lock file, run directories, archive, `status.json`, `summary.json` | lock, archive the previous run, atomic writes | crash between moves; readers see files of different moments |
| Review UI server (`ReviewUI/server.py`) | none (reads the workspace) | list runs, status, job details | reads several files of a run that is still writing |
| Review UI client (`ReviewUI/static/app.js`) | selected run and job, caches, timers | refresh, select, load | answers of overlapping requests arrive in any order |
| Offline proxy (`Llamacpp/offline_proxy.sh`, `.py`) | PID files, child processes | start, stop, forward | stale PID files, readiness polling |
| Launchers (`run_files.sh`, `run_oracle.sh`, `_run_oracle_pipeline.sh`, `oracle_preflight.py`, `_python_runtime.sh`) | environment variables | defaults, preflight, fallback to model-only mode | flags parsed by shell and again by Python |
| Outline pass (`OutlinePass/`) | input directory, output files | one model call per file | independent of the pipeline |
| Model images (`Llamacpp/*/scripts`, compose files, docker) | images, model files | build, download, start | provisioning; no interaction with the loop beyond the HTTP endpoint |
| Contracts and prompts (`contracts/`, `txt/`, `db_context/`) | JSON schemas, prompt texts | none | data, not behaviour |

What makes each part correct: the *pipeline* never accepts a text that did not
pass every required gate in exactly that form, never changes a statement that
already passed, gives every statement all its retries, and ends; *validation*
passes only statements that return the same rows at one moment of the database;
the *endpoint* logic calls the model it made ready and never leaves two large
models loaded; the *workspace* never mixes two runs; the *UI* shows what the run
wrote for the selection the user made.

## 2. Modules and the code they stand for

| Module | Code | State | Actions |
|---|---|---|---|
| `Pipeline` | `main.py`, handlers of `PipelineManager.py`, `QueryJob.py` | settings derived from the options, state of `run_pipeline`, its counters, and per job status, candidate, critiques, benchmark dictionary, feedback file, published files | one action per handler, or, for handlers that loop over the jobs, `Begin…`, one action per job (and critic), `End…`; `Raise` is an exception at any of these points |
| `PipelineInv` | – | – | the inductive invariants `IInv` and `LedgerInv` |
| `GatedRelease` | the promise of the README's gate list | per job a candidate, the text each gate last passed, the released text | propose, judge, release |
| `PipelineRefinement` | – | – | maps the variables of `Pipeline` to those of `GatedRelease` |
| `OracleValidation` | `_validate_sql_pair_with_oracle` and its helpers | connection, checks, database contents over commits, snapshot, samples, verdict | connect, session, one check per statement, snapshot, execute, one fetch per batch, compare, rollback, a failure of each, and `OtherCommit` of another session |
| `Benchmark` | `_run_select_benchmark`, `_time_select_pair` | the pair's guards, the transaction's view of the database, samples per statement, position in the round | guard, connect, session, snapshot, binds, execute, next round, rollback, decide, a failure of each, and `OtherCommit` |
| `ModelCall` | `_tune_with_llm`, `_call_critic_model`, the call of `run_outline.py`, `_load_db_context`, `_select_relevant_db_objects`, contract check and JSON extraction | worklist and selection, granted tokens, attempt, reply, decision | load, select one object, budget, send, answer, retry, give up, decide |
| `ModelEndpoint` | `_ensure_model_endpoint`, the request loops, the lock, `run_files.sh`, `_run_oracle_pipeline.sh`, `modelctl.sh`, `offline_proxy.sh`, two `start.sh` | containers, the proxy process and its PID file, the lock, stage and script position of each run | launch, each command of the scripts with its failures, the launch timeout, probe, call, stop; `Load` and `Crash` of a container; `OrphanStop`, `OrphanDown`, `OrphanUp` and `OrphanListens` of the commands a killed start script leaves behind |
| `StreamProxy` | `offline_proxy.py` | one connection: state of the two ends, bytes per direction in each buffer, the two copying threads | connect, receive a chunk, send a byte of it, fail, shut down, join and close, be killed; writes, reads, ends and resets of both ends |
| `Launcher` | `run_files.sh`, `_run_oracle_pipeline.sh`, `oracle_preflight.py`, `PipelineManager.__init__` | environment, `.env` files, where the connection is defined, what was checked, the settings of the run | start, driver found or missing, preflight passes or fails, fallback or refusal, launch |
| `Workspace` | `__init__`'s lock, `_prepare_run_workspace`, artifacts, `_write_status`, `_write_summary` | lock, whose files lie in each directory of the workspace and of each archive, stage of each process | lock, prepare, one move per item, collect, work, checkpoint, publish, summarise, finish; `Die` at any of these points |
| `ResultSets` | the promise of `AutorunEnum_Final/README.md:295` | per run and piece: absent, active, archived | produce, retire |
| `ReviewClient` | `static/app.js`, `server.py`, the writing order of the pipeline | versions of status and artifacts of two runs, the page's state and what is on the screen, requests in flight | the pipeline's writes and moves, each server read, a request that fails (`Throws`) or whose answer breaks off (`Unreadable`), each continuation after a fetch, clicks, timer |

The `MC…` modules give the sets the configurations use. Names of actions and
variables are those of the code; `PROJECT.json` has the lines. A definition
whose name ends in `_Fault` is a plausible bug in the definition that follows it;
no specification uses it, and it is there to test that a property
would notice.

How the parts fit: `Launcher` gives the settings `Pipeline` starts from, and the
database `OracleValidation` and `Benchmark` connect to. `Pipeline` takes a
writer's answer as one of *rewrite*, *unusable* or *failed* and a critic's as
yes or no; `ModelCall` shows which replies give which. `Pipeline` takes
Oracle's verdict as pass or fail and the benchmark's as improved or not;
`OracleValidation` and `Benchmark` show what those verdicts are worth.
`ModelEndpoint` makes sure a call reaches the model it is meant for,
`StreamProxy` that what comes back is not cut short unnoticed; `Workspace` keeps
the files of successive runs apart, and `ReviewClient` is what is seen of it all.

Abstractions that matter: a candidate is the round that wrote it (so "the same
text" is "the same number"); a reply is the JSON objects in it; a statement's
words are the ones the policy looks for, with the place they stand in (code,
literal, quoted name or comment); a result is a bag or sequence of rows; a file
is its version, or the runs whose writing is in it; bytes in a socket are
counted; a flag is one of six kinds of spelling. Wording, logging, prompts and
sampling parameters are left out.

## 3. Runs

| Run | Instance | What it shows |
|---|---|---|
| `pipeline` | two jobs, up to two critics, two retries, one critic retune, seven configurations that differ in what is required | gates, feedback, freezing and accounting of jobs that pass in different rounds, of complete and aborted runs, the end of the run, the inductive invariant itself, the refinement of `GatedRelease` |
| `validation` | pairs of statements with results of 0, 2 and 3 rows and beyond, limit and batch of 2, a policy word in every place, one commit of another session anywhere | a pass means equal complete results in one snapshot (in order only if both statements are ordered, as the code compares), a rejection has its reason there; nothing runs unchecked |
| `benchmark` | three repetitions, times with zero and a far outlier, one commit of another session, a failure at every step | fair rounds, one snapshot, what the decision depends on |
| `model_call` | three catalogue entries (two of one name) with every choice of four dependency lists, six table lists, three token limits, two attempts, replies of up to two objects, three roles | context closure, window, retries, decision |
| `endpoint` | two launchers on one workspace, two models, two calls per stage, one crash, one docker command that fails or one start script killed at any of its steps, whose commands go on at any later time | right model, one model, nothing loaded or listening afterwards, every run exits |
| `review` | a current and an archived run, two queries, two requests in flight, two clicks, one request that fails or whose answer breaks off | order of answers, selections kept by refreshes whatever clicks come between, catching up with the files |
| `workspace` | three processes, three directories and the two files, two archive names, a crash at every step | no run's files are mistaken, mixed, lost or revived; the refinement of `ResultSets` |
| `proxy` | three bytes each way, buffers of two, ends that close, half-close or are reset at any step | nothing is cut short behind an orderly end; no direction is closed on the other; every end is passed on |
| `launch` | both launchers, every spelling of the three flags in the environment, unset or on in `.env`, every choice of places that define the connection | what was checked is what is used; no validation unchecked; the fallback is model-only |
| `pipeline_label`, `validation_hint`, `launch_oracle` | small | each one sentence of the documentation that the code contradicts |

Why the bounds are enough for what they are used for. In `Pipeline` a verdict
can only be stale across a round, so two rounds make every mixture of old and
new verdicts, and two retries with one retune the mixtures of the two kinds of
retry; two jobs are needed for one to be frozen
while the other goes on; for more jobs, critics, rounds and every other
configuration there are the proofs.
In `OracleValidation` the row limit equals the batch size, so that one row more
than the limit is also one batch more. In `ModelCall` the largest selection
leaves less than the minimal answer, the next smaller one exactly that. In
`ModelEndpoint` one crash and one fault can hit any step; a second model is
enough to be the wrong one. What takes two faults, a `docker compose down` that fails and a
proxy start left behind by a killed script, is in the theorems' exceptions and beyond the
run's bound. At the start the port is free or belongs to the proxy the PID file names,
whichever model it serves, and the file may name nobody; a proxy that no file names
comes from commands left behind, which the model has, or from outside the scripts. In `ReviewClient` two requests are the least that
overtake each other, and the second click is the one that makes the first one's
answer stale; a version of 1 after 0 is a rewrite, 0 after 1 an archived
run. In `Workspace` the first process leaves something behind, the second
may die while it archives that, and the third finds both; every directory but
the first and the last is handled alike. In `StreamProxy` a chunk of two
bytes can be sent in part, and the third byte comes after a chunk; every buffer
can be full. `Launcher` is exhaustive but for the spellings in `.env`, where
`on` is the only one that is not a default. Bounds that the code
does not have are constants called `Max…`.

Type invariants are not among the runs' properties where they are proved
(section 4); in `ModelCall` and `ReviewClient` they are part of `ContextComplete` and
`OneRefresh`.

Fairness. `Pipeline`: one thread whose calls all have timeouts, so its
next step is eventually taken (`WF_vars(Step)`); exceptions are never forced.
`ModelCall`: every request is answered or fails; the timeout of `urllib` is one of each
socket operation, so an end that sends a byte now and then for ever is assumed away.
`ModelEndpoint`: each run takes its next step or its timeout, and the docker commands of
the EXIT trap, which has none, end; containers are
under no obligation to load, commands left behind under none to go on.
`StreamProxy`: connecting has a timeout and the two threads run; an end reads what has arrived for it, which is the one thing assumed of
the ends, because the proxy's sockets have no timeout. `ReviewClient`: requests are
answered or fail, the timer ticks; nobody has to click and the pipeline may stop.
That requests are answered is the one
assumption the code does not enforce: `fetch` has no timeout of its own.
`OracleValidation`, `Benchmark`, `Workspace` and `Launcher` state safety only.

`CHECK_DEADLOCK` is never switched off: the modules say where a run may stop.

### Disagreements between code and documents

Each of the first three is a run that TLC ends with the counterexample.

* `pipeline_label`: a run is reported `ORACLE_VALIDATED_UNBENCHMARKED` although
  validation failed, when it was switched on but not required, the default of
  `run_files.sh`.
* `validation_hint`: hints are stripped with the comments before the static policy
  looks for `MATERIALIZE` and `RESULT_CACHE`.
* `launch_oracle`: `run_oracle.sh` always validates, says `README.md:261`; the script
  makes validation *required* but leaves `ORACLE_VALIDATE` to the environment
  (`_run_oracle_pipeline.sh:62`, `:205`), and with `0` there and no benchmark nothing is
  validated.

Others that the models show but no run is spent on:

* A reply that was cut short falls back on an earlier text without an error
  (`PipelineManager.py:1826`); `README.md:148` has such a statement fail.
  `Pipeline` has it as *unusable*, `ModelCall` as `kept`.
* Without critics, an answer that breaks the contract in a later round throws the
  candidate away and goes back to the original (`:1668`), unlike what
  `JSON_OUTPUT_POLICY.txt:46` says; `FailedRewriteKeepsCandidate` names the case.
* `docker compose down` may fail and is ignored (`modelctl.sh:56`), and the launch timeout
  kills the script but not what it waits for
  (`PipelineManager.py:2776`): a second model can be loaded in spite of
  `CRITIC_WORKFLOW.txt:9`. `OneModelLoaded` says that nothing else leads there.
* What outlives the script may be `offline_proxy.sh start`: it goes on to stop the proxy
  it finds, start its own and write the PID file (`:54-72`), after the EXIT trap has
  stopped everything or while another run is at work. A proxy can then listen after
  the last run has exited, or lead to a model nobody wants any more; the variable
  `stray` remembers that this has happened since the port was last freed.
  `IdleAfterwards` and `AnsweredByWanted` except it, and nothing else; without the exception
  TLC finds the first violated with `MaxFaults = 1` and the second with
  `MaxFaults = 2`.
* The lock is per workspace and the machine is not: with
  `Workspace <- OwnWorkspaces` in `Endpoint.cfg`, two runs load two models.
* A result set is moved "intact" (`AutorunEnum_Final/README.md:295`) only if the
  process survives the moves; after a crash it is spread over two archives.
  `ArchivedWhole` says that this is the only way.
* A candidate that Oracle rejected is executed by the benchmark all the same when
  validation is not required; `Pipeline` has it so.
* `run_files.sh` exports its default `REQUIRE_ORACLE_VALIDATION=0` (`:25`), which
  hides a `1` in `.env`.
* A spelling of a flag may be known to one reader only: `y` makes `run_files.sh`
  complain and skip the preflight while Python validates; `True` is off for the
  Oracle launcher. `CheckedBeforeRun` and `FallbackIsModelOnly` except what was complained about.
* An answer of status 200 whose body breaks off is no error to the page:
  `response.json()` fails, `{}` takes its place (`app.js:79`), and `loadRuns` and
  `loadRun` see no runs or no jobs and clear the user's selection, though both
  are on disk. `SelectionKept` excepts such answers, and `ScreenFollows` says that the
  page recovers, with the first query of the first run selected.
* An exception while `move_success` or `move_failed` copies leaves files in the output
  directories and no summary (`PipelineManager.py:849`); `OutcomeAccounted` says
  what is true of them all the same.
* An end that was reset, or a proxy that was killed, looks like an
  orderly end to the other side (`offline_proxy.py:19`), and a client that gave up
  is told to the server as a half-close only. `OrderlyEndIsComplete`
  excepts resets, and speaks only of ends the proxy has passed on itself (`shut[d]`).

## 4. Proofs

Eight modules hold theorems; TLAPS checks them for every value of the constants:
any number of jobs, critics, retries, processes, models, rows, repetitions,
bytes and requests. Each proof module has an inductive invariant `IInv` (for `Pipeline` in
`PipelineInv`), the theorems `Invariance` (`Spec => []IInv`) and `TypeCorrect`
(`Spec => []TypeOK`), and those below. `EndpointProofs` is about two modules; the
invariant of `StreamProxy`, whose names begin with `Proxy` where they would be the
same as those of `ModelEndpoint`, is `ProxyInv` there.

| Module | Theorem | States | Assumes |
|---|---|---|---|
| `PipelineProofs` | `AcceptedSound` | `AcceptedPassedGates` | `PipelineAssumption`: at least one job (an empty collection raises), retry limits are naturals |
| | `RetriesSound`, `ReviewSound`, `FrozenSound` | `RetriesExhausted`, `ReviewedBeforeDatabase`, `PassedJobFrozen` | |
| | `OutcomeSound`, `AssessmentSound`, `FeedbackSound`, `KeptCandidateSound` | `OutcomeAccounted`, `AssessmentMatchesOutcome`, `FeedbackAboutCandidate`, `FailedRewriteKeepsCandidate` | |
| | `RunShortens` | `StepsShorten`: every step lowers a measure | |
| | `PromiseKept` | `ReleasesAsPromised`: the pipeline implements `GatedRelease` | |
| `OracleValidationProofs` | `VerdictIsSound`, `RejectionIsJustified`, `ExecutionSound` | `VerdictSound`, `RejectionJustified`, `OnlyCheckedSqlRuns` | `ValidationAssumption`: results are sequences of rows, a fetch asks for at least one |
| `BenchmarkProofs` | `FairSound`, `SnapshotSound`, `OutliersSound` | `RoundsFair`, `OneSnapshot`, `OutliersDoNotDecide` | `BenchmarkAssumption`: times are naturals, at least two repetitions, as the code enforces |
| `ModelCallProofs` | `ContextSound`, `FitsSound`, `DecisionSound`, `OneAnswerSound` | `ContextComplete`, `AnswerFits`, `DecisionEarned`, `OneAnswerCounts` | `CallAssumption`: a finite catalogue, lists are sequences, limits are naturals, at least one attempt, as the code enforces |
| | `CallShortens` | `StepsShorten`: every step lowers a measure | |
| `EndpointProofs` | `ServesSound` | `ProxyServesStarted` | `EndpointAssumption`: every run wants some model; finitely many models |
| | `UnloadedSound` | after the last exit nothing is loaded but a model whose last command went wrong: the half of `IdleAfterwards` that holds for any workspaces | |
| | `IdleSound`, `LoadedSound`, `AnswerSound` | `IdleAfterwards`, `OneModelLoaded`, `AnsweredByWanted` | the theorems add `OneWorkspace`: the runs share a workspace |
| | `RunsShorten` | `StepsShorten`: every step of a run lowers its measure, no other step raises it | |
| | `OrderlySound`, `ClosedSound` | `OrderlyEndIsComplete`, `ClosedOnNobody` of `StreamProxy` | `ProxyAssumption`: buffers hold something |
| `WorkspaceProofs` | `StaleSound`, `ArchiveSound` | `StaleNotMistaken`, `ArchivedWhole` | `WorkspaceAssumption`: the input and output directories are among those archived |
| | `KeptSound` | `KeptAsPromised`: the workspace implements `ResultSets` | |
| `ReviewClientProofs` | `RefreshSound`, `ScreenSound`, `SelectionSound` | `OneRefresh` (with the types), `ScreenAgrees`, `SelectionKept` | `ClientAssumption`: the two run ids differ, job names are naturals other than none |
| `LauncherProofs` | `DatabaseSound`, `CheckSound`, `FallbackSound` | `SameDatabase`, `CheckedBeforeRun`, `FallbackIsModelOnly` | `SpellingsAssumption`: flags are spelled in one of six ways |

**Pipeline.** `AcceptedPassedGates` is not inductive. The publication reads verdicts,
not texts, so one has to know that at that moment each verdict is *about the present
candidate*; that is established handler by handler and destroyed by the next
`tune_sql`. `IInv` therefore says which verdicts are fresh at which phase: those
of `CRITIQUE` for the calls already made (`CriticInv`), those of
`VALIDATE_ORACLE` and `BENCHMARK` for the jobs already taken off the queue
(`OracleInv`, `SpeedInv`), all of them at the decision, and for frozen
jobs always (`FrozenInv`), since the handlers skip those (`WorkInv`). `CountInv`
ties the number of writer rounds to the two retry counters; it is what makes
`RetriesExhausted` go through, including after an exception in mid-round.
`OutputInv` says that nothing is published before the decision. TLC checks the
invariant in `pipeline`. A second invariant, `LedgerInv`, says the same of
what is told to people and models: the assessment of a job
already benchmarked is the one its verdicts give (`ReportInv`), the feedback of
every job that goes into a round is about its candidate and an Oracle failure
always leaves feedback behind (`FeedbackInv`), a job without a candidate is
still before its first call (`CandidateInv`), and the output directories hold
exactly the jobs taken off the publishing queue (`OutcomeInv`). For `OutcomeAccounted`,
which also speaks of aborted runs, `FilesInv` adds what holds of the files at
every phase; only `Raise` leads to an abort, and it changes nothing
(`OnlyRaiseStops`).
The refinement proof maps each action to a proposal, a judgement,
a release or a stutter; the only hard steps are the releases, where `IInv`
gives that every required gate's verdict is about the candidate.

**Oracle validation.** `StageInv` says what has been checked at each stage and that
nothing was read before. `ReadInv` ties what was delivered to the snapshot: with
`SAME_SNAPSHOT_VALIDATION` both results are the rows of the version the transaction
sees, in their order where the statement has one, and a fetch loop ends only when
nothing is left or one row more than the limit was counted. `VerdictInv` carries
the comparison to the decision. The lemma `Delivered` says that a result without
`ORDER BY` comes in some order of the same bag, and `BagLength` that equal bags are
equally long: so matching samples mean equal results, and samples that do not
match a difference that is there.

**Benchmark.** `BalanceInv` keeps the difference between the rounds of the two
statements within one through the alternation, `WarmInv` says that a statement has been
executed before its first recorded time, `SnapshotInv` that whatever was
seen was seen by the transaction begun before. `SamplesInv` says how many times are
recorded at each point of a round, and that a decision is made of `Repetitions` times
of each statement. The rest of `OutliersDoNotDecide` is about medians: the lemma
`RankedFacts` says that the time of a rank exists, fewer than that rank lying below
it and as many up to it: it is the least bound that rank many times keep to, and
`Bounded` gives a first one by the least counterexample. `Separates` turns two times of
the same rank into a time between the halves.

**Endpoint.** `ScriptInv` says what each line of a script has left behind when the
script is at the next one, `OrphanInv` that commands are left behind only by runs that
will not go on, `LockInv` that at most one run of a workspace is past the lock, `LoadedInv` and
`CallInv` what is loaded and who answers while it is there. `PidInv` says that the PID
file names the proxy that runs; with two scripts at work at once this may fail
(one starts its proxy, the other overwrites the file), so it is claimed only while the
runs are `Exclusive`, sharing one lock or all but one not launched yet, and no
command left behind has touched the port (`~ stray`). `IdleInv` says that what is
loaded or listens some run has still to stop. What rests on `PidInv` needs
`OneWorkspace`: the lock is a file of the workspace, and two runs
with different workspaces do stop each other's models (listed as a hazard).

**Model call.** `ContextComplete` speaks of the least closed set, the code of a
worklist. `Searched` says at every turn that what is selected calls for nothing that is
neither selected nor waiting (`Frontier`), and that everything selected or waiting
belongs to every closed set (`Needed`); when the queue is empty the two meet.
Which objects a list of references leads to is the lemma `Finds`, which rests on
`Flattens`: the library joins sequences by a recursive function, and that this function
exists (`JoinExists`) and collects everything (`JoinCollects`) is proved by the least
counterexample, since the induction theorems cannot be used. `Fitted` carries the
granted tokens from the budget to the last request, `Repeated` what answer
there was when a request is repeated.

**Workspace.** `ActiveInv` says whose files may lie there at each stage of the process
that holds the lock, and that the items already moved are gone; `ArchiveInv`
that the directory being filled has nothing of what is still to come, so that a
move never replaces anything; `TornInv` that a run is in two places only while it
is being moved, or if the process that moved it ended. In the refinement a
write produces one piece or stutters, a move retires one, everything else
stutters.

**Proxy and launchers.** `Conserved` counts bytes: what the source wrote is what
lies in the buffers, in the chunk in hand and at the destination, unless the
destination's socket was closed with bytes unread; `ThreadsInv` and `OpenInv` tie
what a thread still does to what it has passed on, `ClosedInv` says that nothing
closes before both threads are through. For `Launcher` the invariant relates the
stage of the launch to what was checked and whether it fell back; the rest of the
argument is that the shell's and Python's reading of a flag lead to the same
decision.

**Review UI.** `RefreshInv` says that the flag is set exactly while one task carries it,
so a tick that finds it set starts nothing and every way a task can end, an
exception included, hands it back. `ScreenInv` is the reason that the order of the
answers does not matter: as long as no request failed (`UnreadInv` counts an answer
that broke off among the failures), whatever is not right
on the screen has been asked for again (`RunComing`, `QueryComing`), and
a task is dropped only if its answer would have been for another selection.
`TaskInv` keeps `preserve` set on the requests of a refresh. `SelectionKept` is about
each step of these requests, whatever else is in flight: `loadRuns` and `loadRun`
read the selection only after their answer has come, so a click made while they waited
is what they compare the answer with.

**Measures.** Three of the liveness properties rest on loops that come to an end, and
that much of them is proved: `RunShortens`, `CallShortens` and `RunsShorten` give a
measure, compared lexicographically, that every step lowers. For `Pipeline` it is the rounds both
options still allow, the phases up to the end of the round, and the jobs or calls the
open handler has left; `CountInv` keeps the first from running below zero. For
`ModelCall` it is what lies before the call, retries included, then the objects not yet
selected and the length of the queue. For `ModelEndpoint` it is each run's own: the
launcher's stages, models still wanted, lines of the script, stacks to bring down,
requests and attempts; that no step of another run or container raises it is part
of the theorem, since runs do stop each other's models. What the measures do
not say is that there is always a next step.

**Only model-checked.** What needs fairness: `Termination`, `CallEnds`,
`EveryRunExits`, `EndIsPassedOn` and `ScreenFollows`. Liveness is beyond the prover, and
so is the ENABLED in it. Every other property of the passing runs is a theorem.

## 5. Not modelled

* Manual model swaps, `leave_qwen_ui_running` and the start scripts with a
  user interface, which no automatic run calls.
* `SAME_SNAPSHOT_VALIDATION=0` (constant `SameSnapshot`) is in the models but
  no run uses it: the switch gives up what `VerdictSound` and `OneSnapshot` promise.
* The text of the row limit in `BENCHMARK_MODE=first_n`; prompts, sampling
  parameters and request styles; the wording of reports.
* Path resolution and the formatting of output files in `OutlinePass`; the search for
  an interpreter in `_python_runtime.sh`.
* Images and provisioning; `/metrics`, path checks, search box and clipboard of the
  Review UI; `accept()` of the proxy.

## 6. Plan

Done, in this order: `Pipeline` with its invariant and proofs, the refinement,
`OracleValidation`, `Benchmark`, `ModelEndpoint`, `ReviewClient`, `ModelCall`;
then `Workspace` with `ResultSets`, `StreamProxy`, `Launcher`, the launch timeout and
failing commands in `ModelEndpoint`, the session in `Benchmark`, the outline pass in
`ModelCall`.

The proofs of `Pipeline` (all its safety properties), `OracleValidation`, `Benchmark`,
`ModelCall`, `ModelEndpoint`, `Workspace` with its refinement, `StreamProxy`,
`Launcher` and `ReviewClient`.

Next:

1. Composition: `Pipeline` with the outcomes of `ModelCall` by INSTANCE, so that
   *unusable* and *failed* are derived rather than assumed.
