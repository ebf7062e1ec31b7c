------------------------------ MODULE Pipeline ------------------------------
(***************************************************************************)
(* One run of the tuning pipeline: the loop of main.run_pipeline and the   *)
(* handlers of PipelineManager it calls.  A run collects SQL statements    *)
(* (jobs), lets a writer model rewrite each one, lets critic models review *)
(* the rewrite, validates it against Oracle, benchmarks it, and publishes  *)
(* what passed the gates the options require.                              *)
(*                                                                         *)
(* Abstractions.  A candidate is the text in job.tuned_path; it is named   *)
(* by the tuning round that first wrote it, 0 standing for the original    *)
(* statement.  What a model answers and what Oracle finds is               *)
(* nondeterministic.  A loop over self.jobs or self.critics is taken one   *)
(* element per step, in list order, so that an exception can cut it        *)
(* anywhere (action Raise).                                                *)
(***************************************************************************)
EXTENDS Integers

CONSTANTS
  Jobs,                \* positions of the collected jobs in self.jobs
  Critics,             \* positions of critic aliases in CRITIC_MODELS
  Options,             \* command line and environment combinations to run with
  MaxRetry,            \* --max-retry
  CriticRetuneRounds   \* --critic-retune-rounds

EnvFlag == {"", "0", "1"}      \* unset, false, true

AllOptions ==
  [llm : BOOLEAN, critics : SUBSET Critics, oracle_validate : BOOLEAN,
   execute_benchmark : BOOLEAN, ORACLE_VALIDATE : EnvFlag,
   REQUIRE_ORACLE_VALIDATION : EnvFlag, REQUIRE_CRITIC_APPROVAL : EnvFlag]

ASSUME PipelineAssumption ==
  /\ Jobs \subseteq Nat /\ Jobs # {}    \* an empty collection raises
  /\ Critics \subseteq Nat
  /\ Options \subseteq AllOptions
  /\ MaxRetry \in Nat
  /\ CriticRetuneRounds \in Nat

VARIABLES
  cfg,                 \* the settings __init__ derives from the options
  phase, open,         \* state of run_pipeline; whether its handler is running
  queue, calls,        \* jobs, and critic calls, the handler has still to do
  tuning_round, retry_count, critic_retune_count,
  status, retries,     \* job.status, job.retry_count
  tuned,               \* the candidate in job.tuned_path
  writer,              \* what the last writer call gave; "failed" sets job.error
  critiques,           \* job.critiques: verdict and candidate, per critic
  benchmark,           \* job.benchmark: the fields the gates are decided on
  validated, measured, \* candidate of job.validation, of the last benchmark
  feedback,            \* feedback/<job>.json: candidates its blocks are about
  accepted, rejected,  \* candidate copied to the success / failed directory
  review,              \* jobs listed in review/needs_review.txt
  summary              \* result in summary.json

ctlVars   == <<phase, open, queue, calls>>
countVars == <<tuning_round, retry_count, critic_retune_count>>
textVars  == <<tuned, writer>>
gateVars  == <<critiques, benchmark, validated, measured, feedback>>
outVars   == <<accepted, rejected, review, summary>>
vars == <<cfg, ctlVars, countVars, status, retries, textVars, gateVars, outVars>>

None     == -1         \* no file, no report
Original == 0          \* the candidate that is the original statement

Verdict == {"missing", "pass", "fail"}
VerdictOf(b) == IF b THEN "pass" ELSE "fail"

Phases == {"COLLECT_SQL", "COLLECT_METADATA", "BUILD_RAG", "ANALYZE", "TUNE",
           "CRITIQUE", "VALIDATE_ORACLE", "BENCHMARK", "VERIFY", "REANALYZE",
           "WAIT_USER", "SUCCESS", "FAILED"}
Ended == {"DONE", "ABORTED"}   \* run_pipeline returned / raised

Results == {"SUCCESS", "ORACLE_VALIDATED_UNBENCHMARKED",
            "CRITIC_APPROVED_UNBENCHMARKED", "GENERATED_UNVALIDATED",
            "PARTIAL", "FAILED"}

(* What __init__ makes of the options: EXECUTE_BENCHMARK implies           *)
(* validation, and each gate is required by default when it is run.        *)
EnvBool(value, default) == IF value = "" THEN default ELSE value = "1"

Configure(o) ==
  LET validate == \/ o.oracle_validate
                  \/ o.execute_benchmark
                  \/ EnvBool(o.ORACLE_VALIDATE, FALSE)
  IN [llm                       |-> o.llm,
      critics                   |-> o.critics,
      execute_benchmark         |-> o.execute_benchmark,
      oracle_validate           |-> validate,
      require_oracle_validation |-> EnvBool(o.REQUIRE_ORACLE_VALIDATION, validate),
      require_critic_approval   |-> EnvBool(o.REQUIRE_CRITIC_APPROVAL,
                                            o.critics # {})]

-----------------------------------------------------------------------------
(* Jobs a handler works on: those verification has not frozen.             *)
(* Definitions named X_Fault are faulty variants of X that the properties  *)
(* below must tell from X; no action uses them.                            *)
Active_Fault == Jobs

Active == {j \in Jobs : status[j] # "VERIFYING"}

First(j)        == j \in queue /\ \A k \in queue : j <= k
FirstCall(c, j) == /\ <<c, j>> \in calls
                   /\ \A d \in Critics, k \in Jobs :
                        <<d, k>> \in calls => c < d \/ (c = d /\ j <= k)

JobError(j) == writer[j] = "failed"

Passed_Fault(j) ==                  \* validation is run but not looked at
  /\ ~ JobError(j)
  /\ cfg.execute_benchmark => benchmark[j].improved = "pass"
  /\ cfg.require_critic_approval => benchmark[j].critic_approved = "pass"

(* _job_passed_final_verification *)
Passed(j) ==
  /\ ~ JobError(j)
  /\ cfg.execute_benchmark => benchmark[j].improved = "pass"
  /\ cfg.require_critic_approval => benchmark[j].critic_approved = "pass"
  /\ cfg.require_oracle_validation =>
       benchmark[j].oracle_validation_passed = "pass"

(* A handler starts, takes its elements off the queue, and ends.           *)
Begin(p, todo) ==
  /\ phase = p /\ ~ open
  /\ open' = TRUE /\ queue' = todo
  /\ UNCHANGED <<phase, calls>>

Take(p, j) ==
  /\ phase = p /\ open /\ First(j)
  /\ queue' = queue \ {j}
  /\ UNCHANGED <<phase, open, calls>>

End(p, next) ==
  /\ phase = p /\ open /\ queue = {} /\ calls = {}
  /\ phase' = next /\ open' = FALSE
  /\ UNCHANGED <<queue, calls>>

Goto(p, next) ==
  /\ phase = p
  /\ phase' = next
  /\ UNCHANGED <<open, queue, calls>>

-----------------------------------------------------------------------------
Init ==
  /\ cfg \in {Configure(o) : o \in Options}
  /\ phase = "COLLECT_SQL" /\ open = FALSE /\ queue = {} /\ calls = {}
  /\ tuning_round = 0 /\ retry_count = 0 /\ critic_retune_count = 0
  /\ status = [j \in Jobs |-> "WAITING"]
  /\ retries = [j \in Jobs |-> 0]
  /\ tuned = [j \in Jobs |-> None]
  /\ writer = [j \in Jobs |-> "none"]
  /\ critiques = [j \in Jobs |-> [c \in Critics |-> [ok |-> FALSE, on |-> None]]]
  /\ benchmark = [j \in Jobs |-> [critic_approved |-> "missing",
                                  oracle_validation_passed |-> "missing",
                                  improved |-> "missing",
                                  assessment |-> "none"]]
  /\ validated = [j \in Jobs |-> None]
  /\ measured = [j \in Jobs |-> None]
  /\ feedback = [j \in Jobs |-> [critics |-> None, oracle |-> None]]
  /\ accepted = [j \in Jobs |-> None]
  /\ rejected = [j \in Jobs |-> None]
  /\ review = {}
  /\ summary = "none"

CollectSql ==
  /\ Goto("COLLECT_SQL", "COLLECT_METADATA")
  /\ UNCHANGED <<cfg, countVars, status, retries, textVars, gateVars, outVars>>

CollectMetadata ==
  /\ Goto("COLLECT_METADATA", "BUILD_RAG")
  /\ UNCHANGED <<cfg, countVars, status, retries, textVars, gateVars, outVars>>

BuildRag ==
  /\ Goto("BUILD_RAG", "ANALYZE")
  /\ UNCHANGED <<cfg, countVars, status, retries, textVars, gateVars, outVars>>

AnalyzeSql ==
  /\ Goto("ANALYZE", "TUNE")
  /\ status' = [j \in Jobs |-> IF j \in Active THEN "ANALYZING" ELSE status[j]]
  /\ UNCHANGED <<cfg, countVars, retries, textVars, gateVars, outVars>>

-----------------------------------------------------------------------------
(* tune_sql.  A writer call that raises keeps the candidate of an earlier  *)
(* round (the original in round 1) and sets job.error.  An answer that is  *)
(* cut short or breaks the JSON contract is replaced, inside               *)
(* _tune_with_llm and without an error, by the text the request carried:   *)
(* the previous candidate, but only if a feedback file exists.  The local  *)
(* tuner never calls a model.                                              *)
BeginTune ==
  /\ Begin("TUNE", Active)
  /\ tuning_round' = tuning_round + 1
  /\ UNCHANGED <<cfg, retry_count, critic_retune_count, status, retries,
                 textVars, gateVars, outVars>>

HasFeedback(j) == feedback[j].critics # None \/ feedback[j].oracle # None

Fallback(j) == IF HasFeedback(j) /\ tuned[j] # None THEN tuned[j] ELSE Original

Preserved_Fault(j) == Original      \* forgets the earlier round

Preserved(j) == IF tuning_round > 1 /\ tuned[j] # None THEN tuned[j] ELSE Original

WriterAnswers == IF cfg.llm THEN {"rewrite", "unusable", "failed"} ELSE {"local"}

Written(j, answer) ==
  IF answer = "unusable" THEN Fallback(j)
  ELSE IF answer = "failed" THEN Preserved(j)
  ELSE tuning_round

TuneJob(j) ==
  /\ Take("TUNE", j)
  /\ status' = [status EXCEPT ![j] = "TUNING"]
  /\ \E answer \in WriterAnswers :
       /\ writer' = [writer EXCEPT ![j] = answer]
       /\ tuned' = [tuned EXCEPT ![j] = Written(j, answer)]
  /\ UNCHANGED <<cfg, countVars, retries, gateVars, outVars>>

EndTune_Fault ==                    \* a feedback rewrite skips the critics
  /\ End("TUNE", IF critic_retune_count > 0 THEN "VALIDATE_ORACLE" ELSE "CRITIQUE")
  /\ UNCHANGED <<cfg, countVars, status, retries, textVars, gateVars, outVars>>

EndTune ==
  /\ End("TUNE", "CRITIQUE")
  /\ UNCHANGED <<cfg, countVars, status, retries, textVars, gateVars, outVars>>

-----------------------------------------------------------------------------
(* critique_tuned_sql: every configured critic is called for every active  *)
(* job; a call that fails counts as a rejection.  Only after the last call *)
(* are the feedback files rewritten and the approvals decided.             *)
BeginCritique ==
  /\ phase = "CRITIQUE" /\ ~ open
  /\ open' = TRUE
  /\ calls' = cfg.critics \X Active
  /\ status' = [j \in Jobs |-> IF cfg.critics # {} /\ j \in Active
                               THEN "CRITIQUING" ELSE status[j]]
  /\ UNCHANGED <<cfg, phase, queue, countVars, retries, textVars, gateVars,
                 outVars>>

CritiqueJob(c, j) ==
  /\ phase = "CRITIQUE" /\ open /\ FirstCall(c, j)
  /\ calls' = calls \ {<<c, j>>}
  /\ \E ok \in BOOLEAN :
       critiques' = [critiques EXCEPT ![j][c] = [ok |-> ok, on |-> tuned[j]]]
  /\ UNCHANGED <<cfg, phase, open, queue, countVars, status, retries, textVars,
                 benchmark, validated, measured, feedback, outVars>>

CriticApproved(j) == \A c \in cfg.critics : critiques[j][c].ok

CritiqueVerdict_Fault(j) ==         \* an earlier approval stays valid
  IF benchmark[j].critic_approved = "pass" THEN benchmark[j]
  ELSE [benchmark[j] EXCEPT !.critic_approved = VerdictOf(CriticApproved(j))]

CritiqueVerdict(j) ==
  [benchmark[j] EXCEPT
     !.critic_approved = VerdictOf(CriticApproved(j)),
     !.improved = IF cfg.require_critic_approval /\ ~ CriticApproved(j)
                  THEN "fail" ELSE @]

CritiqueFeedback_Fault(j) ==        \* merged into the old file
  [feedback[j] EXCEPT !.critics = tuned[j]]

CritiqueFeedback(j) == [critics |-> tuned[j], oracle |-> None]

ShouldRetune_Fault ==               \* one round too many
  cfg.critics # {} /\ cfg.llm /\ critic_retune_count <= CriticRetuneRounds

ShouldRetune ==
  cfg.critics # {} /\ cfg.llm /\ critic_retune_count < CriticRetuneRounds

(* prepare_critic_retune follows in the same iteration of run_pipeline.    *)
EndCritique ==
  /\ End("CRITIQUE", IF ShouldRetune THEN "ANALYZE" ELSE "VALIDATE_ORACLE")
  /\ LET judged == IF cfg.critics = {} THEN {} ELSE Active
     IN /\ benchmark' = [j \in Jobs |-> IF j \in judged THEN CritiqueVerdict(j)
                                        ELSE benchmark[j]]
        /\ feedback' = [j \in Jobs |->
                          IF j \in judged
                          THEN CritiqueFeedback(j)
                          ELSE feedback[j]]
  /\ IF ShouldRetune
     THEN /\ critic_retune_count' = critic_retune_count + 1
          /\ retries' = [j \in Jobs |-> IF j \in Active THEN retries[j] + 1
                                        ELSE retries[j]]
          /\ status' = [j \in Jobs |-> IF j \in Active THEN "RETRY"
                                       ELSE status[j]]
     ELSE UNCHANGED <<critic_retune_count, retries, status>>
  /\ UNCHANGED <<cfg, tuning_round, retry_count, textVars, critiques,
                 validated, measured, outVars>>

-----------------------------------------------------------------------------
(* validate_oracle.  A failure is merged into the feedback file; a pass    *)
(* leaves the file as it is.                                               *)
BeginValidate ==
  /\ Begin("VALIDATE_ORACLE", IF cfg.oracle_validate THEN Active ELSE {})
  /\ UNCHANGED <<cfg, countVars, status, retries, textVars, gateVars, outVars>>

OracleVerdict(j, ok) ==
  [benchmark[j] EXCEPT !.oracle_validation_passed = VerdictOf(ok),
                       !.improved = IF ok THEN @ ELSE "fail"]

ValidateJob(j) ==
  /\ Take("VALIDATE_ORACLE", j)
  /\ status' = [status EXCEPT ![j] = "VALIDATING"]
  /\ validated' = [validated EXCEPT ![j] = tuned[j]]
  /\ \E ok \in BOOLEAN :
       /\ benchmark' = [benchmark EXCEPT ![j] = OracleVerdict(j, ok)]
       /\ feedback' = [feedback EXCEPT ![j].oracle = IF ok THEN @ ELSE tuned[j]]
  /\ UNCHANGED <<cfg, countVars, retries, textVars, critiques, measured, outVars>>

EndValidate ==
  /\ End("VALIDATE_ORACLE", "BENCHMARK")
  /\ UNCHANGED <<cfg, countVars, status, retries, textVars, gateVars, outVars>>

-----------------------------------------------------------------------------
(* benchmark.  The dictionary is rebuilt: the critic and Oracle verdicts   *)
(* are carried over, and a required gate that did not pass forces improved *)
(* to False whatever was measured.                                         *)
BeginBenchmark ==
  /\ Begin("BENCHMARK", Active)
  /\ UNCHANGED <<cfg, countVars, status, retries, textVars, gateVars, outVars>>

Blocked(j) ==
  \/ /\ cfg.require_oracle_validation
     /\ benchmark[j].oracle_validation_passed # "pass"
  \/ /\ cfg.require_critic_approval
     /\ benchmark[j].critic_approved # "pass"

Assessment_Fault(j, improved) ==    \* a failed writer is not looked at
  IF cfg.execute_benchmark
  THEN IF improved = "pass" THEN "benchmark_improved" ELSE "review_required"
  ELSE IF Blocked(j) THEN "review_required" ELSE "approved_unbenchmarked"

Assessment(j, improved) ==
  IF cfg.execute_benchmark
  THEN IF improved = "pass" THEN "benchmark_improved" ELSE "review_required"
  ELSE IF Blocked(j) \/ JobError(j) THEN "review_required"
       ELSE "approved_unbenchmarked"

BenchmarkReport(j, speed) ==
  LET improved == IF Blocked(j) THEN "fail" ELSE speed
  IN [benchmark[j] EXCEPT !.improved = improved,
                          !.assessment = Assessment(j, improved)]

BenchmarkJob(j) ==
  /\ Take("BENCHMARK", j)
  /\ status' = [status EXCEPT ![j] = "BENCHMARKING"]
  /\ measured' = [measured EXCEPT ![j] = tuned[j]]
  /\ \E speed \in IF cfg.execute_benchmark THEN {"pass", "fail"} ELSE {"missing"} :
       benchmark' = [benchmark EXCEPT ![j] = BenchmarkReport(j, speed)]
  /\ UNCHANGED <<cfg, countVars, retries, textVars, critiques, validated,
                 feedback, outVars>>

EndBenchmark ==
  /\ End("BENCHMARK", "VERIFY")
  /\ UNCHANGED <<cfg, countVars, status, retries, textVars, gateVars, outVars>>

-----------------------------------------------------------------------------
(* is_improved marks every job VERIFYING; retry_jobs unfreezes those that  *)
(* failed.                                                                 *)
Verify ==
  /\ Goto("VERIFY", IF \A j \in Jobs : Passed(j) THEN "SUCCESS" ELSE "REANALYZE")
  /\ status' = [j \in Jobs |-> "VERIFYING"]
  /\ UNCHANGED <<cfg, countVars, retries, textVars, gateVars, outVars>>

RetryJobs ==
  /\ retry_count < MaxRetry
  /\ Goto("REANALYZE", "ANALYZE")
  /\ retry_count' = retry_count + 1
  /\ status' = [j \in Jobs |-> IF Passed(j) THEN status[j] ELSE "RETRY"]
  /\ retries' = [j \in Jobs |-> IF Passed(j) THEN retries[j] ELSE retries[j] + 1]
  /\ UNCHANGED <<cfg, tuning_round, critic_retune_count, textVars, gateVars,
                 outVars>>

GiveUp_Early_Fault ==               \* the last retry is not used
  /\ retry_count + 1 >= MaxRetry
  /\ Goto("REANALYZE", "WAIT_USER")
  /\ UNCHANGED <<cfg, countVars, status, retries, textVars, gateVars, outVars>>

GiveUp_Late_Fault ==                \* the limit itself is not handled
  /\ retry_count > MaxRetry
  /\ Goto("REANALYZE", "WAIT_USER")
  /\ UNCHANGED <<cfg, countVars, status, retries, textVars, gateVars, outVars>>

GiveUp ==
  /\ retry_count >= MaxRetry
  /\ Goto("REANALYZE", "WAIT_USER")
  /\ UNCHANGED <<cfg, countVars, status, retries, textVars, gateVars, outVars>>

NotifyUser_Fault ==                 \* asks for a speed-up nobody measured
  /\ Goto("WAIT_USER", "FAILED")
  /\ review' = {j \in Jobs : benchmark[j].improved # "pass"}
  /\ UNCHANGED <<cfg, countVars, status, retries, textVars, gateVars, accepted,
                 rejected, summary>>

NotifyUser ==
  /\ Goto("WAIT_USER", "FAILED")
  /\ review' = {j \in Jobs : ~ Passed(j)}
  /\ UNCHANGED <<cfg, countVars, status, retries, textVars, gateVars, accepted,
                 rejected, summary>>

-----------------------------------------------------------------------------
(* move_success and move_failed copy job by job; the summary comes last.   *)
BeginMove ==
  /\ \E p \in {"SUCCESS", "FAILED"} : Begin(p, Jobs)
  /\ UNCHANGED <<cfg, countVars, status, retries, textVars, gateVars, outVars>>

PublishJob(j) ==
  /\ Take("SUCCESS", j)
  /\ accepted' = [accepted EXCEPT ![j] = tuned[j]]
  /\ status' = [status EXCEPT ![j] = "SUCCESS"]
  /\ UNCHANGED <<cfg, countVars, retries, textVars, gateVars, rejected, review,
                 summary>>

SortJob(j) ==
  /\ Take("FAILED", j)
  /\ IF Passed(j)
     THEN /\ accepted' = [accepted EXCEPT ![j] = tuned[j]]
          /\ status' = [status EXCEPT ![j] = "SUCCESS"]
          /\ UNCHANGED rejected
     ELSE /\ rejected' = [rejected EXCEPT ![j] = tuned[j]]
          /\ status' = [status EXCEPT ![j] = "FAILED"]
          /\ UNCHANGED accepted
  /\ UNCHANGED <<cfg, countVars, retries, textVars, gateVars, review, summary>>

SuccessResult ==
  IF cfg.execute_benchmark THEN "SUCCESS"
  ELSE IF cfg.oracle_validate THEN "ORACLE_VALIDATED_UNBENCHMARKED"
  ELSE IF cfg.require_critic_approval THEN "CRITIC_APPROVED_UNBENCHMARKED"
  ELSE "GENERATED_UNVALIDATED"

FinishSuccess ==
  /\ End("SUCCESS", "DONE")
  /\ summary' = SuccessResult
  /\ UNCHANGED <<cfg, countVars, status, retries, textVars, gateVars, accepted,
                 rejected, review>>

FinishFailed ==
  /\ End("FAILED", "DONE")
  /\ summary' = IF \E j \in Jobs : status[j] = "SUCCESS" THEN "PARTIAL"
                ELSE "FAILED"
  /\ UNCHANGED <<cfg, countVars, status, retries, textVars, gateVars, accepted,
                 rejected, review>>

-----------------------------------------------------------------------------
(* Any exception leaves run_pipeline: nothing collected, a model endpoint  *)
(* that does not become ready, an empty rewrite, a file that cannot be     *)
(* read or written.  main's finally releases the workspace lock; nothing   *)
(* else is undone.                                                         *)
Raise ==
  /\ phase \in Phases
  /\ phase' = "ABORTED"
  /\ UNCHANGED <<cfg, open, queue, calls, countVars, status, retries, textVars,
                 gateVars, outVars>>

Stop == phase \in Ended /\ UNCHANGED vars

Step ==
  \/ CollectSql \/ CollectMetadata \/ BuildRag \/ AnalyzeSql
  \/ BeginTune \/ (\E j \in Jobs : TuneJob(j)) \/ EndTune
  \/ BeginCritique \/ (\E c \in Critics, j \in Jobs : CritiqueJob(c, j))
  \/ EndCritique
  \/ BeginValidate \/ (\E j \in Jobs : ValidateJob(j)) \/ EndValidate
  \/ BeginBenchmark \/ (\E j \in Jobs : BenchmarkJob(j)) \/ EndBenchmark
  \/ Verify \/ RetryJobs \/ GiveUp \/ NotifyUser
  \/ BeginMove \/ (\E j \in Jobs : PublishJob(j) \/ SortJob(j))
  \/ FinishSuccess \/ FinishFailed

Next == Step \/ Raise \/ Stop

Spec == Init /\ [][Next]_vars

(* The loop is one thread and every call in it has a timeout: its next     *)
(* step is eventually taken.  Nothing forces an exception.                 *)
FairSpec == Spec /\ WF_vars(Step)
-----------------------------------------------------------------------------
(***************************************************************************)
(* Properties.                                                             *)
(***************************************************************************)
Config ==
  [llm : BOOLEAN, critics : SUBSET Critics, execute_benchmark : BOOLEAN,
   oracle_validate : BOOLEAN, require_oracle_validation : BOOLEAN,
   require_critic_approval : BOOLEAN]

Candidate == Nat \cup {None}
Status == {"WAITING", "ANALYZING", "TUNING", "CRITIQUING", "VALIDATING",
           "BENCHMARKING", "VERIFYING", "RETRY", "SUCCESS", "FAILED"}
Answers == {"none", "local", "rewrite", "unusable", "failed"}
Assessments == {"none", "approved_unbenchmarked", "benchmark_improved",
                "review_required"}

Report == [critic_approved : Verdict, oracle_validation_passed : Verdict,
           improved : Verdict, assessment : Assessments]

(* Type invariant of the run's in-memory state and of its output files.    *)
TypeOK ==
  /\ cfg \in Config
  /\ phase \in Phases \cup Ended /\ open \in BOOLEAN
  /\ queue \subseteq Jobs /\ calls \subseteq Critics \X Jobs
  /\ tuning_round \in Nat /\ retry_count \in Nat /\ critic_retune_count \in Nat
  /\ status \in [Jobs -> Status] /\ retries \in [Jobs -> Nat]
  /\ tuned \in [Jobs -> Candidate] /\ writer \in [Jobs -> Answers]
  /\ critiques \in [Jobs -> [Critics -> [ok : BOOLEAN, on : Candidate]]]
  /\ benchmark \in [Jobs -> Report]
  /\ validated \in [Jobs -> Candidate] /\ measured \in [Jobs -> Candidate]
  /\ feedback \in [Jobs -> [critics : Candidate, oracle : Candidate]]
  /\ accepted \in [Jobs -> Candidate] /\ rejected \in [Jobs -> Candidate]
  /\ review \subseteq Jobs
  /\ summary \in Results \cup {"none"}

(* The promise of the pipeline: a text copied into the success directory   *)
(* is the job's latest candidate, and every gate the options require was   *)
(* passed by this very text, not by a candidate of an earlier round.       *)
AcceptedPassedGates ==
  \A j \in Jobs : accepted[j] # None =>
    /\ accepted[j] = tuned[j] /\ ~ JobError(j)
    /\ cfg.require_critic_approval =>
         /\ cfg.critics # {}
         /\ \A c \in cfg.critics : critiques[j][c] = [ok |-> TRUE, on |-> accepted[j]]
    /\ cfg.require_oracle_validation =>
         /\ validated[j] = accepted[j]
         /\ benchmark[j].oracle_validation_passed = "pass"
    /\ cfg.execute_benchmark =>
         measured[j] = accepted[j] /\ benchmark[j].improved = "pass"

(* A rewrite made from feedback is reviewed again: every candidate that    *)
(* reaches Oracle, the benchmark or a decision was seen by every critic    *)
(* (comment in run_pipeline; CRITIC_WORKFLOW.txt:21).                      *)
ReviewedBeforeDatabase ==
  phase \in {"VALIDATE_ORACLE", "BENCHMARK", "VERIFY", "REANALYZE", "WAIT_USER",
            "SUCCESS", "FAILED", "DONE"} =>
    \A j \in Jobs, c \in cfg.critics : critiques[j][c].on = tuned[j]

(* The number of model rounds is bounded by the two options, and a job is  *)
(* given up only after every retry was spent on it: no round was skipped   *)
(* for a job that never passed.                                            *)
RetriesExhausted ==
  /\ tuning_round <= 1 + MaxRetry + CriticRetuneRounds
  /\ \A j \in Jobs : rejected[j] # None =>
       /\ retries[j] = MaxRetry + critic_retune_count
       /\ tuning_round = retries[j] + 1

(* Every file in the output directories is accounted for, however the run  *)
(* ends.  What is published or sorted out is never both, and the review    *)
(* note, written before the first copy, names what is sorted out and       *)
(* nothing that is published: also when an exception stops the copying.    *)
(* A summary means that the copying was complete: every job lies in one    *)
(* directory with its latest candidate, and summary and note tell the same.*)
(* A run that was stopped has no summary to mistake for one.               *)
Published == {j \in Jobs : accepted[j] # None}
SortedOut == {j \in Jobs : rejected[j] # None}

Complete ==
  /\ Published \cup SortedOut = Jobs /\ review = SortedOut
  /\ summary = "FAILED"  <=> Published = {}
  /\ summary = "PARTIAL" <=> Published # {} /\ SortedOut # {}

OutcomeAccounted ==
  /\ Published \cap (SortedOut \cup review) = {} /\ SortedOut \subseteq review
  /\ \A j \in SortedOut : rejected[j] = tuned[j]
  /\ phase = "DONE" => summary # "none"
  /\ summary # "none" => Complete

(* The assessment the benchmark report shows a reviewer is computed apart  *)
(* from _job_passed_final_verification; the two never disagree in a run    *)
(* that does not execute benchmarks, and no accepted job is ever reported  *)
(* as needing review.                                                      *)
AssessmentMatchesOutcome ==
  phase = "DONE" => \A j \in Jobs :
    /\ accepted[j] # None => benchmark[j].assessment # "review_required"
    /\ ~ cfg.execute_benchmark =>
         (accepted[j] # None <=> benchmark[j].assessment = "approved_unbenchmarked")

(* With critics configured, the feedback a later round reads is about the  *)
(* candidate it rewrites, and carries no Oracle failure of an older one.   *)
FeedbackAboutCandidate ==
  phase = "TUNE" /\ open /\ tuning_round > 1 /\ cfg.critics # {} =>
    \A j \in queue : /\ feedback[j].critics = tuned[j]
                     /\ feedback[j].oracle \in {None, tuned[j]}

(* A job that passed verification is frozen until it is published: later   *)
(* retries of other jobs change neither its candidate nor any verdict on   *)
(* it, and do not take it up again.                                        *)
PassedJobFrozen ==
  [][\A j \in Jobs : status[j] = "VERIFYING" /\ Passed(j) =>
       /\ tuned'[j] = tuned[j] /\ retries'[j] = retries[j]
       /\ Passed(j)' /\ validated'[j] = validated[j] /\ measured'[j] = measured[j]
       /\ phase \notin {"SUCCESS", "FAILED"} => status'[j] = "VERIFYING"]_vars

(* A writer that fails in a later round loses nothing: the candidate stays *)
(* (CRITIC_WORKFLOW.txt:69).  After an unusable answer it stays as well if *)
(* critics run or Oracle rejected it last; only a candidate that was just  *)
(* too slow gives way to the original.                                     *)
FailedRewriteKeepsCandidate ==
  [][\A j \in queue \ queue' :
       /\ phase = "TUNE" /\ tuning_round > 1
       /\ \/ writer'[j] = "failed"
          \/ /\ writer'[j] = "unusable"
             /\ \/ cfg.critics # {}
                \/ benchmark[j].oracle_validation_passed = "fail"
       => tuned'[j] = tuned[j]]_vars

(* Every run ends: the retry loop, the critic loop and the state machine   *)
(* between them cannot go round for ever.                                  *)
Termination == <>(phase \in Ended)

-----------------------------------------------------------------------------
(* What the repository's documents say and the code does not do.           *)

(* ORACLE_VALIDATION_LOOP.txt:6, "Every tuned SQL must pass Oracle-side    *)
(* validation before it can be reported as verified": a run reported       *)
(* ORACLE_VALIDATED_UNBENCHMARKED holds only validated candidates.         *)
OracleLabelEarned ==
  summary = "ORACLE_VALIDATED_UNBENCHMARKED" =>
    \A j \in Jobs : benchmark[j].oracle_validation_passed = "pass"
=============================================================================
