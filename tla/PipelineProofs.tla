--------------------------- MODULE PipelineProofs ---------------------------
(* Proofs about Pipeline, for every set of jobs and critics, every option  *)
(* set and every bound on retries.                                         *)
EXTENDS PipelineRefinement, TLAPS

LEMMA ConfigType == ASSUME NEW o \in AllOptions PROVE Configure(o) \in Config
  BY DEF AllOptions, Configure, Config, EnvBool, EnvFlag

LEMMA VerdictType == ASSUME NEW b PROVE VerdictOf(b) \in {"pass", "fail"}
  BY DEF VerdictOf

(* A benchmark report stays one when its fields get new verdicts.          *)
LEMMA ReportUpdate ==
  ASSUME NEW r \in Report, NEW u \in Verdict, NEW v \in Verdict
  PROVE  /\ [r EXCEPT !.critic_approved = u, !.improved = v] \in Report
         /\ [r EXCEPT !.oracle_validation_passed = u, !.improved = v] \in Report
         /\ \A a \in Assessments :
              [r EXCEPT !.improved = v, !.assessment = a] \in Report
  BY DEF Report

LEMMA InitType == Init => TypeOK
<1> SUFFICES ASSUME Init PROVE TypeOK
  OBVIOUS
<1>1. cfg \in Config
  BY ConfigType, PipelineAssumption DEF Init
<1>2. QED
  BY <1>1 DEF Init, TypeOK, Phases, Ended, Status, Candidate, None, Answers,
              Verdict, Report, Assessments, Results

(* Type preservation, one lemma per handler.                               *)
LEMMA TuneType ==
  ASSUME TypeOK, NEW j \in Jobs, TuneJob(j) PROVE TypeOK'
<1>1. PICK a \in WriterAnswers :
        /\ writer' = [writer EXCEPT ![j] = a]
        /\ tuned' = [tuned EXCEPT ![j] = Written(j, a)]
  BY DEF TuneJob
<1>2. a \in Answers
  BY DEF WriterAnswers, Answers
<1>3. Written(j, a) \in Candidate
  BY DEF Written, Fallback, Preserved, TypeOK, Candidate, Original
<1>4. writer' \in [Jobs -> Answers] /\ tuned' \in [Jobs -> Candidate]
  BY <1>1, <1>2, <1>3 DEF TypeOK
<1>5. status' \in [Jobs -> Status]
  BY DEF TuneJob, TypeOK, Status
<1>6. QED
  BY <1>4, <1>5 DEF TypeOK, TuneJob, Take, gateVars, outVars, countVars

LEMMA CritiqueType ==
  ASSUME TypeOK, NEW c \in Critics, NEW j \in Jobs, CritiqueJob(c, j)
  PROVE  TypeOK'
<1>1. PICK ok \in BOOLEAN :
        critiques' = [critiques EXCEPT ![j][c] = [ok |-> ok, on |-> tuned[j]]]
  BY DEF CritiqueJob
<1>2. [ok |-> ok, on |-> tuned[j]] \in [ok : BOOLEAN, on : Candidate]
  BY DEF TypeOK
<1>3. critiques' \in [Jobs -> [Critics -> [ok : BOOLEAN, on : Candidate]]]
  BY <1>1, <1>2 DEF TypeOK
<1>4. QED
  BY <1>3 DEF TypeOK, CritiqueJob, textVars, outVars, countVars

LEMMA EndCritiqueType == ASSUME TypeOK, EndCritique PROVE TypeOK'
<1>1. ASSUME NEW j \in Jobs PROVE CritiqueVerdict(j) \in Report
  <2> DEFINE no == cfg.require_critic_approval /\ ~ CriticApproved(j)
             v  == IF no THEN "fail" ELSE benchmark[j].improved
  <2>1. benchmark[j] \in Report /\ VerdictOf(CriticApproved(j)) \in Verdict
    BY VerdictType DEF TypeOK, Verdict
  <2>2. v \in Verdict
    BY <2>1 DEF Report, Verdict
  <2>3. QED
    BY <2>1, <2>2, ReportUpdate DEF CritiqueVerdict
<1>2. benchmark' \in [Jobs -> Report]
  BY <1>1 DEF TypeOK, EndCritique
<1>3. feedback' \in [Jobs -> [critics : Candidate, oracle : Candidate]]
  BY DEF TypeOK, EndCritique, CritiqueFeedback, Candidate, None
<1>4. critic_retune_count' \in Nat /\ retries' \in [Jobs -> Nat]
      /\ status' \in [Jobs -> Status]
  <2>1. CASE ShouldRetune
    <3>1. critic_retune_count' = critic_retune_count + 1
      BY <2>1 DEF EndCritique
    <3>2. /\ retries' = [j \in Jobs |-> IF j \in Active THEN retries[j] + 1
                                       ELSE retries[j]]
          /\ status' = [j \in Jobs |-> IF j \in Active THEN "RETRY"
                                       ELSE status[j]]
      BY <2>1 DEF EndCritique
    <3>3. QED
      BY <3>1, <3>2 DEF TypeOK, Status
  <2>2. CASE ~ ShouldRetune
    BY <2>2 DEF TypeOK, EndCritique
  <2>3. QED
    BY <2>1, <2>2
<1>5. phase' \in Phases /\ open' \in BOOLEAN /\ UNCHANGED <<queue, calls>>
  BY DEF EndCritique, End, Phases
<1>6. QED
  BY <1>2, <1>3, <1>4, <1>5 DEF TypeOK, EndCritique, textVars, outVars

LEMMA ValidateType ==
  ASSUME TypeOK, NEW j \in Jobs, ValidateJob(j) PROVE TypeOK'
<1>1. PICK ok \in BOOLEAN :
       /\ benchmark' = [benchmark EXCEPT ![j] = OracleVerdict(j, ok)]
       /\ feedback' = [feedback EXCEPT ![j].oracle = IF ok THEN @ ELSE tuned[j]]
  BY DEF ValidateJob
<1>2. benchmark' \in [Jobs -> Report]
  <2> DEFINE v == IF ok THEN benchmark[j].improved ELSE "fail"
  <2>1. benchmark[j] \in Report /\ VerdictOf(ok) \in Verdict
    BY VerdictType DEF TypeOK, Verdict
  <2>2. v \in Verdict
    BY <2>1 DEF Report, Verdict
  <2>3. OracleVerdict(j, ok) \in Report
    BY <2>1, <2>2, ReportUpdate DEF OracleVerdict
  <2>4. QED
    BY <1>1, <2>3 DEF TypeOK
<1>3. feedback' \in [Jobs -> [critics : Candidate, oracle : Candidate]]
  BY <1>1 DEF TypeOK
<1>4. status' \in [Jobs -> Status] /\ validated' \in [Jobs -> Candidate]
  BY DEF TypeOK, ValidateJob, Status
<1>5. QED
  BY <1>2, <1>3, <1>4 DEF TypeOK, ValidateJob, Take, textVars, outVars, countVars

LEMMA BenchmarkType ==
  ASSUME TypeOK, NEW j \in Jobs, BenchmarkJob(j) PROVE TypeOK'
<1>1. PICK speed \in IF cfg.execute_benchmark THEN {"pass", "fail"} ELSE {"missing"} :
       benchmark' = [benchmark EXCEPT ![j] = BenchmarkReport(j, speed)]
  BY DEF BenchmarkJob
<1>2. speed \in Verdict
  BY DEF Verdict
<1>3. BenchmarkReport(j, speed) \in Report
  <2> DEFINE v == IF Blocked(j) THEN "fail" ELSE speed
  <2>1. v \in Verdict /\ benchmark[j] \in Report
    BY <1>2 DEF TypeOK, Verdict
  <2>2. Assessment(j, v) \in Assessments
    BY DEF Assessment, Assessments
  <2>3. QED
    BY <2>1, <2>2, ReportUpdate DEF BenchmarkReport
<1>4. benchmark' \in [Jobs -> Report]
  BY <1>1, <1>3 DEF TypeOK
<1>5. status' \in [Jobs -> Status] /\ measured' \in [Jobs -> Candidate]
  BY DEF TypeOK, BenchmarkJob, Status
<1>6. QED
  BY <1>4, <1>5 DEF TypeOK, BenchmarkJob, Take, textVars, outVars, countVars

(* The remaining steps of the loop change no verdict.                      *)
LEMMA StepType ==
  ASSUME TypeOK,
         \/ CollectSql \/ CollectMetadata \/ BuildRag \/ AnalyzeSql
         \/ BeginTune \/ EndTune \/ BeginCritique \/ BeginValidate
         \/ EndValidate \/ BeginBenchmark \/ EndBenchmark
         \/ Verify \/ RetryJobs \/ GiveUp \/ NotifyUser \/ Raise \/ Stop
  PROVE  TypeOK'
<1> USE DEF TypeOK, countVars, textVars, gateVars, outVars, Phases, Ended, Goto,
            Begin, End, Active
<1>1. CASE CollectSql \/ CollectMetadata \/ BuildRag
  BY <1>1 DEF CollectSql, CollectMetadata, BuildRag
<1>2. CASE AnalyzeSql
  BY <1>2 DEF AnalyzeSql, Status
<1>3. CASE BeginTune
  BY <1>3 DEF BeginTune
<1>4. CASE EndTune \/ EndValidate \/ EndBenchmark
  BY <1>4 DEF EndTune, EndValidate, EndBenchmark
<1>5. CASE BeginCritique
  <2>1. calls' \subseteq Critics \X Jobs
    BY <1>5 DEF BeginCritique, Config
  <2>2. status' \in [Jobs -> Status]
    BY <1>5 DEF BeginCritique, Status
  <2>3. QED
    BY <1>5, <2>1, <2>2 DEF BeginCritique
<1>6. CASE BeginValidate \/ BeginBenchmark
  BY <1>6 DEF BeginValidate, BeginBenchmark
<1>7. CASE Verify
  BY <1>7 DEF Verify, Status
<1>8. CASE RetryJobs
  BY <1>8 DEF RetryJobs, Status
<1>9. CASE GiveUp \/ NotifyUser \/ Raise
  BY <1>9 DEF GiveUp, NotifyUser, Raise
<1>10. CASE Stop
  BY <1>10 DEF Stop, vars, ctlVars
<1>11. QED
  BY <1>1, <1>2, <1>3, <1>4, <1>5, <1>6, <1>7, <1>8, <1>9, <1>10

LEMMA MoveType ==
  ASSUME TypeOK,
         \/ BeginMove \/ (\E j \in Jobs : PublishJob(j) \/ SortJob(j))
         \/ FinishSuccess \/ FinishFailed
  PROVE  TypeOK'
<1> USE DEF TypeOK, countVars, textVars, gateVars, outVars
<1>1. CASE BeginMove
  BY <1>1 DEF BeginMove, Begin
<1>2. ASSUME NEW j \in Jobs, PublishJob(j) PROVE TypeOK'
  BY <1>2 DEF PublishJob, Take, Status
<1>3. ASSUME NEW j \in Jobs, SortJob(j) PROVE TypeOK'
  <2>1. accepted' \in [Jobs -> Candidate] /\ rejected' \in [Jobs -> Candidate]
        /\ status' \in [Jobs -> Status]
    <3>1. CASE Passed(j)
      <4>1. /\ accepted' = [accepted EXCEPT ![j] = tuned[j]]
            /\ status' = [status EXCEPT ![j] = "SUCCESS"] /\ UNCHANGED rejected
        BY <1>3, <3>1 DEF SortJob
      <4>2. QED
        BY <4>1 DEF Status
    <3>2. CASE ~ Passed(j)
      <4>1. /\ rejected' = [rejected EXCEPT ![j] = tuned[j]]
            /\ status' = [status EXCEPT ![j] = "FAILED"] /\ UNCHANGED accepted
        BY <1>3, <3>2 DEF SortJob
      <4>2. QED
        BY <4>1 DEF Status
    <3>3. QED
      BY <3>1, <3>2
  <2>2. QED
    BY <1>3, <2>1 DEF SortJob, Take
<1>4. CASE FinishSuccess
  BY <1>4 DEF FinishSuccess, End, SuccessResult, Results, Ended
<1>5. CASE FinishFailed
  BY <1>5 DEF FinishFailed, End, Results, Ended
<1>6. QED
  BY <1>1, <1>2, <1>3, <1>4, <1>5

LEMMA NextType == TypeOK /\ [Next]_vars => TypeOK'
<1>1. ASSUME TypeOK, Next PROVE TypeOK'
  BY <1>1, TuneType, CritiqueType, EndCritiqueType, ValidateType, BenchmarkType,
     StepType, MoveType DEF Next, Step
<1>2. ASSUME TypeOK, UNCHANGED vars PROVE TypeOK'
  BY <1>2 DEF TypeOK, vars, ctlVars, countVars, textVars, gateVars, outVars
<1>3. QED
  BY <1>1, <1>2

(* Type correctness of every run.                                          *)
THEOREM TypeCorrect == Spec => []TypeOK
  BY InitType, NextType, PTL DEF Spec

-----------------------------------------------------------------------------
(* The inductive invariant.                                                *)
LEMMA InitIInv == Init => IInv
<1> SUFFICES ASSUME Init PROVE IInv
  OBVIOUS
<1>1. TypeOK
  BY InitType
<1>2. WorkInv /\ FrozenInv /\ CriticInv /\ OracleInv /\ SpeedInv /\ OutputInv
  BY DEF Init, WorkInv, FrozenInv, Frozen, CriticInv, OracleInv, SpeedInv,
         OutputInv, Deciding, Moving
<1>3. CountInv
  BY PipelineAssumption DEF Init, CountInv, Turns, BeforeTune, Deciding
<1>4. AcceptedPassedGates /\ RetriesExhausted
  BY PipelineAssumption DEF Init, AcceptedPassedGates, RetriesExhausted
<1>5. QED
  BY <1>1, <1>2, <1>3, <1>4 DEF IInv

(* What a step that leaves candidates and verdicts alone preserves.        *)
LEMMA SameData ==
  ASSUME UNCHANGED <<cfg, textVars, gateVars>>
  PROVE  \A j \in Jobs :
           /\ Passed(j)' <=> Passed(j)
           /\ CriticsFresh(j)' <=> CriticsFresh(j)
           /\ OracleFresh(j)' <=> OracleFresh(j)
           /\ SpeedFresh(j)' <=> SpeedFresh(j)
  BY DEF textVars, gateVars, Passed, JobError, CriticsFresh, CriticApproved,
         OracleFresh, SpeedFresh

LEMMA CountFacts ==
  ASSUME TypeOK
  PROVE  /\ tuning_round \in Nat /\ retry_count \in Nat /\ critic_retune_count \in Nat
         /\ MaxRetry \in Nat /\ CriticRetuneRounds \in Nat
         /\ retries \in [Jobs -> Nat]
  BY PipelineAssumption DEF TypeOK

(* Steps that move control only.                                           *)
LEMMA ControlStep ==
  ASSUME IInv, TypeOK',
         \/ CollectSql \/ CollectMetadata \/ BuildRag \/ AnalyzeSql
         \/ BeginTune \/ EndTune \/ BeginCritique \/ BeginValidate
         \/ EndValidate \/ BeginBenchmark \/ EndBenchmark
         \/ GiveUp \/ Raise \/ BeginMove
  PROVE  IInv'
<1> USE DEF IInv, Begin, End, Goto, Handlers
<1>1. UNCHANGED <<cfg, textVars, gateVars, outVars>>
  BY DEF CollectSql, CollectMetadata, BuildRag, AnalyzeSql, BeginTune, EndTune,
         BeginCritique, BeginValidate, EndValidate, BeginBenchmark, EndBenchmark,
         GiveUp, Raise, BeginMove
<1>2. \A j \in Jobs : /\ Passed(j)' <=> Passed(j)
                      /\ CriticsFresh(j)' <=> CriticsFresh(j)
                      /\ OracleFresh(j)' <=> OracleFresh(j)
                      /\ SpeedFresh(j)' <=> SpeedFresh(j)
  BY <1>1, SameData
<1>3. AcceptedPassedGates'
  BY <1>1 DEF AcceptedPassedGates, textVars, gateVars, outVars, JobError
<1>4. CASE CollectSql \/ CollectMetadata \/ BuildRag
  <2>1. WorkInv' /\ FrozenInv' /\ CriticInv' /\ OracleInv' /\ SpeedInv'
        /\ OutputInv'
    BY <1>1, <1>2, <1>4 DEF CollectSql, CollectMetadata, BuildRag, Goto, WorkInv, FrozenInv, Frozen,
      CriticInv, OracleInv, SpeedInv, OutputInv, Looping, Deciding, Moving,
      gateVars, outVars
  <2>2. CountInv' /\ RetriesExhausted'
    BY <1>1, <1>2, <1>4, CountFacts DEF CollectSql, CollectMetadata, BuildRag, Goto, CountInv,
      RetriesExhausted, Turns, BeforeTune, Looping, Deciding, Moving, outVars,
      countVars, Frozen
  <2>3. QED
    BY <1>3, <2>1, <2>2
<1>5. CASE AnalyzeSql
  <2> DEFINE Same(j) == Frozen(j)' <=> Frozen(j)
  <2>1. \A j \in Jobs : Same(j)
    BY <1>5 DEF AnalyzeSql, Frozen, Active
  <2>2. Active' = Active
    BY <2>1 DEF Active, Frozen
  <2> HIDE DEF Same
  <2>3. WorkInv'
    BY <1>5, <2>2 DEF AnalyzeSql, WorkInv
  <2>4. FrozenInv' /\ OutputInv'
    BY <1>1, <1>2, <1>5, <2>1 DEF AnalyzeSql, Same, FrozenInv, OutputInv, Looping,
      Moving, outVars
  <2>5. CriticInv' /\ OracleInv' /\ SpeedInv'
    BY <1>1, <1>2, <1>5, <2>2 DEF AnalyzeSql, CriticInv, OracleInv, SpeedInv, Deciding,
      gateVars, textVars
  <2>6. CountInv' /\ RetriesExhausted'
    BY <1>1, <1>2, <1>5, <2>1, CountFacts DEF AnalyzeSql, Same, CountInv, OutputInv,
      WorkInv, RetriesExhausted, Turns, BeforeTune, Looping, Deciding, Moving, outVars,
      countVars
  <2>7. QED
    BY <1>3, <2>3, <2>4, <2>5, <2>6
<1>6. CASE BeginTune
  <2>1. WorkInv' /\ FrozenInv' /\ OutputInv'
    BY <1>1, <1>2, <1>6 DEF BeginTune, Active, WorkInv, FrozenInv, Frozen, OutputInv,
      Looping, Deciding, Moving, outVars
  <2>2. CriticInv' /\ OracleInv' /\ SpeedInv'
    BY <1>1, <1>2, <1>6 DEF BeginTune, Active, CriticInv, OracleInv, SpeedInv,
      FrozenInv, Frozen, Deciding, gateVars, textVars
  <2>3. CountInv' /\ RetriesExhausted'
    BY <1>1, <1>2, <1>6, CountFacts DEF BeginTune, CountInv, RetriesExhausted,
      OutputInv, Turns, BeforeTune, Looping, Deciding, Moving, outVars, countVars,
      Frozen, Active
  <2>4. QED
    BY <1>3, <2>1, <2>2, <2>3
<1>7. CASE EndTune
  <2>1. WorkInv' /\ FrozenInv' /\ OutputInv'
    BY <1>1, <1>2, <1>7 DEF EndTune, Active, WorkInv, FrozenInv, Frozen, OutputInv,
      Looping, Deciding, Moving, outVars
  <2>2. CriticInv' /\ OracleInv' /\ SpeedInv'
    BY <1>1, <1>2, <1>7 DEF EndTune, Active, CriticInv, OracleInv, SpeedInv,
      FrozenInv, Frozen, Deciding, gateVars, textVars
  <2>3. CountInv' /\ RetriesExhausted'
    BY <1>1, <1>2, <1>7, CountFacts DEF EndTune, CountInv, RetriesExhausted,
      OutputInv, Turns, BeforeTune, Looping, Deciding, Moving, outVars, countVars,
      Frozen, Active
  <2>4. QED
    BY <1>3, <2>1, <2>2, <2>3
<1>8. CASE BeginCritique
  <2> DEFINE Same(j) == Frozen(j)' <=> Frozen(j)
  <2>1. \A j \in Jobs : Same(j)
    BY <1>8 DEF BeginCritique, Frozen, Active
  <2>2. Active' = Active
    BY <2>1 DEF Active, Frozen
  <2> HIDE DEF Same
  <2>3. WorkInv'
    BY <1>8, <2>2 DEF BeginCritique, WorkInv, TypeOK, Config
  <2>4. FrozenInv' /\ OutputInv'
    BY <1>1, <1>2, <1>8, <2>1 DEF BeginCritique, Same, FrozenInv, OutputInv, Looping,
      Moving, outVars
  <2>5. CriticInv' /\ OracleInv' /\ SpeedInv'
    BY <1>1, <1>2, <1>8, <2>2 DEF BeginCritique, CriticInv, OracleInv, SpeedInv, Deciding,
      gateVars, textVars
  <2>6. CountInv' /\ RetriesExhausted'
    BY <1>1, <1>2, <1>8, <2>1, CountFacts DEF BeginCritique, Same, CountInv, OutputInv,
      RetriesExhausted, Turns, BeforeTune, Looping, Deciding, Moving, outVars,
      countVars
  <2>7. QED
    BY <1>3, <2>3, <2>4, <2>5, <2>6
<1>9. CASE BeginValidate
  <2>1. WorkInv' /\ FrozenInv' /\ OutputInv'
    BY <1>1, <1>2, <1>9 DEF BeginValidate, Active, WorkInv, FrozenInv, Frozen, OutputInv,
      Looping, Deciding, Moving, outVars
  <2>2. CriticInv' /\ OracleInv' /\ SpeedInv'
    BY <1>1, <1>2, <1>9 DEF BeginValidate, Active, CriticInv, OracleInv, SpeedInv,
      FrozenInv, Frozen, Deciding, gateVars, textVars
  <2>3. CountInv' /\ RetriesExhausted'
    BY <1>1, <1>2, <1>9, CountFacts DEF BeginValidate, CountInv, RetriesExhausted,
      OutputInv, Turns, BeforeTune, Looping, Deciding, Moving, outVars, countVars,
      Frozen, Active
  <2>4. QED
    BY <1>3, <2>1, <2>2, <2>3
<1>10. CASE EndValidate
  <2>1. WorkInv' /\ FrozenInv' /\ OutputInv'
    BY <1>1, <1>2, <1>10 DEF EndValidate, Active, WorkInv, FrozenInv, Frozen, OutputInv,
      Looping, Deciding, Moving, outVars
  <2>2. CriticInv' /\ OracleInv' /\ SpeedInv'
    <3>1. \A j \in Jobs : OracleFresh(j)
      BY <1>10 DEF EndValidate, Active, OracleInv, OracleFresh, FrozenInv, Frozen
    <3>2. QED
      BY <1>1, <1>2, <1>10, <3>1 DEF EndValidate, CriticInv, OracleInv, SpeedInv,
        Deciding, gateVars, textVars
  <2>3. CountInv' /\ RetriesExhausted'
    BY <1>1, <1>2, <1>10, CountFacts DEF EndValidate, CountInv, RetriesExhausted,
      OutputInv, Turns, BeforeTune, Looping, Deciding, Moving, outVars, countVars,
      Frozen, Active
  <2>4. QED
    BY <1>3, <2>1, <2>2, <2>3
<1>11. CASE BeginBenchmark
  <2>1. WorkInv' /\ FrozenInv' /\ OutputInv'
    BY <1>1, <1>2, <1>11 DEF BeginBenchmark, Active, WorkInv, FrozenInv, Frozen, OutputInv,
      Looping, Deciding, Moving, outVars
  <2>2. CriticInv' /\ OracleInv' /\ SpeedInv'
    BY <1>1, <1>2, <1>11 DEF BeginBenchmark, Active, CriticInv, OracleInv, SpeedInv,
      FrozenInv, Frozen, Deciding, gateVars, textVars
  <2>3. CountInv' /\ RetriesExhausted'
    BY <1>1, <1>2, <1>11, CountFacts DEF BeginBenchmark, CountInv, RetriesExhausted,
      OutputInv, Turns, BeforeTune, Looping, Deciding, Moving, outVars, countVars,
      Frozen, Active
  <2>4. QED
    BY <1>3, <2>1, <2>2, <2>3
<1>12. CASE EndBenchmark
  <2>1. WorkInv' /\ FrozenInv' /\ OutputInv'
    BY <1>1, <1>2, <1>12 DEF EndBenchmark, Active, WorkInv, FrozenInv, Frozen, OutputInv,
      Looping, Deciding, Moving, outVars
  <2>2. CriticInv' /\ OracleInv' /\ SpeedInv'
    BY <1>1, <1>2, <1>12 DEF EndBenchmark, Active, CriticInv, OracleInv, SpeedInv,
      FrozenInv, Frozen, Deciding, gateVars, textVars
  <2>3. CountInv' /\ RetriesExhausted'
    BY <1>1, <1>2, <1>12, CountFacts DEF EndBenchmark, CountInv, RetriesExhausted,
      OutputInv, Turns, BeforeTune, Looping, Deciding, Moving, outVars, countVars,
      Frozen, Active
  <2>4. QED
    BY <1>3, <2>1, <2>2, <2>3
<1>13. CASE GiveUp
  <2>1. WorkInv' /\ FrozenInv' /\ OutputInv'
    BY <1>1, <1>2, <1>13 DEF GiveUp, Active, WorkInv, FrozenInv, Frozen, OutputInv,
      Looping, Deciding, Moving, outVars
  <2>2. CriticInv' /\ OracleInv' /\ SpeedInv'
    BY <1>1, <1>2, <1>13 DEF GiveUp, Active, CriticInv, OracleInv, SpeedInv,
      FrozenInv, Frozen, Deciding, gateVars, textVars
  <2>3. CountInv' /\ RetriesExhausted'
    BY <1>1, <1>2, <1>13, CountFacts DEF GiveUp, CountInv, RetriesExhausted,
      OutputInv, Turns, BeforeTune, Looping, Deciding, Moving, outVars, countVars,
      Frozen, Active
  <2>4. QED
    BY <1>3, <2>1, <2>2, <2>3
<1>14. CASE Raise
  <2>1. WorkInv' /\ FrozenInv' /\ OutputInv'
    BY <1>1, <1>2, <1>14 DEF Raise, Active, WorkInv, FrozenInv, Frozen, OutputInv,
      Looping, Deciding, Moving, outVars
  <2>2. CriticInv' /\ OracleInv' /\ SpeedInv'
    BY <1>1, <1>2, <1>14 DEF Raise, Active, CriticInv, OracleInv, SpeedInv,
      FrozenInv, Frozen, Deciding, gateVars, textVars
  <2>3. CountInv' /\ RetriesExhausted'
    BY <1>1, <1>2, <1>14, CountFacts DEF Raise, CountInv, RetriesExhausted,
      OutputInv, Turns, BeforeTune, Looping, Deciding, Moving, outVars, countVars,
      Frozen, Active
  <2>4. QED
    BY <1>3, <2>1, <2>2, <2>3
<1>15. CASE BeginMove
  <2>1. WorkInv' /\ FrozenInv' /\ OutputInv'
    BY <1>1, <1>2, <1>15 DEF BeginMove, Active, WorkInv, FrozenInv, Frozen, OutputInv,
      Looping, Deciding, Moving, outVars
  <2>2. CriticInv' /\ OracleInv' /\ SpeedInv'
    BY <1>1, <1>2, <1>15 DEF BeginMove, Active, CriticInv, OracleInv, SpeedInv,
      FrozenInv, Frozen, Deciding, gateVars, textVars
  <2>3. CountInv' /\ RetriesExhausted'
    BY <1>1, <1>2, <1>15, CountFacts DEF BeginMove, CountInv, RetriesExhausted,
      OutputInv, Turns, BeforeTune, Looping, Deciding, Moving, outVars, countVars,
      Frozen, Active
  <2>4. QED
    BY <1>3, <2>1, <2>2, <2>3
<1>16. QED
  BY <1>4, <1>5, <1>6, <1>7, <1>8, <1>9, <1>10, <1>11, <1>12, <1>13, <1>14, <1>15

(* Steps of the final phase, and the decision that leads to it.            *)
LEMMA VerifyStep == ASSUME IInv, TypeOK', Verify PROVE IInv'
<1> USE DEF IInv, Goto
<1>1. /\ UNCHANGED <<cfg, open, queue, calls, countVars, retries, textVars,
                     gateVars, outVars>>
      /\ phase = "VERIFY"
      /\ \A j \in Jobs : Frozen(j)'
  BY DEF Verify, Frozen
<1>2. \A j \in Jobs : /\ Passed(j)' <=> Passed(j)
                      /\ CriticsFresh(j)' <=> CriticsFresh(j)
                      /\ OracleFresh(j)' <=> OracleFresh(j)
                      /\ SpeedFresh(j)' <=> SpeedFresh(j)
  BY <1>1, SameData
<1>3. \A j \in Jobs : CriticsFresh(j) /\ OracleFresh(j) /\ SpeedFresh(j)
  BY <1>1 DEF CriticInv, OracleInv, SpeedInv
<1>4. phase' \in {"SUCCESS", "REANALYZE"}
      /\ (phase' = "SUCCESS" => \A j \in Jobs : Passed(j))
  BY DEF Verify
<1>5. AcceptedPassedGates'
  BY <1>1 DEF AcceptedPassedGates, textVars, gateVars, outVars, JobError
<1>6. WorkInv' /\ FrozenInv' /\ OutputInv'
  BY <1>1, <1>2, <1>3, <1>4 DEF WorkInv, Handlers, FrozenInv, OutputInv,
     Looping, Moving, outVars
<1>7. CriticInv' /\ OracleInv' /\ SpeedInv'
  BY <1>1, <1>2, <1>3, <1>4 DEF CriticInv, OracleInv, SpeedInv, gateVars
<1>8. CountInv'
  <2>1. \A j \in Jobs : ~ Passed(j) => retries[j] = Turns
    BY <1>1 DEF FrozenInv, CountInv, Looping
  <2>2. QED
    BY <1>1, <1>2, <1>4, <2>1 DEF CountInv, Turns, BeforeTune, Looping, countVars
<1>9. RetriesExhausted'
  BY <1>1 DEF RetriesExhausted, countVars, outVars
<1>10. QED
  BY <1>5, <1>6, <1>7, <1>8, <1>9

LEMMA RetryStep == ASSUME IInv, TypeOK', RetryJobs PROVE IInv'
<1> USE DEF IInv, Goto
<1>1. /\ UNCHANGED <<cfg, open, queue, calls, tuning_round, critic_retune_count,
                     textVars, gateVars, outVars>>
      /\ phase = "REANALYZE" /\ phase' = "ANALYZE"
      /\ retry_count' = retry_count + 1 /\ retry_count < MaxRetry
  BY DEF RetryJobs
<1>2. \A j \in Jobs : /\ Passed(j)' <=> Passed(j)
                      /\ CriticsFresh(j)' <=> CriticsFresh(j)
                      /\ OracleFresh(j)' <=> OracleFresh(j)
                      /\ SpeedFresh(j)' <=> SpeedFresh(j)
  BY <1>1, SameData
<1>3. \A j \in Jobs : Frozen(j)' <=> Passed(j)
  BY <1>1 DEF RetryJobs, Frozen, FrozenInv
<1>4. \A j \in Jobs : CriticsFresh(j) /\ OracleFresh(j) /\ SpeedFresh(j)
  BY <1>1 DEF CriticInv, OracleInv, SpeedInv, Deciding
<1>5. AcceptedPassedGates'
  BY <1>1 DEF AcceptedPassedGates, textVars, gateVars, outVars, JobError
<1>6. WorkInv' /\ FrozenInv' /\ OutputInv'
  BY <1>1, <1>2, <1>3, <1>4 DEF WorkInv, Handlers, FrozenInv, OutputInv,
     Looping, Moving, outVars
<1>7. CriticInv' /\ OracleInv' /\ SpeedInv'
  BY <1>1, <1>2, <1>4 DEF CriticInv, OracleInv, SpeedInv, Deciding, gateVars
<1>8. CountInv' /\ RetriesExhausted'
  <2>1. /\ Turns' = Turns + 1 /\ tuning_round = Turns + 1
        /\ retry_count + 1 <= MaxRetry
    BY <1>1, CountFacts DEF CountInv, Turns, BeforeTune
  <2>2. \A j \in Jobs : ~ Passed(j) => retries'[j] = Turns'
    BY <1>1, <2>1, CountFacts DEF RetryJobs, CountInv, Deciding
  <2>3. CountInv'
    BY <1>1, <1>3, <2>1, <2>2, CountFacts
       DEF CountInv, BeforeTune, Looping, Deciding, countVars
  <2>4. RetriesExhausted'
    BY <1>1 DEF RetriesExhausted, OutputInv, Moving, outVars
  <2>5. QED
    BY <2>3, <2>4
<1>9. QED
  BY <1>5, <1>6, <1>7, <1>8

(* The review note and the summary are not read again.                     *)
LEMMA ReportStep ==
  ASSUME IInv, TypeOK', NotifyUser \/ FinishSuccess \/ FinishFailed
  PROVE  IInv'
<1> USE DEF IInv, Goto, End
<1>1. /\ UNCHANGED <<cfg, queue, calls, countVars, status, retries, textVars,
                     gateVars, accepted, rejected>>
      /\ \/ phase = "WAIT_USER" /\ phase' = "FAILED" /\ UNCHANGED open
         \/ phase \in {"SUCCESS", "FAILED"} /\ phase' = "DONE" /\ open' = FALSE
  BY DEF NotifyUser, FinishSuccess, FinishFailed
<1>2. \A j \in Jobs : /\ Passed(j)' <=> Passed(j)
                      /\ CriticsFresh(j)' <=> CriticsFresh(j)
                      /\ OracleFresh(j)' <=> OracleFresh(j)
                      /\ SpeedFresh(j)' <=> SpeedFresh(j)
                      /\ Frozen(j)' <=> Frozen(j)
  BY <1>1, SameData DEF Frozen
<1>3. AcceptedPassedGates'
  BY <1>1 DEF AcceptedPassedGates, textVars, gateVars, JobError
<1>4. WorkInv' /\ FrozenInv' /\ OutputInv'
  BY <1>1, <1>2 DEF WorkInv, Handlers, FrozenInv, OutputInv, Looping, Moving
<1>5. CriticInv' /\ OracleInv' /\ SpeedInv'
  BY <1>1, <1>2 DEF CriticInv, OracleInv, SpeedInv, Deciding, gateVars
<1>6. CountInv' /\ RetriesExhausted'
  BY <1>1, <1>2 DEF CountInv, Turns, BeforeTune, Looping, Deciding,
     RetriesExhausted, countVars
<1>7. QED
  BY <1>3, <1>4, <1>5, <1>6

(* A job that passes now was validated, reviewed and measured as it is.    *)
LEMMA PassedIsFresh ==
  ASSUME TypeOK, NEW j \in Jobs, Passed(j),
         CriticsFresh(j), OracleFresh(j), SpeedFresh(j)
  PROVE  /\ ~ JobError(j)
         /\ cfg.require_critic_approval =>
              /\ cfg.critics # {}
              /\ \A c \in cfg.critics :
                   critiques[j][c] = [ok |-> TRUE, on |-> tuned[j]]
         /\ cfg.require_oracle_validation =>
              /\ validated[j] = tuned[j]
              /\ benchmark[j].oracle_validation_passed = "pass"
         /\ cfg.execute_benchmark =>
              measured[j] = tuned[j] /\ benchmark[j].improved = "pass"
<1>1. ASSUME cfg.require_critic_approval
      PROVE  /\ cfg.critics # {}
             /\ \A c \in cfg.critics :
                  critiques[j][c] = [ok |-> TRUE, on |-> tuned[j]]
  <2>1. benchmark[j].critic_approved = "pass"
    BY <1>1 DEF Passed
  <2>2. cfg.critics # {} /\ CriticApproved(j)
        /\ \A c \in cfg.critics : critiques[j][c].on = tuned[j]
    BY <2>1 DEF CriticsFresh, VerdictOf
  <2>3. \A c \in cfg.critics : critiques[j][c] \in [ok : BOOLEAN, on : Candidate]
    BY DEF TypeOK, Config
  <2>4. QED
    BY <2>2, <2>3 DEF CriticApproved
<1>2. QED
  BY <1>1 DEF Passed, OracleFresh, SpeedFresh

LEMMA PublishStep ==
  ASSUME IInv, TypeOK', NEW k \in Jobs, PublishJob(k) \/ SortJob(k)
  PROVE  IInv'
<1> USE DEF IInv, Take
<1>1. /\ UNCHANGED <<cfg, phase, open, calls, countVars, retries, textVars,
                     gateVars>>
      /\ phase \in {"SUCCESS", "FAILED"}
      /\ \A j \in Jobs : status'[j] = "VERIFYING" => status[j] = "VERIFYING"
  <2>1. CASE PublishJob(k)
    BY <2>1 DEF PublishJob, TypeOK
  <2>2. CASE SortJob(k)
    <3>1. status' = [status EXCEPT ![k] = "SUCCESS"]
          \/ status' = [status EXCEPT ![k] = "FAILED"]
      BY <2>2 DEF SortJob
    <3>2. QED
      BY <2>2, <3>1 DEF SortJob, TypeOK
  <2>3. QED
    BY <2>1, <2>2
<1>2. \A j \in Jobs : /\ Passed(j)' <=> Passed(j)
                      /\ CriticsFresh(j)' <=> CriticsFresh(j)
                      /\ OracleFresh(j)' <=> OracleFresh(j)
                      /\ SpeedFresh(j)' <=> SpeedFresh(j)
                      /\ Frozen(j)' => Frozen(j)
  BY <1>1, SameData DEF Frozen
<1>3. \A j \in Jobs : CriticsFresh(j) /\ OracleFresh(j) /\ SpeedFresh(j)
  BY <1>1 DEF CriticInv, OracleInv, SpeedInv, Deciding
<1>4. \/ /\ Passed(k) /\ accepted' = [accepted EXCEPT ![k] = tuned[k]]
         /\ UNCHANGED rejected
      \/ /\ ~ Passed(k) /\ phase = "FAILED"
         /\ rejected' = [rejected EXCEPT ![k] = tuned[k]]
         /\ UNCHANGED accepted
  BY DEF PublishJob, SortJob, OutputInv
<1>5. AcceptedPassedGates'
  <2> SUFFICES ASSUME NEW j \in Jobs, accepted'[j] # None
               PROVE  /\ accepted'[j] = tuned[j] /\ ~ JobError(j)
                      /\ cfg.require_critic_approval =>
                           /\ cfg.critics # {}
                           /\ \A c \in cfg.critics :
                                critiques[j][c] = [ok |-> TRUE, on |-> accepted'[j]]
                      /\ cfg.require_oracle_validation =>
                           /\ validated[j] = accepted'[j]
                           /\ benchmark[j].oracle_validation_passed = "pass"
                      /\ cfg.execute_benchmark =>
                           measured[j] = accepted'[j] /\ benchmark[j].improved = "pass"
    BY <1>1 DEF AcceptedPassedGates, gateVars, textVars, JobError
  <2>1. CASE accepted'[j] = accepted[j]
    BY <2>1 DEF AcceptedPassedGates
  <2>2. CASE accepted'[j] # accepted[j]
    <3>1. j = k /\ Passed(k) /\ accepted'[j] = tuned[j]
      BY <1>4, <2>2 DEF TypeOK
    <3>2. QED
      BY <1>3, <3>1, PassedIsFresh
  <2>3. QED
    BY <2>1, <2>2
<1>6. WorkInv' /\ FrozenInv' /\ OutputInv'
  BY <1>1, <1>2 DEF WorkInv, Handlers, FrozenInv, OutputInv, Looping, Moving
<1>7. CriticInv' /\ OracleInv' /\ SpeedInv'
  BY <1>1, <1>2, <1>3 DEF CriticInv, OracleInv, SpeedInv, Deciding, gateVars
<1>8. CountInv'
  BY <1>1, <1>2 DEF CountInv, Turns, BeforeTune, Looping, Deciding, countVars
<1>9. RetriesExhausted'
  <2>1. tuning_round = Turns + 1 /\ tuning_round <= 1 + MaxRetry + CriticRetuneRounds
    BY <1>1 DEF CountInv, RetriesExhausted, BeforeTune
  <2>2. ASSUME NEW j \in Jobs, rejected'[j] # None
        PROVE  retries[j] = MaxRetry + critic_retune_count
               /\ tuning_round = retries[j] + 1
    <3>1. CASE rejected'[j] = rejected[j]
      BY <2>2, <3>1 DEF RetriesExhausted
    <3>2. CASE rejected'[j] # rejected[j]
      <4>1. j = k /\ ~ Passed(k) /\ phase = "FAILED"
        BY <1>4, <3>2 DEF TypeOK
      <4>2. QED
        BY <2>1, <4>1 DEF CountInv, Turns, Deciding
    <3>3. QED
      BY <3>1, <3>2
  <2>3. QED
    BY <1>1, <2>1, <2>2 DEF RetriesExhausted, countVars
<1>10. QED
  BY <1>5, <1>6, <1>7, <1>8, <1>9

-----------------------------------------------------------------------------
(* The handlers that touch one job at a time leave the others as they are. *)
LEMMA OtherJob ==
  ASSUME NEW j \in Jobs, cfg' = cfg,
         tuned'[j] = tuned[j], writer'[j] = writer[j],
         critiques'[j] = critiques[j], benchmark'[j] = benchmark[j],
         validated'[j] = validated[j], measured'[j] = measured[j]
  PROVE  /\ Passed(j)' <=> Passed(j)
         /\ CriticsFresh(j)' <=> CriticsFresh(j)
         /\ OracleFresh(j)' <=> OracleFresh(j)
         /\ SpeedFresh(j)' <=> SpeedFresh(j)
  BY DEF Passed, JobError, CriticsFresh, CriticApproved, OracleFresh, SpeedFresh

(* Inside the loop nothing is published, and the counters say how often    *)
(* every unfrozen job was tried.                                           *)
LEMMA LoopStep ==
  ASSUME IInv, phase \in Looping, phase' = phase, open' = open,
         UNCHANGED <<countVars, retries, outVars>>,
         \A j \in Jobs : ~ Frozen(j)' => ~ Frozen(j)
  PROVE  OutputInv' /\ CountInv' /\ AcceptedPassedGates' /\ RetriesExhausted'
<1> USE DEF IInv
<1>1. \A j \in Jobs : accepted[j] = None /\ rejected[j] = None
  BY DEF OutputInv, Looping, Moving
<1>2. OutputInv' /\ AcceptedPassedGates'
  BY <1>1 DEF OutputInv, AcceptedPassedGates, outVars, Looping, Moving
<1>3. CountInv' /\ RetriesExhausted'
  BY <1>1 DEF CountInv, RetriesExhausted, Turns, BeforeTune, Looping, Deciding,
     countVars, outVars
<1>4. QED
  BY <1>2, <1>3

LEMMA TuneStep ==
  ASSUME IInv, TypeOK', NEW k \in Jobs, TuneJob(k) PROVE IInv'
<1> USE DEF IInv, Take
<1>1. /\ UNCHANGED <<cfg, phase, open, calls, countVars, retries, gateVars, outVars>>
      /\ phase = "TUNE" /\ open /\ k \in queue /\ queue' = queue \ {k}
      /\ status' = [status EXCEPT ![k] = "TUNING"]
  BY DEF TuneJob, First
<1>2. \A j \in Jobs \ {k} : tuned'[j] = tuned[j] /\ writer'[j] = writer[j]
  BY DEF TuneJob, TypeOK
<1>3. k \in Active /\ ~ Frozen(k)' /\ ~ Frozen(k)
  BY <1>1 DEF WorkInv, Active, Frozen, TypeOK
<1>4. \A j \in Jobs : Frozen(j)' <=> Frozen(j)
  BY <1>1, <1>3 DEF Frozen, TypeOK
<1>5. \A j \in Jobs \ {k} : /\ Passed(j)' <=> Passed(j)
                            /\ CriticsFresh(j)' <=> CriticsFresh(j)
                            /\ OracleFresh(j)' <=> OracleFresh(j)
                            /\ SpeedFresh(j)' <=> SpeedFresh(j)
  BY <1>1, <1>2, OtherJob DEF gateVars
<1>6. Active' = Active
  BY <1>4 DEF Active, Frozen
<1>7. WorkInv' /\ FrozenInv'
  BY <1>1, <1>3, <1>4, <1>5, <1>6 DEF WorkInv, FrozenInv
<1>8. CriticInv' /\ OracleInv' /\ SpeedInv'
  BY <1>1 DEF CriticInv, OracleInv, SpeedInv, Deciding, gateVars
<1>9. QED
  BY <1>1, <1>4, <1>7, <1>8, LoopStep DEF Looping

LEMMA CritiqueStep ==
  ASSUME IInv, TypeOK', NEW c \in Critics, NEW k \in Jobs, CritiqueJob(c, k)
  PROVE  IInv'
<1> USE DEF IInv
<1>1. /\ UNCHANGED <<cfg, phase, open, queue, countVars, status, retries, textVars,
                     benchmark, validated, measured, feedback, outVars>>
      /\ phase = "CRITIQUE" /\ open /\ <<c, k>> \in calls
      /\ calls' = calls \ {<<c, k>>}
  BY DEF CritiqueJob, FirstCall
<1>2. PICK ok \in BOOLEAN :
        critiques' = [critiques EXCEPT ![k][c] = [ok |-> ok, on |-> tuned[k]]]
  BY DEF CritiqueJob
<1>3. k \in Active /\ ~ Frozen(k)
  BY <1>1 DEF WorkInv, Active, Frozen
<1>4. \A j \in Jobs : Frozen(j)' <=> Frozen(j)
  BY <1>1 DEF Frozen
<1>5. /\ \A j \in Jobs \ {k} : critiques'[j] = critiques[j]
      /\ \A d \in Critics \ {c} : critiques'[k][d] = critiques[k][d]
      /\ critiques'[k][c].on = tuned[k]
  BY <1>2 DEF TypeOK
<1>6. \A j \in Jobs \ {k} : /\ Passed(j)' <=> Passed(j)
                            /\ CriticsFresh(j)' <=> CriticsFresh(j)
                            /\ OracleFresh(j)' <=> OracleFresh(j)
                            /\ SpeedFresh(j)' <=> SpeedFresh(j)
  BY <1>1, <1>5, OtherJob DEF textVars
<1>7. Active' = Active
  BY <1>1 DEF Active
<1>8. WorkInv' /\ FrozenInv'
  BY <1>1, <1>3, <1>4, <1>6, <1>7 DEF WorkInv, FrozenInv
<1>9. CriticInv'
  <2>1. ASSUME NEW j \in Active, NEW d \in cfg.critics, <<d, j>> \notin calls'
        PROVE  critiques'[j][d].on = tuned[j]
    <3>1. d \in Critics /\ j \in Jobs
      BY DEF TypeOK, Config, Active
    <3>2. CASE <<d, j>> = <<c, k>>
      BY <1>5, <3>2
    <3>3. CASE <<d, j>> # <<c, k>>
      <4>1. critiques'[j][d] = critiques[j][d]
        BY <1>5, <3>1, <3>3
      <4>2. QED
        BY <1>1, <2>1, <3>3, <4>1 DEF CriticInv
    <3>4. QED
      BY <3>2, <3>3
  <2>2. QED
    BY <1>1, <1>7, <2>1 DEF CriticInv, Deciding, textVars
<1>10. OracleInv' /\ SpeedInv'
  BY <1>1 DEF OracleInv, SpeedInv, Deciding, textVars
<1>11. QED
  BY <1>1, <1>4, <1>8, <1>9, <1>10, LoopStep DEF Looping

LEMMA ValidateStep ==
  ASSUME IInv, TypeOK', NEW k \in Jobs, ValidateJob(k) PROVE IInv'
<1> USE DEF IInv, Take
<1>1. /\ UNCHANGED <<cfg, phase, open, calls, countVars, retries, textVars,
                     critiques, measured, outVars>>
      /\ phase = "VALIDATE_ORACLE" /\ open /\ k \in queue /\ queue' = queue \ {k}
      /\ status' = [status EXCEPT ![k] = "VALIDATING"]
      /\ validated' = [validated EXCEPT ![k] = tuned[k]]
  BY DEF ValidateJob, First
<1>2. PICK ok \in BOOLEAN : benchmark' = [benchmark EXCEPT ![k] = OracleVerdict(k, ok)]
  BY DEF ValidateJob
<1>3. k \in Active /\ ~ Frozen(k)' /\ ~ Frozen(k)
  BY <1>1 DEF WorkInv, Active, Frozen, TypeOK
<1>4. \A j \in Jobs : Frozen(j)' <=> Frozen(j)
  BY <1>1, <1>3 DEF Frozen, TypeOK
<1>5. /\ \A j \in Jobs \ {k} : /\ benchmark'[j] = benchmark[j]
                               /\ validated'[j] = validated[j]
      /\ validated'[k] = tuned[k]
      /\ benchmark'[k].critic_approved = benchmark[k].critic_approved
  BY <1>1, <1>2 DEF TypeOK, OracleVerdict, Report
<1>6. \A j \in Jobs \ {k} : /\ Passed(j)' <=> Passed(j)
                            /\ CriticsFresh(j)' <=> CriticsFresh(j)
                            /\ OracleFresh(j)' <=> OracleFresh(j)
                            /\ SpeedFresh(j)' <=> SpeedFresh(j)
  BY <1>1, <1>5, OtherJob DEF textVars
<1>7. (CriticsFresh(k)' <=> CriticsFresh(k)) /\ OracleFresh(k)'
  BY <1>1, <1>5 DEF CriticsFresh, CriticApproved, OracleFresh, textVars
<1>8. Active' = Active
  BY <1>4 DEF Active, Frozen
<1>9. WorkInv' /\ FrozenInv'
  BY <1>1, <1>3, <1>4, <1>6, <1>8 DEF WorkInv, FrozenInv
<1>10. CriticInv'
  <2>1. \A j \in Jobs : CriticsFresh(j)'
    BY <1>1, <1>6, <1>7 DEF CriticInv
  <2>2. QED
    BY <1>1, <1>5, <2>1 DEF CriticInv, Deciding
<1>11. OracleInv'
  <2>1. cfg.oracle_validate
    BY <1>1 DEF WorkInv
  <2>2. QED
    BY <1>1, <1>6, <1>7, <1>8, <2>1 DEF OracleInv, Deciding, Active
<1>12. SpeedInv'
  BY <1>1 DEF SpeedInv, Deciding
<1>13. QED
  BY <1>1, <1>4, <1>9, <1>10, <1>11, <1>12, LoopStep DEF Looping

LEMMA BenchmarkStep ==
  ASSUME IInv, TypeOK', NEW k \in Jobs, BenchmarkJob(k) PROVE IInv'
<1> USE DEF IInv, Take
<1>1. /\ UNCHANGED <<cfg, phase, open, calls, countVars, retries, textVars,
                     critiques, validated, feedback, outVars>>
      /\ phase = "BENCHMARK" /\ open /\ k \in queue /\ queue' = queue \ {k}
      /\ status' = [status EXCEPT ![k] = "BENCHMARKING"]
      /\ measured' = [measured EXCEPT ![k] = tuned[k]]
  BY DEF BenchmarkJob, First
<1>2. PICK speed : benchmark' = [benchmark EXCEPT ![k] = BenchmarkReport(k, speed)]
  BY DEF BenchmarkJob
<1>3. k \in Active /\ ~ Frozen(k)' /\ ~ Frozen(k)
  BY <1>1 DEF WorkInv, Active, Frozen, TypeOK
<1>4. \A j \in Jobs : Frozen(j)' <=> Frozen(j)
  BY <1>1, <1>3 DEF Frozen, TypeOK
<1>5. /\ \A j \in Jobs \ {k} : /\ benchmark'[j] = benchmark[j]
                               /\ measured'[j] = measured[j]
      /\ measured'[k] = tuned[k]
      /\ benchmark'[k].critic_approved = benchmark[k].critic_approved
      /\ benchmark'[k].oracle_validation_passed
           = benchmark[k].oracle_validation_passed
  BY <1>1, <1>2 DEF TypeOK, BenchmarkReport, Report
<1>6. \A j \in Jobs \ {k} : /\ Passed(j)' <=> Passed(j)
                            /\ CriticsFresh(j)' <=> CriticsFresh(j)
                            /\ OracleFresh(j)' <=> OracleFresh(j)
                            /\ SpeedFresh(j)' <=> SpeedFresh(j)
  BY <1>1, <1>5, OtherJob DEF textVars
<1>7. /\ CriticsFresh(k)' <=> CriticsFresh(k)
      /\ OracleFresh(k)' <=> OracleFresh(k)
      /\ SpeedFresh(k)'
  BY <1>1, <1>5 DEF CriticsFresh, CriticApproved, OracleFresh, SpeedFresh, textVars
<1>8. Active' = Active
  BY <1>4 DEF Active, Frozen
<1>9. WorkInv' /\ FrozenInv'
  BY <1>1, <1>3, <1>4, <1>6, <1>8 DEF WorkInv, FrozenInv
<1>10. CriticInv' /\ OracleInv'
  <2>1. \A j \in Jobs : CriticsFresh(j)' /\ OracleFresh(j)'
    BY <1>1, <1>6, <1>7 DEF CriticInv, OracleInv
  <2>2. QED
    BY <1>1, <1>5, <2>1 DEF CriticInv, OracleInv, Deciding
<1>11. SpeedInv'
  BY <1>1, <1>6, <1>7, <1>8 DEF SpeedInv, Deciding, Active
<1>12. QED
  BY <1>1, <1>4, <1>9, <1>10, <1>11, LoopStep DEF Looping

(* The critics' verdict is about the candidate they saw, whether or not a  *)
(* new round follows.                                                      *)
LEMMA EndCritiqueStep == ASSUME IInv, TypeOK', EndCritique PROVE IInv'
<1> USE DEF IInv, End
<1>1. /\ UNCHANGED <<cfg, queue, calls, tuning_round, retry_count, textVars,
                     critiques, validated, measured, outVars>>
      /\ phase = "CRITIQUE" /\ open /\ calls = {} /\ open' = FALSE
      /\ phase' = IF ShouldRetune THEN "ANALYZE" ELSE "VALIDATE_ORACLE"
  BY DEF EndCritique
<1>2. \A j \in Jobs : Frozen(j)' <=> Frozen(j)
  <2>1. CASE ShouldRetune
    <3>1. status' = [j \in Jobs |-> IF j \in Active THEN "RETRY" ELSE status[j]]
      BY <2>1 DEF EndCritique
    <3>2. QED
      BY <3>1 DEF Frozen, Active
  <2>2. CASE ~ ShouldRetune
    BY <2>2 DEF EndCritique, Frozen
  <2>3. QED
    BY <2>1, <2>2
<1>3. \A j \in Jobs : Frozen(j) => benchmark'[j] = benchmark[j]
  BY DEF EndCritique, Frozen, Active
<1>4. \A j \in Jobs : Frozen(j) => /\ Passed(j)' <=> Passed(j)
                                   /\ CriticsFresh(j)' <=> CriticsFresh(j)
                                   /\ OracleFresh(j)' <=> OracleFresh(j)
                                   /\ SpeedFresh(j)' <=> SpeedFresh(j)
  BY <1>1, <1>3, OtherJob DEF textVars
<1>5. \A j \in Jobs : benchmark'[j].oracle_validation_passed
                        = benchmark[j].oracle_validation_passed
  <2> TAKE j \in Jobs
  <2>1. benchmark[j] \in Report
    BY DEF TypeOK
  <2>2. benchmark'[j] \in {benchmark[j], CritiqueVerdict(j)}
    BY DEF EndCritique
  <2>3. CritiqueVerdict(j).oracle_validation_passed
          = benchmark[j].oracle_validation_passed
    BY <2>1 DEF CritiqueVerdict, Report
  <2>4. QED
    BY <2>2, <2>3
<1>6. cfg.critics = {} => \A j \in Jobs : benchmark'[j] = benchmark[j]
  BY DEF EndCritique
<1>7. ASSUME NEW j \in Jobs PROVE CriticsFresh(j)'
  <2>1. CASE Frozen(j)
    BY <1>4, <2>1 DEF FrozenInv
  <2>2. CASE cfg.critics = {}
    BY <1>1, <1>6, <2>2 DEF CriticInv, CriticsFresh
  <2>3. CASE ~ Frozen(j) /\ cfg.critics # {}
    <3>1. j \in Active
      BY <2>3 DEF Frozen, Active
    <3>2. benchmark'[j] = CritiqueVerdict(j)
      BY <2>3, <3>1 DEF EndCritique
    <3>3. benchmark'[j].critic_approved = VerdictOf(CriticApproved(j))
      BY <3>2 DEF CritiqueVerdict, TypeOK, Report
    <3>4. \A c \in cfg.critics : critiques[j][c].on = tuned[j]
      BY <1>1, <3>1 DEF CriticInv
    <3>5. QED
      BY <1>1, <2>3, <3>3, <3>4 DEF CriticsFresh, CriticApproved, textVars
  <2>4. QED
    BY <2>1, <2>2, <2>3
<1>8. WorkInv' /\ FrozenInv' /\ OutputInv'
  BY <1>1, <1>2, <1>4 DEF WorkInv, FrozenInv, OutputInv, Looping, Moving, outVars
<1>9. CriticInv' /\ OracleInv' /\ SpeedInv'
  <2>1. CriticInv'
    BY <1>1, <1>6, <1>7 DEF CriticInv, Deciding
  <2>2. OracleInv' /\ SpeedInv'
    BY <1>1, <1>5 DEF OracleInv, SpeedInv, Deciding
  <2>3. QED
    BY <2>1, <2>2
<1>10. AcceptedPassedGates' /\ RetriesExhausted'
  BY <1>1 DEF OutputInv, Moving, AcceptedPassedGates, RetriesExhausted, outVars
<1>11. CountInv'
  <2>1. tuning_round = Turns + 1
    BY <1>1 DEF CountInv, BeforeTune
  <2>2. CASE ShouldRetune
    <3>1. /\ critic_retune_count' = critic_retune_count + 1
          /\ critic_retune_count < CriticRetuneRounds
          /\ retries' = [j \in Jobs |-> IF j \in Active THEN retries[j] + 1
                                        ELSE retries[j]]
      BY <2>2 DEF EndCritique, ShouldRetune
    <3>2. Turns' = Turns + 1
      BY <1>1, <3>1, CountFacts DEF Turns
    <3>3. \A j \in Jobs : ~ Frozen(j)' => retries'[j] = Turns'
      BY <1>1, <1>2, <3>1, <3>2, CountFacts DEF CountInv, Looping, Frozen, Active
    <3>4. QED
      BY <1>1, <2>1, <2>2, <3>1, <3>2, <3>3, CountFacts
         DEF CountInv, BeforeTune, Looping, Deciding
  <2>3. CASE ~ ShouldRetune
    <3>1. UNCHANGED <<critic_retune_count, retries>>
      BY <2>3 DEF EndCritique
    <3>2. QED
      BY <1>1, <1>2, <2>1, <2>3, <3>1
         DEF CountInv, Turns, BeforeTune, Looping, Deciding
  <2>4. QED
    BY <2>2, <2>3
<1>12. QED
  BY <1>8, <1>9, <1>10, <1>11

-----------------------------------------------------------------------------
LEMMA Stutter == ASSUME IInv, UNCHANGED vars PROVE IInv'
<1> USE DEF IInv
<1>1. UNCHANGED <<cfg, phase, open, queue, calls, countVars, status, retries,
                  textVars, gateVars, outVars>>
  BY DEF vars, ctlVars
<1>2. \A j \in Jobs : /\ Passed(j)' <=> Passed(j)
                      /\ CriticsFresh(j)' <=> CriticsFresh(j)
                      /\ OracleFresh(j)' <=> OracleFresh(j)
                      /\ SpeedFresh(j)' <=> SpeedFresh(j)
                      /\ Frozen(j)' <=> Frozen(j)
  BY <1>1, SameData DEF Frozen
<1>3. /\ Active' = Active /\ Active \subseteq Jobs
      /\ Turns' = Turns /\ (BeforeTune' <=> BeforeTune)
  BY <1>1 DEF Active, Turns, BeforeTune, countVars
<1>4. TypeOK'
  BY <1>1 DEF TypeOK, countVars, textVars, gateVars, outVars
<1>5. WorkInv' /\ FrozenInv' /\ OutputInv'
  BY <1>1, <1>2, <1>3 DEF WorkInv, FrozenInv, OutputInv, outVars
<1>6. CriticInv' /\ OracleInv' /\ SpeedInv'
  <2>1. UNCHANGED <<cfg, phase, open, queue, calls, tuned, critiques, benchmark>>
    BY <1>1 DEF gateVars, textVars
  <2>2. CriticInv'
    BY <1>2, <1>3, <2>1 DEF CriticInv, Deciding
  <2>3. OracleInv'
    BY <1>2, <1>3, <2>1 DEF OracleInv, Deciding
  <2>4. SpeedInv'
    BY <1>2, <1>3, <2>1 DEF SpeedInv, Deciding
  <2>5. QED
    BY <2>2, <2>3, <2>4
<1>7. CountInv' /\ RetriesExhausted'
  BY <1>1, <1>2, <1>3 DEF CountInv, RetriesExhausted, countVars, outVars
<1>8. AcceptedPassedGates'
  BY <1>1 DEF AcceptedPassedGates, textVars, gateVars, outVars, JobError
<1>9. QED
  BY <1>4, <1>5, <1>6, <1>7, <1>8

LEMMA NextIInv == IInv /\ [Next]_vars => IInv'
<1>1. ASSUME IInv, Next PROVE IInv'
  <2>1. TypeOK'
    BY <1>1, NextType DEF IInv
  <2>2. QED
    BY <1>1, <2>1, ControlStep, TuneStep, CritiqueStep, EndCritiqueStep,
       ValidateStep, BenchmarkStep, VerifyStep, RetryStep, ReportStep, PublishStep,
       Stutter DEF Next, Step, Stop
<1>2. QED
  BY <1>1, Stutter

(* The invariant holds in every reachable state.                           *)
THEOREM Invariance == Spec => []IInv
  BY InitIInv, NextIInv, PTL DEF Spec

(* What the success directory holds passed every required gate as it is.   *)
THEOREM AcceptedSound == Spec => []AcceptedPassedGates
<1>1. IInv => AcceptedPassedGates
  BY DEF IInv
<1>2. QED
  BY <1>1, Invariance, PTL

(* The rounds are bounded, and no job is rejected before its last one.     *)
THEOREM RetriesSound == Spec => []RetriesExhausted
<1>1. IInv => RetriesExhausted
  BY DEF IInv
<1>2. QED
  BY <1>1, Invariance, PTL

(* Whatever reaches Oracle, the benchmark or a decision was seen by every  *)
(* critic in its present form.                                             *)
THEOREM ReviewSound == Spec => []ReviewedBeforeDatabase
<1>1. IInv => ReviewedBeforeDatabase
  BY DEF IInv, CriticInv, CriticsFresh, ReviewedBeforeDatabase, Deciding
<1>2. QED
  BY <1>1, Invariance, PTL

-----------------------------------------------------------------------------
(* What a step leaves of a frozen job: candidate, retries and verdicts.    *)
LEMMA FrozenStep ==
  ASSUME IInv, Next, NEW j \in Jobs, Frozen(j)
  PROVE  /\ cfg' = cfg /\ tuned'[j] = tuned[j] /\ writer'[j] = writer[j]
         /\ critiques'[j] = critiques[j] /\ benchmark'[j] = benchmark[j]
         /\ validated'[j] = validated[j] /\ measured'[j] = measured[j]
         /\ Passed(j) => retries'[j] = retries[j]
         /\ Passed(j) /\ phase \notin {"SUCCESS", "FAILED"} =>
              status'[j] = "VERIFYING"
<1> USE DEF textVars, gateVars
<1>4. j \notin Active
  BY DEF Frozen, Active
<1>1. CASE \/ CollectSql \/ CollectMetadata \/ BuildRag \/ AnalyzeSql
           \/ BeginTune \/ EndTune \/ BeginCritique \/ BeginValidate
           \/ EndValidate \/ BeginBenchmark \/ EndBenchmark
           \/ GiveUp \/ NotifyUser \/ Verify \/ Raise
           \/ BeginMove \/ FinishSuccess \/ FinishFailed
  BY <1>1, <1>4 DEF CollectSql, CollectMetadata, BuildRag, AnalyzeSql, BeginTune, EndTune,
     BeginCritique, BeginValidate, EndValidate, BeginBenchmark, EndBenchmark,
     GiveUp, NotifyUser, Verify, Raise, BeginMove, FinishSuccess, FinishFailed,
     Frozen
<1>2. CASE RetryJobs
  BY <1>2 DEF RetryJobs, Frozen
<1>3. CASE Stop
  BY <1>3 DEF Stop, vars, Frozen
<1>5. ASSUME NEW k \in Jobs, TuneJob(k) \/ ValidateJob(k) \/ BenchmarkJob(k)
      PROVE  k # j
  BY <1>4, <1>5 DEF TuneJob, ValidateJob, BenchmarkJob, Take, First, IInv, WorkInv
<1>6. ASSUME NEW k \in Jobs, TuneJob(k) PROVE
         /\ cfg' = cfg /\ tuned'[j] = tuned[j] /\ writer'[j] = writer[j]
         /\ critiques'[j] = critiques[j] /\ benchmark'[j] = benchmark[j]
         /\ validated'[j] = validated[j] /\ measured'[j] = measured[j]
         /\ retries' = retries /\ status'[j] = status[j]
  BY <1>5, <1>6 DEF TuneJob, IInv, TypeOK
<1>7. ASSUME NEW k \in Jobs, ValidateJob(k) PROVE
         /\ cfg' = cfg /\ tuned' = tuned /\ writer' = writer
         /\ critiques' = critiques /\ benchmark'[j] = benchmark[j]
         /\ validated'[j] = validated[j] /\ measured' = measured
         /\ retries' = retries /\ status'[j] = status[j]
  BY <1>5, <1>7 DEF ValidateJob, IInv, TypeOK
<1>8. ASSUME NEW k \in Jobs, BenchmarkJob(k) PROVE
         /\ cfg' = cfg /\ tuned' = tuned /\ writer' = writer
         /\ critiques' = critiques /\ benchmark'[j] = benchmark[j]
         /\ validated' = validated /\ measured'[j] = measured[j]
         /\ retries' = retries /\ status'[j] = status[j]
  BY <1>5, <1>8 DEF BenchmarkJob, IInv, TypeOK
<1>9. ASSUME NEW c \in Critics, NEW k \in Jobs, CritiqueJob(c, k) PROVE
         /\ UNCHANGED <<cfg, status, tuned, writer, benchmark, validated, measured, retries>>
         /\ critiques'[j] = critiques[j]
  <2>1. <<c, k>> \in Critics \X Active
    BY <1>9 DEF CritiqueJob, FirstCall, IInv, WorkInv
  <2>2. k # j
    BY <1>4, <2>1
  <2>3. QED
    BY <1>9, <2>2 DEF CritiqueJob, IInv, TypeOK
<1>10. CASE EndCritique
  <2>1. /\ UNCHANGED <<cfg, tuned, writer, critiques, validated, measured>>
        /\ benchmark'[j] = benchmark[j]
    BY <1>4, <1>10 DEF EndCritique
  <2>2. retries'[j] = retries[j] /\ status'[j] = status[j]
    <3>1. CASE ShouldRetune
      <4>1. /\ retries' = [k \in Jobs |-> IF k \in Active THEN retries[k] + 1
                                          ELSE retries[k]]
            /\ status' = [k \in Jobs |-> IF k \in Active THEN "RETRY"
                                         ELSE status[k]]
        BY <1>10, <3>1 DEF EndCritique
      <4>2. QED
        BY <1>4, <4>1
    <3>2. CASE ~ ShouldRetune
      BY <1>10, <3>2 DEF EndCritique
    <3>3. QED
      BY <3>1, <3>2
  <2>3. QED
    BY <2>1, <2>2 DEF Frozen
<1>11. ASSUME NEW k \in Jobs, PublishJob(k) \/ SortJob(k) PROVE
         /\ UNCHANGED <<cfg, tuned, writer, critiques, benchmark, validated,
                        measured, retries>>
         /\ phase \in {"SUCCESS", "FAILED"}
  BY <1>11 DEF PublishJob, SortJob, Take
<1>12. QED
  BY <1>1, <1>2, <1>3, <1>6, <1>7, <1>8, <1>9, <1>10, <1>11
     DEF Next, Step, Frozen

(* A job that passed is frozen for good, whatever later rounds do.         *)
THEOREM FrozenSound == Spec => PassedJobFrozen
<1> DEFINE Kept == \A j \in Jobs : status[j] = "VERIFYING" /\ Passed(j) =>
       /\ tuned'[j] = tuned[j] /\ retries'[j] = retries[j]
       /\ Passed(j)' /\ validated'[j] = validated[j] /\ measured'[j] = measured[j]
       /\ phase \notin {"SUCCESS", "FAILED"} => status'[j] = "VERIFYING"
<1>1. IInv /\ [Next]_vars => [Kept]_vars
  <2> SUFFICES ASSUME IInv, Next PROVE Kept
    OBVIOUS
  <2> SUFFICES ASSUME NEW j \in Jobs, Frozen(j), Passed(j)
               PROVE  /\ tuned'[j] = tuned[j] /\ retries'[j] = retries[j]
                      /\ Passed(j)' /\ validated'[j] = validated[j]
                      /\ measured'[j] = measured[j]
                      /\ phase \notin {"SUCCESS", "FAILED"} =>
                           status'[j] = "VERIFYING"
    BY DEF Frozen
  <2>1. QED
    BY FrozenStep DEF Passed, JobError
<1>2. QED
  BY <1>1, Invariance, PTL DEF Spec, PassedJobFrozen

-----------------------------------------------------------------------------
(* The ledger: reports, feedback files and published results.              *)
LEMMA InitLedger == Init => LedgerInv
<1> SUFFICES ASSUME Init PROVE LedgerInv
  OBVIOUS
<1>1. CandidateInv /\ ReportInv /\ FeedbackInv
  BY DEF Init, CandidateInv, ReportInv, FeedbackInv, Frozen, Deciding
<1>2. OutcomeInv
  BY DEF Init, OutcomeInv
<1>3. QED
  BY <1>1, <1>2 DEF LedgerInv

(* A step that leaves a job's texts and reports alone.                     *)
LEMMA SameLedger ==
  ASSUME NEW j \in Jobs, cfg' = cfg, tuned'[j] = tuned[j], writer'[j] = writer[j],
         benchmark'[j] = benchmark[j], feedback'[j] = feedback[j]
  PROVE  /\ Passed(j)' <=> Passed(j)
         /\ ReportFresh(j)' <=> ReportFresh(j)
         /\ FeedbackFresh(j)' <=> FeedbackFresh(j)
  BY DEF Passed, ReportFresh, Assessment, Blocked, JobError, FeedbackFresh

(* Inside the loop the outcome is open.                                    *)
LEMMA LoopOutcome ==
  ASSUME OutcomeInv, phase \notin {"FAILED", "DONE", "ABORTED"}, review' = review,
         phase' \in Looping
  PROVE  OutcomeInv'
  BY DEF OutcomeInv, Looping

Quiet == UNCHANGED <<cfg, tuned, writer, benchmark, feedback, accepted, rejected>>

LEMMA QuietFacts ==
  ASSUME Quiet
  PROVE  \A j \in Jobs : /\ Passed(j)' <=> Passed(j)
                         /\ ReportFresh(j)' <=> ReportFresh(j)
                         /\ FeedbackFresh(j)' <=> FeedbackFresh(j)
  BY SameLedger DEF Quiet

(* Steps of the loop that move control only.                               *)
LEMMA LoopControl ==
  ASSUME IInv, LedgerInv,
         \/ CollectSql \/ CollectMetadata \/ BuildRag \/ AnalyzeSql
         \/ BeginTune \/ EndTune \/ BeginCritique
         \/ (\E c \in Critics, j \in Jobs : CritiqueJob(c, j))
         \/ BeginValidate \/ EndValidate \/ BeginBenchmark \/ EndBenchmark
  PROVE  LedgerInv'
<1> USE DEF LedgerInv
<1>1. Quiet /\ UNCHANGED <<review, retry_count, critic_retune_count>>
  BY DEF Quiet, CollectSql, CollectMetadata, BuildRag, AnalyzeSql, BeginTune, EndTune,
         BeginCritique, CritiqueJob, BeginValidate, EndValidate, BeginBenchmark,
         EndBenchmark, countVars, textVars, gateVars, outVars
<1>2. \A j \in Jobs : /\ Passed(j)' <=> Passed(j)
                      /\ ReportFresh(j)' <=> ReportFresh(j)
                      /\ FeedbackFresh(j)' <=> FeedbackFresh(j)
  BY <1>1, QuietFacts
<1>3. phase \in Looping /\ phase' \in Looping
  BY DEF CollectSql, CollectMetadata, BuildRag, AnalyzeSql, BeginTune, EndTune,
         BeginCritique, CritiqueJob, BeginValidate, EndValidate, BeginBenchmark,
         EndBenchmark, Goto, Begin, End, Looping
<1>4. OutcomeInv'
  BY <1>1, <1>3, LoopOutcome DEF Looping
<1>5. \A j \in Jobs : Frozen(j)' <=> Frozen(j)
  BY DEF Frozen, CollectSql, CollectMetadata, BuildRag, AnalyzeSql, BeginTune, EndTune,
         BeginCritique, CritiqueJob, BeginValidate, EndValidate, BeginBenchmark,
         EndBenchmark, Active
<1>6. Active' = Active
  BY <1>5 DEF Active, Frozen
<1>7. FeedbackInv /\ cfg.critics = {} => FeedbackInv'
  BY <1>1 DEF FeedbackInv, Quiet
<1>8. CASE CollectSql \/ CollectMetadata \/ BuildRag
  <2>1. /\ UNCHANGED <<open, queue, tuning_round>>
        /\ phase \in {"COLLECT_SQL", "COLLECT_METADATA", "BUILD_RAG"}
        /\ phase' \in {"COLLECT_METADATA", "BUILD_RAG", "ANALYZE"}
    BY <1>8 DEF CollectSql, CollectMetadata, BuildRag, Goto, countVars
  <2>2. tuning_round = 0
    BY <2>1 DEF CandidateInv
  <2>3. QED
    BY <1>1, <1>2, <1>4, <1>5, <1>6, <2>1, <2>2
       DEF Quiet, CandidateInv, ReportInv, FeedbackInv, Deciding
<1>9. CASE AnalyzeSql
  <2>1. UNCHANGED <<open, queue, tuning_round>> /\ phase = "ANALYZE" /\ phase' = "TUNE" /\ ~ open
    BY <1>9 DEF AnalyzeSql, Goto, countVars, IInv, WorkInv, Handlers
  <2>2. QED
    BY <1>1, <1>2, <1>4, <1>5, <1>6, <2>1
       DEF Quiet, CandidateInv, ReportInv, FeedbackInv, Deciding
<1>10. CASE BeginTune
  <2>1. /\ phase = "TUNE" /\ phase' = "TUNE" /\ ~ open /\ open'
        /\ queue' = Active /\ tuning_round' = tuning_round + 1 /\ tuning_round \in Nat
    BY <1>10, CountFacts DEF BeginTune, Begin, IInv
  <2>2. CandidateInv'
    BY <1>1, <1>5, <2>1 DEF Quiet, CandidateInv, Active, Frozen
  <2>3. FeedbackInv'
    BY <1>1, <1>2, <1>5, <2>1 DEF Quiet, FeedbackInv, Deciding, Active
  <2>4. QED
    BY <1>1, <1>2, <1>4, <1>5, <2>1, <2>2, <2>3 DEF ReportInv, Deciding
<1>11. CASE EndTune
  <2>1. /\ phase = "TUNE" /\ phase' = "CRITIQUE" /\ open /\ ~ open'
        /\ queue = {} /\ queue' = {} /\ tuning_round' = tuning_round
    BY <1>11 DEF EndTune, End, countVars
  <2>2. QED
    BY <1>1, <1>2, <1>4, <1>5, <2>1
       DEF Quiet, CandidateInv, ReportInv, FeedbackInv, Deciding
<1>12. CASE BeginCritique \/ \E c \in Critics, j \in Jobs : CritiqueJob(c, j)
  <2>1. phase = "CRITIQUE" /\ phase' = "CRITIQUE" /\ queue' = queue /\ tuning_round' = tuning_round
    BY <1>12 DEF BeginCritique, CritiqueJob, countVars
  <2>2. QED
    BY <1>1, <1>2, <1>4, <1>5, <2>1
       DEF Quiet, CandidateInv, ReportInv, FeedbackInv, Deciding
<1>13. CASE BeginValidate \/ EndValidate \/ BeginBenchmark \/ EndBenchmark
  <2>1. tuning_round' = tuning_round /\ phase \in {"VALIDATE_ORACLE", "BENCHMARK"}
        /\ phase' \in {"VALIDATE_ORACLE", "BENCHMARK", "VERIFY"}
    BY <1>13 DEF BeginValidate, EndValidate, BeginBenchmark, EndBenchmark, Begin, End, countVars
  <2>2. CandidateInv' /\ FeedbackInv'
    BY <1>1, <1>2, <1>5, <2>1 DEF Quiet, CandidateInv, FeedbackInv, Deciding
  <2>3. CASE EndBenchmark
    <3>1. /\ phase = "BENCHMARK" /\ phase' = "VERIFY" /\ open /\ queue = {}
      BY <2>3 DEF EndBenchmark, End
    <3>2. \A j \in Jobs : ReportFresh(j)
      BY <3>1 DEF ReportInv, Active, Frozen
    <3>3. QED
      BY <1>2, <1>4, <2>2, <3>1, <3>2 DEF ReportInv
  <2>4. CASE BeginBenchmark
    <3>1. phase' = "BENCHMARK" /\ queue' = Active
      BY <2>4 DEF BeginBenchmark, Begin
    <3>2. QED
      BY <1>2, <1>4, <1>5, <1>6, <2>2, <3>1 DEF ReportInv, Deciding
  <2>5. CASE BeginValidate \/ EndValidate
    <3>1. phase' = "VALIDATE_ORACLE" \/ (phase' = "BENCHMARK" /\ ~ open')
      BY <2>5 DEF BeginValidate, EndValidate, Begin, End
    <3>2. QED
      BY <1>2, <1>4, <1>5, <2>2, <3>1 DEF ReportInv, Deciding
  <2>6. QED
    BY <1>13, <2>3, <2>4, <2>5
<1>14. QED
  BY <1>8, <1>9, <1>10, <1>11, <1>12, <1>13

(* A call of the writer.                                                   *)
LEMMA TuneLedger ==
  ASSUME IInv, LedgerInv, NEW k \in Jobs, TuneJob(k) PROVE LedgerInv'
<1> USE DEF LedgerInv
<1>1. /\ UNCHANGED <<cfg, open, tuning_round, benchmark, feedback, review>>
      /\ phase = "TUNE" /\ phase' = "TUNE" /\ open /\ k \in queue /\ queue' = queue \ {k}
      /\ status' = [status EXCEPT ![k] = "TUNING"]
  BY DEF TuneJob, Take, First, countVars, gateVars, outVars
<1>2. PICK a \in WriterAnswers :
        /\ tuned' = [tuned EXCEPT ![k] = Written(k, a)]
        /\ writer' = [writer EXCEPT ![k] = a]
  BY DEF TuneJob
<1>3. \A j \in Jobs \ {k} : tuned'[j] = tuned[j] /\ writer'[j] = writer[j]
  BY <1>2 DEF IInv, TypeOK
<1>4. tuned'[k] # None
  <2>1. tuning_round # None /\ Original # None
    BY CountFacts DEF IInv, None, Original
  <2>2. Written(k, a) # None
    BY <2>1 DEF Written, Fallback, Preserved
  <2>3. QED
    BY <1>2, <2>2 DEF IInv, TypeOK
<1>5. ~ Frozen(k) /\ ~ Frozen(k)' /\ \A j \in Jobs : Frozen(j)' <=> Frozen(j)
  BY <1>1 DEF IInv, TypeOK, WorkInv, Active, Frozen
<1>6. \A j \in Jobs \ {k} : /\ ReportFresh(j)' <=> ReportFresh(j)
                            /\ FeedbackFresh(j)' <=> FeedbackFresh(j)
  BY <1>1, <1>3, SameLedger
<1>7. CandidateInv'
  BY <1>1, <1>3, <1>4, <1>5 DEF CandidateInv
<1>8. ReportInv'
  BY <1>1, <1>5, <1>6 DEF ReportInv, Deciding
<1>9. FeedbackInv'
  <2>1. ASSUME NEW j \in queue' PROVE j \in queue \ {k} /\ j \in Jobs
    BY <1>1, <2>1 DEF IInv, TypeOK
  <2>2. QED
    BY <1>1, <1>5, <1>6, <2>1 DEF FeedbackInv, Deciding
<1>10. OutcomeInv'
  BY <1>1, LoopOutcome DEF Looping
<1>11. QED
  BY <1>7, <1>8, <1>9, <1>10

(* The critics' verdicts and the feedback made from them.                  *)
LEMMA EndCritiqueLedger ==
  ASSUME IInv, LedgerInv, EndCritique PROVE LedgerInv'
<1> USE DEF LedgerInv
<1>1. /\ UNCHANGED <<cfg, tuned, writer, tuning_round, review>>
      /\ phase = "CRITIQUE" /\ phase' \in {"ANALYZE", "VALIDATE_ORACLE"}
      /\ open /\ ~ open' /\ queue = {}
  BY DEF EndCritique, End, textVars, outVars
<1>2. \A j \in Jobs : Frozen(j)' <=> Frozen(j)
  <2>1. CASE ShouldRetune
    BY <2>1 DEF EndCritique, Frozen, Active
  <2>2. CASE ~ ShouldRetune
    BY <2>2 DEF EndCritique, Frozen
  <2>3. QED
    BY <2>1, <2>2
<1>3. \A j \in Jobs : Frozen(j) => benchmark'[j] = benchmark[j] /\ feedback'[j] = feedback[j]
  BY DEF EndCritique, Frozen, Active
<1>4. \A j \in Jobs : Frozen(j) => /\ ReportFresh(j)' <=> ReportFresh(j)
                                   /\ FeedbackFresh(j)' <=> FeedbackFresh(j)
  BY <1>1, <1>3, SameLedger
<1>5. CandidateInv'
  BY <1>1, <1>2 DEF CandidateInv
<1>6. ReportInv'
  BY <1>1, <1>2, <1>4 DEF ReportInv, Deciding
<1>7. FeedbackInv'
  <2>1. CASE cfg.critics = {}
    <3>1. benchmark' = benchmark /\ feedback' = feedback
      <4>1. \A j \in Jobs : benchmark'[j] = benchmark[j] /\ feedback'[j] = feedback[j]
        BY <2>1 DEF EndCritique
      <4>2. benchmark' = [j \in Jobs |-> benchmark'[j]] /\ feedback' = [j \in Jobs |-> feedback'[j]]
        BY DEF EndCritique
      <4>3. benchmark = [j \in Jobs |-> benchmark[j]] /\ feedback = [j \in Jobs |-> feedback[j]]
        BY DEF IInv, TypeOK
      <4>4. QED
        BY <4>1, <4>2, <4>3
    <3>2. QED
      BY <1>1, <2>1, <3>1 DEF FeedbackInv
  <2>2. CASE cfg.critics # {}
    <3>1. \A j \in Active : feedback'[j] = [critics |-> tuned[j], oracle |-> None]
      BY <2>2 DEF EndCritique, CritiqueFeedback, Active
    <3>2. ASSUME NEW j \in Jobs, ~ Frozen(j) PROVE FeedbackFresh(j)'
      <4>1. feedback'[j] = [critics |-> tuned[j], oracle |-> None]
        BY <3>1, <3>2 DEF Active, Frozen
      <4>2. feedback'[j].critics = tuned[j] /\ feedback'[j].oracle = None
        BY <4>1
      <4>3. QED
        BY <1>1, <4>2 DEF FeedbackFresh
    <3>3. \A j \in Jobs : FeedbackFresh(j)'
      BY <1>4, <2>2, <3>2 DEF FeedbackInv
    <3>4. QED
      BY <1>1, <2>2, <3>3 DEF FeedbackInv
  <2>3. QED
    BY <2>1, <2>2
<1>8. OutcomeInv'
  BY <1>1, LoopOutcome DEF Looping
<1>9. QED
  BY <1>5, <1>6, <1>7, <1>8

(* A validation; a failure is added to the feedback.                       *)
LEMMA ValidateLedger ==
  ASSUME IInv, LedgerInv, NEW k \in Jobs, ValidateJob(k) PROVE LedgerInv'
<1> USE DEF LedgerInv
<1>1. /\ UNCHANGED <<cfg, open, tuned, writer, tuning_round, review>>
      /\ phase = "VALIDATE_ORACLE" /\ phase' = "VALIDATE_ORACLE" /\ open
      /\ k \in queue /\ queue' = queue \ {k}
      /\ status' = [status EXCEPT ![k] = "VALIDATING"]
  BY DEF ValidateJob, Take, First, countVars, textVars, outVars
<1>2. PICK ok \in BOOLEAN :
        /\ benchmark' = [benchmark EXCEPT ![k] = OracleVerdict(k, ok)]
        /\ feedback' = [feedback EXCEPT ![k].oracle = IF ok THEN feedback[k].oracle ELSE tuned[k]]
  BY DEF ValidateJob
<1>3. \A j \in Jobs \ {k} : benchmark'[j] = benchmark[j] /\ feedback'[j] = feedback[j]
  BY <1>2 DEF IInv, TypeOK
<1>4. /\ benchmark'[k].oracle_validation_passed = VerdictOf(ok)
      /\ feedback'[k].critics = feedback[k].critics
      /\ feedback'[k].oracle = IF ok THEN feedback[k].oracle ELSE tuned[k]
  BY <1>2 DEF IInv, TypeOK, OracleVerdict, Report
<1>5. ~ Frozen(k) /\ ~ Frozen(k)' /\ \A j \in Jobs : Frozen(j)' <=> Frozen(j)
  BY <1>1 DEF IInv, TypeOK, WorkInv, Active, Frozen
<1>6. \A j \in Jobs \ {k} : /\ ReportFresh(j)' <=> ReportFresh(j)
                            /\ FeedbackFresh(j)' <=> FeedbackFresh(j)
  BY <1>1, <1>3, SameLedger
<1>7. CandidateInv' /\ ReportInv'
  BY <1>1, <1>5, <1>6 DEF CandidateInv, ReportInv, Deciding
<1>8. tuned[k] # None
  BY <1>1, CountFacts DEF CandidateInv, IInv, CountInv, Turns, BeforeTune
<1>9. FeedbackInv'
  <2>1. CASE cfg.critics # {}
    <3>1. FeedbackFresh(k)
      BY <1>1, <2>1 DEF FeedbackInv
    <3>2. FeedbackFresh(k)'
      BY <1>1, <1>4, <3>1 DEF FeedbackFresh
    <3>3. \A j \in Jobs : FeedbackFresh(j)'
      BY <1>1, <1>6, <2>1, <3>2 DEF FeedbackInv
    <3>4. QED
      BY <1>1, <2>1, <3>3 DEF FeedbackInv
  <2>2. CASE cfg.critics = {}
    <3>1. benchmark'[k].oracle_validation_passed = "fail" => feedback'[k].oracle # None
      BY <1>4, <1>8 DEF VerdictOf
    <3>2. QED
      BY <1>1, <1>3, <2>2, <3>1 DEF FeedbackInv
  <2>3. QED
    BY <2>1, <2>2
<1>10. OutcomeInv'
  BY <1>1, LoopOutcome DEF Looping
<1>11. QED
  BY <1>7, <1>9, <1>10

(* The report of a benchmark.                                              *)
LEMMA BenchmarkLedger ==
  ASSUME IInv, LedgerInv, NEW k \in Jobs, BenchmarkJob(k) PROVE LedgerInv'
<1> USE DEF LedgerInv
<1>1. /\ UNCHANGED <<cfg, open, tuned, writer, feedback, tuning_round, review>>
      /\ phase = "BENCHMARK" /\ phase' = "BENCHMARK" /\ open
      /\ k \in queue /\ queue' = queue \ {k}
      /\ status' = [status EXCEPT ![k] = "BENCHMARKING"]
  BY DEF BenchmarkJob, Take, First, countVars, textVars, outVars
<1>2. PICK speed \in IF cfg.execute_benchmark THEN {"pass", "fail"} ELSE {"missing"} :
        benchmark' = [benchmark EXCEPT ![k] = BenchmarkReport(k, speed)]
  BY DEF BenchmarkJob
<1>3. \A j \in Jobs \ {k} : benchmark'[j] = benchmark[j]
  BY <1>2 DEF IInv, TypeOK
<1>4. /\ benchmark'[k].oracle_validation_passed = benchmark[k].oracle_validation_passed
      /\ benchmark'[k].critic_approved = benchmark[k].critic_approved
      /\ benchmark'[k].assessment = Assessment(k, benchmark'[k].improved)
  BY <1>2 DEF IInv, TypeOK, BenchmarkReport, Report
<1>5. ReportFresh(k)'
  BY <1>1, <1>4 DEF ReportFresh, Assessment, Blocked, JobError
<1>6. ~ Frozen(k) /\ ~ Frozen(k)' /\ \A j \in Jobs : Frozen(j)' <=> Frozen(j)
  BY <1>1 DEF IInv, TypeOK, WorkInv, Active, Frozen
<1>7. \A j \in Jobs \ {k} : ReportFresh(j)' <=> ReportFresh(j)
  BY <1>1, <1>3, SameLedger
<1>8. CandidateInv'
  BY <1>1, <1>6 DEF CandidateInv
<1>9. ReportInv'
  BY <1>1, <1>5, <1>6, <1>7 DEF ReportInv, Deciding, Active, Frozen
<1>10. \A j \in Jobs : /\ FeedbackFresh(j)' <=> FeedbackFresh(j)
                       /\ benchmark'[j].oracle_validation_passed
                            = benchmark[j].oracle_validation_passed
  BY <1>1, <1>3, <1>4 DEF FeedbackFresh
<1>11. FeedbackInv'
  BY <1>1, <1>6, <1>10 DEF FeedbackInv, Deciding
<1>12. OutcomeInv'
  BY <1>1, LoopOutcome DEF Looping
<1>13. QED
  BY <1>8, <1>9, <1>11, <1>12
(* From the decision on, texts and reports stay; what is told of them is   *)
(* told of the verdicts of the decision.                                   *)
LEMMA DecisionLedger ==
  ASSUME IInv, LedgerInv, Quiet, tuning_round' = tuning_round,
         phase \in {"VERIFY"} \cup Deciding, phase' \in Deciding
  PROVE  CandidateInv' /\ ReportInv' /\ FeedbackInv'
<1> USE DEF LedgerInv
<1>1. \A j \in Jobs : /\ ReportFresh(j)' <=> ReportFresh(j)
                      /\ FeedbackFresh(j)' <=> FeedbackFresh(j)
  BY QuietFacts
<1>2. \A j \in Jobs : tuned[j] # None
  BY CountFacts DEF CandidateInv, IInv, CountInv, Turns, BeforeTune, Deciding
<1>3. CandidateInv'
  BY <1>2 DEF CandidateInv, Quiet, Deciding
<1>4. ReportInv'
  BY <1>1 DEF ReportInv, Deciding
<1>5. FeedbackInv'
  BY <1>1 DEF FeedbackInv, Quiet, Deciding
<1>6. QED
  BY <1>3, <1>4, <1>5

LEMMA VerifyLedger ==
  ASSUME IInv, LedgerInv, Verify \/ RetryJobs \/ GiveUp \/ NotifyUser \/ BeginMove
  PROVE  LedgerInv'
<1> USE DEF LedgerInv
<1>1. Quiet /\ tuning_round' = tuning_round /\ summary' = summary
  BY DEF Quiet, Verify, RetryJobs, GiveUp, NotifyUser, BeginMove, textVars, gateVars,
         outVars, countVars
<1>2. \A j \in Jobs : /\ Passed(j)' <=> Passed(j)
                      /\ ReportFresh(j)' <=> ReportFresh(j)
                      /\ FeedbackFresh(j)' <=> FeedbackFresh(j)
  BY <1>1, QuietFacts
<1>3. CASE Verify
  <2>1. /\ phase = "VERIFY" /\ open' = open /\ review' = review /\ ~ open
        /\ phase' = IF \A j \in Jobs : Passed(j) THEN "SUCCESS" ELSE "REANALYZE"
        /\ \A j \in Jobs : Frozen(j)'
    BY <1>3 DEF Verify, Goto, outVars, Frozen, IInv, WorkInv, Handlers
  <2>2. CandidateInv' /\ ReportInv' /\ FeedbackInv'
    BY <1>1, <2>1, DecisionLedger DEF Deciding
  <2>3. \A j \in Jobs : accepted[j] = None /\ rejected[j] = None
    BY <2>1 DEF IInv, OutputInv, Moving
  <2>4. OutcomeInv'
    BY <1>1, <1>2, <2>1, <2>3 DEF OutcomeInv, Copied, Quiet
  <2>5. QED
    BY <2>2, <2>4
<1>4. CASE RetryJobs
  <2>1. /\ phase = "REANALYZE" /\ phase' = "ANALYZE" /\ UNCHANGED <<open, queue, review>>
        /\ status' = [j \in Jobs |-> IF Passed(j) THEN status[j] ELSE "RETRY"]
    BY <1>4 DEF RetryJobs, Goto, outVars
  <2>2. \A j \in Jobs : ReportFresh(j)' /\ (cfg.critics # {} => FeedbackFresh(j)')
    BY <1>2, <2>1 DEF ReportInv, FeedbackInv, Deciding
  <2>3. \A j \in Jobs : tuned[j] # None
    BY <2>1, CountFacts DEF CandidateInv, IInv, CountInv, Turns, BeforeTune
  <2>4. CandidateInv' /\ ReportInv'
    BY <1>1, <2>1, <2>2, <2>3 DEF CandidateInv, ReportInv, Quiet, Deciding
  <2>5. FeedbackInv'
    BY <1>1, <2>1, <2>2 DEF FeedbackInv, Quiet, Deciding
  <2>6. OutcomeInv'
    BY <1>1, <2>1, LoopOutcome DEF Looping
  <2>7. QED
    BY <2>4, <2>5, <2>6
<1>5. CASE GiveUp
  <2>1. /\ phase = "REANALYZE" /\ phase' = "WAIT_USER" /\ UNCHANGED <<open, review, status>>
    BY <1>5 DEF GiveUp, Goto, outVars
  <2>2. CandidateInv' /\ ReportInv' /\ FeedbackInv'
    BY <1>1, <2>1, DecisionLedger DEF Deciding
  <2>3. OutcomeInv'
    BY <1>1, <1>2, <2>1 DEF OutcomeInv, Frozen
  <2>4. QED
    BY <2>2, <2>3
<1>6. CASE NotifyUser
  <2>1. /\ phase = "WAIT_USER" /\ phase' = "FAILED" /\ UNCHANGED <<open, queue, status>>
        /\ review' = {j \in Jobs : ~ Passed(j)}
    BY <1>6 DEF NotifyUser, Goto
  <2>2. CandidateInv' /\ ReportInv' /\ FeedbackInv'
    BY <1>1, <2>1, DecisionLedger DEF Deciding
  <2>3. \A j \in Jobs : accepted[j] = None /\ rejected[j] = None
    BY <2>1 DEF IInv, OutputInv, Moving
  <2>4. review' = {j \in Jobs : ~ Passed(j)'}
    BY <1>2, <2>1
  <2>5. OutcomeInv'
    BY <1>1, <1>2, <2>1, <2>3, <2>4 DEF OutcomeInv, Copied, Quiet, Frozen
  <2>6. QED
    BY <2>2, <2>5
<1>7. CASE BeginMove
  <2>1. /\ phase \in {"SUCCESS", "FAILED"} /\ phase' = phase /\ ~ open /\ open'
        /\ queue' = Jobs /\ UNCHANGED <<review, status>>
    BY <1>7 DEF BeginMove, Begin, outVars
  <2>2. CandidateInv' /\ ReportInv' /\ FeedbackInv'
    BY <1>1, <2>1, DecisionLedger DEF Deciding
  <2>3. {j \in Jobs : ~ Passed(j)'} = {j \in Jobs : ~ Passed(j)}
    BY <1>2
  <2>4. OutcomeInv'
    BY <1>1, <1>2, <2>1, <2>3 DEF OutcomeInv, Copied, Quiet
  <2>5. QED
    BY <2>2, <2>4
<1>8. QED
  BY <1>3, <1>4, <1>5, <1>6, <1>7

(* The copies of move_success and move_failed.                             *)
LEMMA PublishLedger ==
  ASSUME IInv, LedgerInv, NEW k \in Jobs, PublishJob(k) \/ SortJob(k)
  PROVE  LedgerInv'
<1> USE DEF LedgerInv
<1>1. /\ UNCHANGED <<cfg, tuned, writer, benchmark, feedback, tuning_round, review>>
      /\ phase \in {"SUCCESS", "FAILED"} /\ phase' = phase /\ open /\ open'
      /\ k \in queue /\ queue' = queue \ {k}
  BY DEF PublishJob, SortJob, Take, First, textVars, gateVars, countVars
<1>2. \A j \in Jobs : /\ Passed(j)' <=> Passed(j)
                      /\ ReportFresh(j)' <=> ReportFresh(j)
                      /\ FeedbackFresh(j)' <=> FeedbackFresh(j)
  BY <1>1, SameLedger
<1>3. \A j \in Jobs : tuned[j] # None
  BY <1>1, CountFacts DEF CandidateInv, IInv, CountInv, Turns, BeforeTune
<1>4. CandidateInv' /\ ReportInv'
  BY <1>1, <1>2, <1>3 DEF CandidateInv, ReportInv, Deciding
<1>5. FeedbackInv'
  BY <1>1, <1>2 DEF FeedbackInv, Deciding
<1>6. CASE PublishJob(k)
  <2>1. phase = "SUCCESS" /\ accepted' = [accepted EXCEPT ![k] = tuned[k]] /\ rejected' = rejected
    BY <1>6 DEF PublishJob, Take
  <2>2. \A j \in Jobs : accepted'[j] = IF Copied(j)' THEN tuned[j] ELSE None
    BY <1>1, <2>1 DEF OutcomeInv, Copied, IInv, TypeOK
  <2>3. OutcomeInv'
    BY <1>1, <2>1, <2>2 DEF OutcomeInv
  <2>4. QED
    BY <1>4, <1>5, <2>3
<1>7. CASE SortJob(k)
  <2>1. /\ phase = "FAILED"
        /\ accepted' = IF Passed(k) THEN [accepted EXCEPT ![k] = tuned[k]] ELSE accepted
        /\ rejected' = IF Passed(k) THEN rejected ELSE [rejected EXCEPT ![k] = tuned[k]]
        /\ status' = [status EXCEPT ![k] = IF Passed(k) THEN "SUCCESS" ELSE "FAILED"]
    BY <1>7 DEF SortJob, Take
  <2>2. ASSUME NEW j \in Jobs
        PROVE  /\ accepted'[j] = IF Copied(j)' /\ Passed(j) THEN tuned[j] ELSE None
               /\ rejected'[j] = IF Copied(j)' /\ ~ Passed(j) THEN tuned[j] ELSE None
               /\ status'[j] = "SUCCESS" <=> Copied(j)' /\ Passed(j)
    <3>0. /\ accepted[j] = IF Copied(j) /\ Passed(j) THEN tuned[j] ELSE None
          /\ rejected[j] = IF Copied(j) /\ ~ Passed(j) THEN tuned[j] ELSE None
          /\ status[j] = "SUCCESS" <=> Copied(j) /\ Passed(j)
      BY <2>1 DEF OutcomeInv
    <3>1. CASE j = k
      <4>1. ~ Copied(j) /\ Copied(j)'
        BY <1>1, <3>1 DEF Copied
      <4>2. QED
        BY <2>1, <3>0, <3>1, <4>1 DEF IInv, TypeOK
    <3>2. CASE j # k
      <4>1. Copied(j)' <=> Copied(j)
        BY <1>1, <3>2 DEF Copied
      <4>2. accepted'[j] = accepted[j] /\ rejected'[j] = rejected[j] /\ status'[j] = status[j]
        BY <2>1, <3>2 DEF IInv, TypeOK
      <4>3. QED
        BY <3>0, <4>1, <4>2
    <3>3. QED
      BY <3>1, <3>2
  <2>3. {j \in Jobs : ~ Passed(j)'} = {j \in Jobs : ~ Passed(j)}
    BY <1>2
  <2>4. OutcomeInv'
    BY <1>1, <1>2, <2>1, <2>2, <2>3 DEF OutcomeInv
  <2>5. QED
    BY <1>4, <1>5, <2>4
<1>8. QED
  BY <1>6, <1>7

(* The end of a run: the copies are all made, and the summary is written.  *)
LEMMA FinishLedger ==
  ASSUME IInv, LedgerInv, FinishSuccess \/ FinishFailed PROVE LedgerInv'
<1> USE DEF LedgerInv
<1>1. /\ Quiet /\ tuning_round' = tuning_round /\ review' = review /\ status' = status
      /\ phase \in {"SUCCESS", "FAILED"} /\ phase' = "DONE" /\ open /\ queue = {}
  BY DEF Quiet, FinishSuccess, FinishFailed, End, textVars, gateVars, countVars
<1>2. \A j \in Jobs : Copied(j) /\ tuned[j] # None /\ (Passed(j)' <=> Passed(j))
  BY <1>1, QuietFacts, CountFacts DEF Copied, CandidateInv, IInv, CountInv, Turns, BeforeTune
<1>3. CandidateInv' /\ ReportInv' /\ FeedbackInv'
  BY <1>1, DecisionLedger DEF Deciding
<1>4. Jobs # {}
  BY PipelineAssumption
<1>5. CASE FinishSuccess
  <2>1. phase = "SUCCESS" /\ summary' \notin {"FAILED", "PARTIAL"}
    BY <1>5 DEF FinishSuccess, End, SuccessResult
  <2>2. \A j \in Jobs : accepted[j] = tuned[j] /\ rejected[j] = None /\ Passed(j)
    BY <1>2, <2>1 DEF OutcomeInv, IInv, OutputInv
  <2>3. review = {}
    BY <2>1 DEF OutcomeInv
  <2>4. /\ \A j \in Jobs : accepted'[j] # None /\ rejected'[j] = None
        /\ review' = {} /\ summary' \in Results \ {"FAILED", "PARTIAL"}
    BY <1>1, <1>2, <1>5, <2>2, <2>3 DEF Quiet, FinishSuccess, SuccessResult, Results
  <2>5. Published' = Jobs /\ SortedOut' = {}
    BY <2>4 DEF Published, SortedOut
  <2>6. Complete'
    BY <1>4, <2>4, <2>5 DEF Complete
  <2>7. summary' # "none"
    BY <2>4 DEF Results
  <2>8. QED
    BY <1>1, <1>2, <1>3, <2>2, <2>4, <2>6, <2>7 DEF OutcomeInv
<1>6. CASE FinishFailed
  <2>1. /\ phase = "FAILED"
        /\ summary' = IF \E j \in Jobs : status[j] = "SUCCESS" THEN "PARTIAL" ELSE "FAILED"
    BY <1>6 DEF FinishFailed, End
  <2>2. \A j \in Jobs : /\ accepted[j] = IF Passed(j) THEN tuned[j] ELSE None
                        /\ rejected[j] = IF Passed(j) THEN None ELSE tuned[j]
                        /\ status[j] = "SUCCESS" <=> Passed(j)
    BY <1>2, <2>1 DEF OutcomeInv
  <2>3. (\E j \in Jobs : ~ Passed(j)) /\ review = {j \in Jobs : ~ Passed(j)}
    BY <2>1 DEF OutcomeInv
  <2>4. summary' = IF \E j \in Jobs : accepted[j] # None THEN "PARTIAL" ELSE "FAILED"
    BY <1>2, <2>1, <2>2
  <2>5. /\ Published' = {j \in Jobs : Passed(j)} /\ SortedOut' = {j \in Jobs : ~ Passed(j)}
        /\ review' = SortedOut' /\ SortedOut' # {}
        /\ summary' = IF Published' # {} THEN "PARTIAL" ELSE "FAILED"
    BY <1>1, <1>2, <2>2, <2>3, <2>4 DEF Published, SortedOut, Quiet
  <2>6. Complete'
    BY <2>5 DEF Complete
  <2>7. \A j \in Jobs : /\ accepted'[j] # None <=> Passed(j)'
                        /\ rejected'[j] # None <=> ~ Passed(j)'
                        /\ rejected'[j] # None => rejected'[j] = tuned'[j]
    BY <1>1, <1>2, <2>2 DEF Quiet
  <2>8. summary' # "none"
    BY <2>5
  <2>9. QED
    BY <1>1, <1>3, <2>6, <2>7, <2>8 DEF OutcomeInv
<1>7. QED
  BY <1>5, <1>6

LEMMA NextLedger == IInv /\ LedgerInv /\ [Next]_vars => LedgerInv'
<1> SUFFICES ASSUME IInv, LedgerInv, [Next]_vars PROVE LedgerInv'
  OBVIOUS
<1>1. CASE Raise \/ UNCHANGED vars
  <2>1. /\ Quiet /\ UNCHANGED <<open, queue, status, tuning_round, review, summary>>
        /\ phase' = "ABORTED" \/ phase' = phase
    BY <1>1 DEF Quiet, Raise, vars, ctlVars, textVars, gateVars, outVars, countVars
  <2>2. \A j \in Jobs : /\ Passed(j)' <=> Passed(j)
                        /\ ReportFresh(j)' <=> ReportFresh(j)
                        /\ FeedbackFresh(j)' <=> FeedbackFresh(j)
    BY <2>1, QuietFacts
  <2>3. \A j \in Jobs : Frozen(j)' <=> Frozen(j)
    BY <2>1 DEF Frozen
  <2>4. Active' = Active
    BY <2>1 DEF Active
  <2>5. CASE phase' = phase
    <3>0. /\ UNCHANGED <<cfg, tuned, benchmark, feedback, queue, tuning_round, phase>>
          /\ open' <=> open
          /\ queue \subseteq Jobs /\ Active \subseteq Jobs
      BY <2>1, <2>5 DEF Quiet, Active, IInv, TypeOK
    <3>1. CandidateInv' /\ ReportInv'
      BY <2>2, <2>3, <2>4, <3>0 DEF LedgerInv, CandidateInv, ReportInv, Deciding
    <3>2. FeedbackInv'
      BY <2>2, <2>3, <3>0 DEF LedgerInv, FeedbackInv, Deciding
    <3>3. {j \in Jobs : ~ Passed(j)'} = {j \in Jobs : ~ Passed(j)}
      BY <2>2
    <3>4. Complete' <=> Complete
      BY <2>1 DEF Complete, Published, SortedOut, Quiet
    <3>5. OutcomeInv'
      BY <2>1, <2>2, <2>3, <2>5, <3>3, <3>4 DEF LedgerInv, OutcomeInv, Copied, Quiet
    <3>6. QED
      BY <3>1, <3>2, <3>5 DEF LedgerInv
  <2>6. CASE phase' = "ABORTED"
    <3>1. CandidateInv'
      BY <2>1, <2>3, <2>6 DEF LedgerInv, CandidateInv, Quiet
    <3>2. ReportInv' /\ FeedbackInv'
      BY <2>1, <2>2, <2>3, <2>6 DEF LedgerInv, ReportInv, FeedbackInv, Deciding, Quiet
    <3>3. OutcomeInv'
      BY <2>6 DEF OutcomeInv
    <3>4. QED
      BY <3>1, <3>2, <3>3 DEF LedgerInv
  <2>7. QED
    BY <2>1, <2>5, <2>6
<1>2. QED
  BY <1>1, LoopControl, TuneLedger, EndCritiqueLedger, ValidateLedger, BenchmarkLedger,
     VerifyLedger, PublishLedger, FinishLedger DEF Next, Step, Stop

(* The reports, the feedback and the outcome agree with the verdicts.      *)
THEOREM LedgerSound == Spec => []LedgerInv
  BY InitLedger, NextLedger, Invariance, PTL DEF Spec

(* What an exception leaves behind is what was there before it.            *)
LEMMA OnlyRaiseStops ==
  ASSUME IInv, [Next]_vars, phase' = "ABORTED"
  PROVE  UNCHANGED <<tuned, accepted, rejected, review, summary>>
<1>1. ASSUME Step PROVE phase' # "ABORTED"
  <2>1. phase \in Phases => phase # "ABORTED"
    BY DEF Phases
  <2>2. QED
    BY <1>1 DEF Step, CollectSql, CollectMetadata, BuildRag, AnalyzeSql, BeginTune, TuneJob,
       EndTune, BeginCritique, CritiqueJob, EndCritique, BeginValidate, ValidateJob,
       EndValidate, BeginBenchmark, BenchmarkJob, EndBenchmark, Verify, RetryJobs, GiveUp,
       NotifyUser, BeginMove, PublishJob, SortJob, FinishSuccess, FinishFailed, Goto,
       Begin, Take, End
<1>2. CASE Raise \/ Stop \/ UNCHANGED vars
  BY <1>2 DEF Raise, Stop, vars, textVars, outVars
<1>3. QED
  BY <1>1, <1>2 DEF Next

LEMMA SummaryLast ==
  ASSUME IInv, [Next]_vars, phase # "DONE" => summary = "none"
  PROVE  phase' # "DONE" => summary' = "none"
<1>1. CASE FinishSuccess \/ FinishFailed
  BY <1>1 DEF FinishSuccess, FinishFailed, End
<1>2. CASE Raise \/ Stop \/ UNCHANGED vars
  BY <1>2 DEF Raise, Stop, vars, ctlVars, outVars, Phases
<1>3. ASSUME Step, ~ FinishSuccess, ~ FinishFailed
      PROVE  summary' = summary /\ phase # "DONE"
  BY <1>3 DEF Step, CollectSql, CollectMetadata, BuildRag, AnalyzeSql, BeginTune, TuneJob,
     EndTune, BeginCritique, CritiqueJob, EndCritique, BeginValidate, ValidateJob,
     EndValidate, BeginBenchmark, BenchmarkJob, EndBenchmark, Verify, RetryJobs, GiveUp,
     NotifyUser, BeginMove, PublishJob, SortJob, Goto, Begin, Take, End, outVars
<1>4. QED
  BY <1>1, <1>2, <1>3 DEF Next

(* The files at every phase: what the ledger says of the phases, and an    *)
(* exception changes nothing.                                              *)
FilesInv ==
  /\ phase # "DONE" => summary = "none"
  /\ \A j \in Jobs : /\ accepted[j] # None => rejected[j] = None /\ j \notin review
                     /\ rejected[j] # None => rejected[j] = tuned[j] /\ j \in review

LEMMA FilesStep ==
  IInv /\ LedgerInv /\ FilesInv /\ [Next]_vars /\ IInv' /\ LedgerInv' => FilesInv'
<1> SUFFICES ASSUME IInv, LedgerInv, FilesInv, [Next]_vars, IInv', LedgerInv' PROVE FilesInv'
  OBVIOUS
<1>1. phase' # "DONE" => summary' = "none"
  BY SummaryLast DEF FilesInv
<1>2. ASSUME NEW j \in Jobs
      PROVE  /\ accepted'[j] # None => rejected'[j] = None /\ j \notin review'
             /\ rejected'[j] # None => rejected'[j] = tuned'[j] /\ j \in review'
  <2>1. CASE phase' \notin Moving
    BY <2>1 DEF IInv, OutputInv
  <2>2. CASE phase' = "SUCCESS"
    BY <2>2 DEF LedgerInv, OutcomeInv
  <2>3. CASE phase' = "FAILED"
    BY <2>3 DEF LedgerInv, OutcomeInv
  <2>4. CASE phase' = "DONE"
    <3>1. review' = {k \in Jobs : rejected'[k] # None}
      BY <2>4 DEF LedgerInv, OutcomeInv, Complete, SortedOut
    <3>2. /\ accepted'[j] # None <=> Passed(j)'
          /\ rejected'[j] # None <=> ~ Passed(j)'
          /\ rejected'[j] # None => rejected'[j] = tuned'[j]
      BY <2>4 DEF LedgerInv, OutcomeInv
    <3>3. QED
      BY <3>1, <3>2
  <2>5. CASE phase' = "ABORTED"
    BY <2>5, OnlyRaiseStops DEF FilesInv
  <2>6. QED
    BY <2>1, <2>2, <2>3, <2>4, <2>5 DEF Moving
<1>3. QED
  BY <1>1, <1>2 DEF FilesInv

(* Every file is accounted for, in finished runs and in those that stop.   *)
THEOREM OutcomeSound == Spec => []OutcomeAccounted
<1>1. Init => FilesInv
  BY DEF Init, FilesInv
<1>2. LedgerInv /\ FilesInv => OutcomeAccounted
  <2> SUFFICES ASSUME LedgerInv, FilesInv PROVE OutcomeAccounted
    OBVIOUS
  <2>1. phase = "DONE" => summary # "none" /\ Complete
    BY DEF LedgerInv, OutcomeInv
  <2>2. Published \cap (SortedOut \cup review) = {} /\ SortedOut \subseteq review
    BY DEF Published, SortedOut, FilesInv
  <2>3. \A j \in SortedOut : rejected[j] = tuned[j]
    BY DEF SortedOut, FilesInv
  <2>4. summary # "none" => phase = "DONE"
    BY DEF FilesInv
  <2>5. QED
    BY <2>1, <2>2, <2>3, <2>4 DEF OutcomeAccounted
<1>3. QED
  BY <1>1, <1>2, FilesStep, Invariance, LedgerSound, PTL DEF Spec

(* The assessment a reviewer reads never contradicts the gates.            *)
THEOREM AssessmentSound == Spec => []AssessmentMatchesOutcome
<1>1. LedgerInv => AssessmentMatchesOutcome
  <2> SUFFICES ASSUME LedgerInv, phase = "DONE", NEW j \in Jobs
               PROVE  /\ accepted[j] # None => benchmark[j].assessment # "review_required"
                      /\ ~ cfg.execute_benchmark =>
                           (accepted[j] # None
                              <=> benchmark[j].assessment = "approved_unbenchmarked")
    BY DEF AssessmentMatchesOutcome
  <2>1. accepted[j] # None <=> Passed(j)
    BY DEF LedgerInv, OutcomeInv
  <2>2. benchmark[j].assessment = Assessment(j, benchmark[j].improved)
    BY DEF LedgerInv, ReportInv, ReportFresh, Deciding
  <2>3. QED
    BY <2>1, <2>2 DEF Assessment, Passed, Blocked
<1>2. QED
  BY <1>1, LedgerSound, PTL

(* A later round reads feedback about the candidate it rewrites.           *)
THEOREM FeedbackSound == Spec => []FeedbackAboutCandidate
<1>1. LedgerInv => FeedbackAboutCandidate
  BY DEF LedgerInv, FeedbackInv, FeedbackAboutCandidate, FeedbackFresh
<1>2. QED
  BY <1>1, LedgerSound, PTL

(* A writer that fails in a later round does not cost the candidate.       *)
THEOREM KeptCandidateSound == Spec => FailedRewriteKeepsCandidate
<1> DEFINE Keeps(j) ==
       /\ phase = "TUNE" /\ tuning_round > 1
       /\ \/ writer'[j] = "failed"
          \/ /\ writer'[j] = "unusable"
             /\ \/ cfg.critics # {}
                \/ benchmark[j].oracle_validation_passed = "fail"
       => tuned'[j] = tuned[j]
<1>1. IInv /\ LedgerInv /\ [Next]_vars => [\A j \in queue \ queue' : Keeps(j)]_vars
  <2> SUFFICES ASSUME IInv, LedgerInv, Next, phase = "TUNE", tuning_round > 1,
                      NEW j \in queue \ queue',
                      \/ writer'[j] = "failed"
                      \/ /\ writer'[j] = "unusable"
                         /\ \/ cfg.critics # {}
                            \/ benchmark[j].oracle_validation_passed = "fail"
               PROVE  tuned'[j] = tuned[j]
    OBVIOUS
  <2>1. j \in Jobs
    BY DEF IInv, TypeOK
  <2>2. CASE \E k \in Jobs : TuneJob(k)
    <3>1. PICK k \in Jobs : TuneJob(k)
      BY <2>2
    <3>2. k = j /\ open /\ queue' = queue \ {k}
      BY <3>1 DEF TuneJob, Take
    <3>3. PICK a \in WriterAnswers : /\ writer' = [writer EXCEPT ![j] = a]
                                     /\ tuned' = [tuned EXCEPT ![j] = Written(j, a)]
      BY <3>1, <3>2 DEF TuneJob
    <3>4. writer'[j] = a /\ tuned'[j] = Written(j, a)
      BY <2>1, <3>3 DEF IInv, TypeOK
    <3>5. tuned[j] # None
      BY <2>1, CountFacts DEF LedgerInv, CandidateInv, IInv
    <3>6. CASE a = "failed"
      BY <3>4, <3>5, <3>6 DEF Written, Preserved
    <3>7. CASE a = "unusable"
      <4>1. HasFeedback(j)
        BY <2>1, <3>2, <3>4, <3>5, <3>7
           DEF LedgerInv, FeedbackInv, FeedbackFresh, HasFeedback
      <4>2. QED
        BY <3>4, <3>5, <3>7, <4>1 DEF Written, Fallback
    <3>8. QED
      BY <3>4, <3>6, <3>7
  <2>3. CASE ~ \E k \in Jobs : TuneJob(k)
    <3>1. tuned' = tuned
      BY <2>3 DEF Next, Step, Stop, Raise, vars, textVars, CollectSql, CollectMetadata,
         BuildRag, AnalyzeSql, BeginTune, EndTune, BeginCritique, CritiqueJob,
         EndCritique, BeginValidate, ValidateJob, EndValidate, BeginBenchmark,
         BenchmarkJob, EndBenchmark, Verify, RetryJobs, GiveUp, NotifyUser,
         BeginMove, PublishJob, SortJob, FinishSuccess, FinishFailed
    <3>2. QED
      BY <3>1
  <2>4. QED
    BY <2>2, <2>3
<1>2. QED
  BY <1>1, Invariance, LedgerSound, PTL DEF Spec, FailedRewriteKeepsCandidate
-----------------------------------------------------------------------------
(* The pipeline implements GatedRelease.  The invariant supplies what the  *)
(* step correspondence needs: nothing is released inside the loop, and     *)
(* whoever is released passed with fresh verdicts.                         *)
LEMMA GateNames ==
  /\ OracleGate \notin Critics /\ SpeedGate \notin Critics /\ NoGate \notin Critics
  /\ OracleGate # SpeedGate /\ OracleGate # NoGate /\ SpeedGate # NoGate
  BY PipelineAssumption DEF OracleGate, SpeedGate, NoGate

LEMMA InitRefines == Init => Promise!Init
<1> SUFFICES ASSUME Init PROVE Promise!Init
  OBVIOUS
<1>1. TypeOK
  BY InitType
<1>2. RequiredGates \in SUBSET AllGates
  BY <1>1 DEF RequiredGates, AllGates, TypeOK, Config
<1>3. ASSUME NEW j \in Jobs, NEW g \in AllGates PROVE Says(j, g) = None
  BY DEF Init, Says, CriticSays, OracleSays, SpeedSays
<1>4. Verdicts = [j \in Jobs |-> [g \in AllGates |-> None]]
  BY <1>3 DEF Verdicts
<1>5. QED
  BY <1>2, <1>4 DEF Init, Promise!Init

(* A step that touches no text, verdict or output is a stuttering step.    *)
LEMMA SilentStep ==
  ASSUME UNCHANGED <<cfg, tuned, accepted, critiques, validated, measured,
                     benchmark>>
  PROVE  UNCHANGED Promise!gateVars
<1>1. RequiredGates' = RequiredGates
  BY DEF RequiredGates
<1>2. Verdicts' = Verdicts
  BY DEF Verdicts, Says, CriticSays, OracleSays, SpeedSays
<1>3. QED
  BY <1>1, <1>2 DEF Promise!gateVars

(* A step inside the loop that keeps the texts and moves each verdict to   *)
(* the present text, to none, or not at all is a Judge step.               *)
LEMMA JudgeStep ==
  ASSUME TypeOK', cfg' = cfg, tuned' = tuned, accepted' = accepted,
         \A j \in Jobs : accepted[j] = None,
         \A j \in Jobs, g \in AllGates :
           Says(j, g)' \in {Says(j, g), tuned[j], None}
  PROVE  Promise!Judge
<1>1. RequiredGates' = RequiredGates
  BY DEF RequiredGates
<1>2. ASSUME NEW j \in Jobs, NEW g \in AllGates
      PROVE  Says(j, g)' \in Nat \cup {None}
  <2>1. ASSUME g \in Critics PROVE CriticSays(j, g)' \in Nat \cup {None}
    BY <2>1 DEF CriticSays, TypeOK, Candidate
  <2>2. /\ OracleSays(j)' \in Nat \cup {None}
        /\ SpeedSays(j)' \in Nat \cup {None}
    BY DEF OracleSays, SpeedSays, TypeOK, Candidate
  <2>3. QED
    BY <2>1, <2>2 DEF Says
<1>3. /\ Verdicts = [j \in Jobs |-> [g \in AllGates |-> Says(j, g)]]
      /\ Verdicts' = [j \in Jobs |-> [g \in AllGates |-> Says(j, g)']]
  BY DEF Verdicts, AllGates
<1> HIDE DEF Verdicts
<1>4. Verdicts' \in [Jobs -> [AllGates -> Nat \cup {None}]]
  BY <1>2, <1>3
<1>5. \A j \in Jobs, g \in AllGates :
        Verdicts'[j][g] \in {Verdicts[j][g], tuned[j], None}
  BY <1>3
<1>6. QED
  BY <1>1, <1>4, <1>5 DEF Promise!Judge

LEMMA CritiqueJudges ==
  ASSUME IInv, TypeOK', NEW c \in Critics, NEW k \in Jobs, CritiqueJob(c, k)
  PROVE  Promise!Judge
<1>1. /\ UNCHANGED <<cfg, tuned, benchmark, validated, measured, accepted>>
      /\ phase = "CRITIQUE"
  BY DEF CritiqueJob, textVars, outVars
<1>2. PICK ok \in BOOLEAN :
        critiques' = [critiques EXCEPT ![k][c] = [ok |-> ok, on |-> tuned[k]]]
  BY DEF CritiqueJob
<1>3. ASSUME NEW j \in Jobs, NEW d \in Critics
      PROVE  CriticSays(j, d)' \in {CriticSays(j, d), tuned[j], None}
  <2>1. CASE j = k /\ d = c
    BY <1>2, <2>1 DEF CriticSays, IInv, TypeOK
  <2>2. CASE ~ (j = k /\ d = c)
    BY <1>2, <2>2 DEF CriticSays, IInv, TypeOK
  <2>3. QED
    BY <2>1, <2>2
<1>4. \A j \in Jobs, g \in AllGates :
        Says(j, g)' \in {Says(j, g), tuned[j], None}
  BY <1>1, <1>3 DEF Says, OracleSays, SpeedSays
<1>5. \A j \in Jobs : accepted[j] = None
  BY <1>1 DEF IInv, OutputInv, Moving
<1>6. QED
  BY <1>1, <1>4, <1>5, JudgeStep

(* The other handlers change the fields of the benchmark report: a verdict *)
(* goes to the text just looked at, or is withdrawn.                       *)
LEMMA ReportJudges ==
  ASSUME IInv, TypeOK',
         UNCHANGED <<cfg, tuned, critiques, accepted>>, phase \in Looping,
         \A j \in Jobs :
           /\ OracleSays(j)' \in {OracleSays(j), tuned[j], None}
           /\ SpeedSays(j)' \in {SpeedSays(j), tuned[j], None}
  PROVE  Promise!Judge
<1>1. \A j \in Jobs, g \in AllGates :
        Says(j, g)' \in {Says(j, g), tuned[j], None}
  BY DEF Says, CriticSays
<1>2. \A j \in Jobs : accepted[j] = None
  BY DEF IInv, OutputInv, Moving, Looping
<1>3. QED
  BY <1>1, <1>2, JudgeStep DEF IInv

LEMMA EndCritiqueJudges == ASSUME IInv, TypeOK', EndCritique PROVE Promise!Judge
<1>1. /\ UNCHANGED <<cfg, tuned, critiques, validated, measured, accepted>>
      /\ phase = "CRITIQUE"
  BY DEF EndCritique, End, textVars, outVars
<1>2. ASSUME NEW j \in Jobs
      PROVE  /\ OracleSays(j)' = OracleSays(j)
             /\ SpeedSays(j)' \in {SpeedSays(j), None}
  <2>1. benchmark[j] \in Report
    BY DEF IInv, TypeOK
  <2>2. benchmark'[j] \in {benchmark[j], CritiqueVerdict(j)}
    BY DEF EndCritique
  <2>3. /\ CritiqueVerdict(j).oracle_validation_passed
             = benchmark[j].oracle_validation_passed
        /\ CritiqueVerdict(j).improved \in {benchmark[j].improved, "fail"}
    BY <2>1 DEF CritiqueVerdict, Report
  <2>4. QED
    BY <1>1, <2>2, <2>3 DEF OracleSays, SpeedSays
<1>3. QED
  BY <1>1, <1>2, ReportJudges DEF Looping

LEMMA ValidateJudges ==
  ASSUME IInv, TypeOK', NEW k \in Jobs, ValidateJob(k) PROVE Promise!Judge
<1>1. /\ UNCHANGED <<cfg, tuned, critiques, measured, accepted>>
      /\ phase = "VALIDATE_ORACLE"
      /\ validated' = [validated EXCEPT ![k] = tuned[k]]
  BY DEF ValidateJob, Take, textVars, outVars
<1>2. PICK ok \in BOOLEAN : benchmark' = [benchmark EXCEPT ![k] = OracleVerdict(k, ok)]
  BY DEF ValidateJob
<1>3. /\ OracleVerdict(k, ok).improved \in {benchmark[k].improved, "fail"}
      /\ \A j \in Jobs \ {k} : /\ benchmark'[j] = benchmark[j]
                               /\ validated'[j] = validated[j]
      /\ benchmark'[k] = OracleVerdict(k, ok) /\ validated'[k] = tuned[k]
  BY <1>1, <1>2 DEF IInv, TypeOK, OracleVerdict, Report
<1>4. ASSUME NEW j \in Jobs
      PROVE  /\ OracleSays(j)' \in {OracleSays(j), tuned[j], None}
             /\ SpeedSays(j)' \in {SpeedSays(j), None}
  BY <1>1, <1>3 DEF OracleSays, SpeedSays
<1>5. QED
  BY <1>1, <1>4, ReportJudges DEF Looping

LEMMA BenchmarkJudges ==
  ASSUME IInv, TypeOK', NEW k \in Jobs, BenchmarkJob(k) PROVE Promise!Judge
<1>1. /\ UNCHANGED <<cfg, tuned, critiques, validated, accepted>>
      /\ phase = "BENCHMARK"
      /\ measured' = [measured EXCEPT ![k] = tuned[k]]
  BY DEF BenchmarkJob, Take, textVars, outVars
<1>2. PICK speed : benchmark' = [benchmark EXCEPT ![k] = BenchmarkReport(k, speed)]
  BY DEF BenchmarkJob
<1>3. /\ \A j \in Jobs \ {k} : /\ benchmark'[j] = benchmark[j]
                               /\ measured'[j] = measured[j]
      /\ measured'[k] = tuned[k]
      /\ benchmark'[k].oracle_validation_passed
           = benchmark[k].oracle_validation_passed
  BY <1>1, <1>2 DEF IInv, TypeOK, BenchmarkReport, Report
<1>4. ASSUME NEW j \in Jobs
      PROVE  /\ OracleSays(j)' = OracleSays(j)
             /\ SpeedSays(j)' \in {SpeedSays(j), tuned[j], None}
  BY <1>1, <1>3 DEF OracleSays, SpeedSays
<1>5. QED
  BY <1>1, <1>4, ReportJudges DEF Looping

LEMMA TuneProposes ==
  ASSUME IInv, TypeOK', NEW k \in Jobs, TuneJob(k) PROVE Promise!Propose(k)
<1>1. UNCHANGED <<cfg, critiques, benchmark, validated, measured, accepted>>
  BY DEF TuneJob, gateVars, outVars
<1>2. PICK a \in WriterAnswers : tuned' = [tuned EXCEPT ![k] = Written(k, a)]
  BY DEF TuneJob
<1>3. Written(k, a) \in Nat
  BY DEF IInv, TypeOK, Candidate, Written, Fallback, Preserved, Original, None
<1>4. /\ tuned'[k] = Written(k, a)
      /\ tuned' = [tuned EXCEPT ![k] = tuned'[k]]
  BY <1>2 DEF IInv, TypeOK
<1>5. accepted[k] = None
  BY DEF TuneJob, Take, IInv, OutputInv, Moving
<1>6. RequiredGates' = RequiredGates /\ Verdicts' = Verdicts
  BY <1>1 DEF RequiredGates, Verdicts, Says, CriticSays, OracleSays, SpeedSays
<1>7. QED
  BY <1>1, <1>3, <1>4, <1>5, <1>6 DEF Promise!Propose

(* A job that passes with fresh verdicts is cleared.                       *)
LEMMA PassedCleared ==
  ASSUME TypeOK, NEW j \in Jobs, Passed(j),
         CriticsFresh(j), OracleFresh(j), SpeedFresh(j)
  PROVE  Promise!Cleared(j)
<1> SUFFICES ASSUME NEW g \in RequiredGates PROVE Verdicts[j][g] = tuned[j]
  BY DEF Promise!Cleared
<1>1. cfg.critics \subseteq Critics
  BY DEF TypeOK, Config
<1>2. CASE g \in Critics
  <2>1. cfg.require_critic_approval /\ g \in cfg.critics
    BY <1>2, GateNames DEF RequiredGates
  <2>2. critiques[j][g] = [ok |-> TRUE, on |-> tuned[j]]
    BY <2>1, PassedIsFresh
  <2>3. QED
    BY <1>2, <2>2 DEF Verdicts, AllGates, Says, CriticSays
<1>3. CASE g \notin Critics
  <2>1. g # NoGate
    BY <1>1, <1>3, PassedIsFresh, GateNames DEF RequiredGates
  <2>2. CASE g = OracleGate
    <3>1. cfg.require_oracle_validation
      BY <1>1, <2>2, GateNames DEF RequiredGates
    <3>2. QED
      BY <1>3, <2>2, <3>1, PassedIsFresh DEF Verdicts, AllGates, Says, OracleSays
  <2>3. CASE g = SpeedGate
    <3>1. cfg.execute_benchmark
      BY <1>1, <2>3, GateNames DEF RequiredGates
    <3>2. QED
      BY <1>3, <2>3, <3>1, PassedIsFresh, GateNames
         DEF Verdicts, AllGates, Says, SpeedSays
  <2>4. QED
    BY <1>1, <1>3, <2>1, <2>2, <2>3 DEF RequiredGates
<1>4. QED
  BY <1>2, <1>3

LEMMA PublishReleases ==
  ASSUME IInv, TypeOK', NEW k \in Jobs, PublishJob(k) \/ SortJob(k)
  PROVE  Promise!Release(k) \/ UNCHANGED Promise!gateVars
<1>1. /\ UNCHANGED <<cfg, tuned, critiques, benchmark, validated, measured>>
      /\ phase \in {"SUCCESS", "FAILED"}
  BY DEF PublishJob, SortJob, Take, textVars, gateVars
<1>2. CriticsFresh(k) /\ OracleFresh(k) /\ SpeedFresh(k)
  BY <1>1 DEF IInv, CriticInv, OracleInv, SpeedInv, Deciding
<1>3. \/ Passed(k) /\ accepted' = [accepted EXCEPT ![k] = tuned[k]]
      \/ UNCHANGED accepted
  BY DEF PublishJob, SortJob, IInv, OutputInv, Take
<1>4. CASE accepted' = accepted
  BY <1>1, <1>4, SilentStep
<1>5. CASE accepted' # accepted
  <2>1. Passed(k) /\ accepted' = [accepted EXCEPT ![k] = tuned[k]]
    BY <1>3, <1>5
  <2>2. accepted[k] # tuned[k]
    BY <1>5, <2>1 DEF IInv, TypeOK
  <2>3. accepted[k] = None /\ tuned[k] # None
    BY <2>2 DEF IInv, AcceptedPassedGates
  <2>4. Promise!Cleared(k)
    BY <1>2, <2>1, PassedCleared DEF IInv
  <2>5. RequiredGates' = RequiredGates /\ Verdicts' = Verdicts
    BY <1>1 DEF RequiredGates, Verdicts, Says, CriticSays, OracleSays, SpeedSays
  <2>6. QED
    BY <1>1, <2>1, <2>3, <2>4, <2>5 DEF Promise!Release
<1>6. QED
  BY <1>4, <1>5

LEMMA StepRefines == IInv /\ IInv' /\ [Next]_vars => [Promise!Next]_(Promise!gateVars)
<1> SUFFICES ASSUME IInv, IInv', [Next]_vars
             PROVE  Promise!Next \/ UNCHANGED Promise!gateVars
  OBVIOUS
<1>1. TypeOK'
  BY DEF IInv
<1>2. CASE \/ CollectSql \/ CollectMetadata \/ BuildRag \/ AnalyzeSql
           \/ BeginTune \/ EndTune \/ BeginCritique \/ BeginValidate
           \/ EndValidate \/ BeginBenchmark \/ EndBenchmark
           \/ Verify \/ RetryJobs \/ GiveUp \/ NotifyUser \/ BeginMove
           \/ FinishSuccess \/ FinishFailed \/ Raise \/ Stop \/ UNCHANGED vars
  <2>1. UNCHANGED <<cfg, tuned, accepted, critiques, validated, measured, benchmark>>
    BY <1>2 DEF CollectSql, CollectMetadata, BuildRag, AnalyzeSql, BeginTune,
       EndTune, BeginCritique, BeginValidate, EndValidate, BeginBenchmark,
       EndBenchmark, Verify, RetryJobs, GiveUp, NotifyUser, BeginMove,
       FinishSuccess, FinishFailed, Raise, Stop, vars, textVars, gateVars, outVars
  <2>2. QED
    BY <2>1, SilentStep
<1>3. QED
  BY <1>1, <1>2, TuneProposes, CritiqueJudges, EndCritiqueJudges, ValidateJudges,
     BenchmarkJudges, PublishReleases DEF Next, Step, Promise!Next

(* Every behaviour of the pipeline is one of GatedRelease.                 *)
THEOREM PromiseKept == Spec => ReleasesAsPromised
<1>1. IInv /\ IInv' /\ [Next]_vars => [Promise!Next]_(Promise!gateVars)
  BY StepRefines
<1>2. QED
  BY <1>1, InitRefines, Invariance, PTL DEF Spec, ReleasesAsPromised, Promise!Spec

-----------------------------------------------------------------------------
(***************************************************************************)
(* Why a run ends: the measure that every step of it lowers.  First come   *)
(* the rounds the two options still allow, then the phases up to the end   *)
(* of the round, then what the open handler has still to do, which is      *)
(* finite as the lists of jobs and critics are.                            *)
(***************************************************************************)
RoundsLeft == (MaxRetry - retry_count) + (CriticRetuneRounds - critic_retune_count)

Rank ==
  CASE phase = "COLLECT_SQL"           -> 12
    [] phase = "COLLECT_METADATA"      -> 11
    [] phase = "BUILD_RAG"             -> 10
    [] phase = "ANALYZE"               -> 9
    [] phase = "TUNE"                  -> 8
    [] phase = "CRITIQUE"              -> 7
    [] phase = "VALIDATE_ORACLE"       -> 6
    [] phase = "BENCHMARK"             -> 5
    [] phase = "VERIFY"                -> 4
    [] phase = "REANALYZE"             -> 3
    [] phase = "WAIT_USER"             -> 2
    [] phase \in {"SUCCESS", "FAILED"} -> 1
    [] phase \in Ended                 -> 0

Opening == IF open THEN 0 ELSE 1

PhasesLeft == 2 * Rank + Opening

WorkShrinks ==
  \/ queue' \subseteq queue /\ queue' # queue /\ UNCHANGED calls
  \/ calls' \subseteq calls /\ calls' # calls /\ UNCHANGED queue

Shortens ==
  \/ RoundsLeft' < RoundsLeft
  \/ RoundsLeft' = RoundsLeft /\ PhasesLeft' < PhasesLeft
  \/ RoundsLeft' = RoundsLeft /\ PhasesLeft' = PhasesLeft /\ WorkShrinks

Bounded == RoundsLeft \in Nat /\ PhasesLeft \in Nat

StepsShorten == [][Step \/ Raise => Shortens]_vars

LEMMA PhaseFacts ==
  ASSUME TypeOK
  PROVE  PhasesLeft \in Nat /\ Rank \in 0 .. 12
<1>1. Rank \in 0 .. 12
  BY DEF TypeOK, Phases, Ended, Rank
<1>2. QED
  BY <1>1 DEF PhasesLeft, Opening

LEMMA PhasesShrink ==
  ASSUME Rank \in 0 .. 12, Rank' \in 0 .. 12, Rank' < Rank,
         Opening \in {0, 1}, Opening' \in {0, 1}
  PROVE  PhasesLeft' < PhasesLeft
<1>1. PhasesLeft = 2 * Rank + Opening /\ PhasesLeft' = 2 * Rank' + Opening'
  BY DEF PhasesLeft
<1>2. \A a, b \in 0 .. 12, k, m \in {0, 1} : a < b => 2 * a + k < 2 * b + m
  OBVIOUS
<1>3. 2 * Rank' + Opening' < 2 * Rank + Opening
  BY <1>2, Zenon
<1>4. QED
  BY <1>1, <1>3, Zenon

LEMMA StepShortens == ASSUME IInv, TypeOK', Step \/ Raise PROVE Shortens
<1>1. TypeOK /\ RoundsLeft \in Nat /\ Rank \in 0 .. 12 /\ Rank' \in 0 .. 12
  <2>1. TypeOK /\ RoundsLeft \in Nat /\ Rank \in 0 .. 12
    BY CountFacts, PhaseFacts DEF IInv, CountInv, RoundsLeft
  <2>2. Rank' \in 0 .. 12
    BY DEF TypeOK, Phases, Ended, Rank
  <2>3. QED
    BY <2>1, <2>2
<1>2. CASE \/ CollectSql \/ CollectMetadata \/ BuildRag \/ AnalyzeSql \/ Verify
           \/ GiveUp \/ NotifyUser \/ Raise
  <2>1. UNCHANGED <<open, RoundsLeft>>
    BY <1>2 DEF CollectSql, CollectMetadata, BuildRag, AnalyzeSql, Verify, GiveUp,
       NotifyUser, Raise, Goto, countVars, RoundsLeft
  <2>2. Rank' < Rank
    BY <1>2 DEF CollectSql, CollectMetadata, BuildRag, AnalyzeSql, Verify, GiveUp,
       NotifyUser, Raise, Goto, Phases, Ended, Rank
  <2>3. Opening \in {0, 1} /\ Opening' \in {0, 1}
    BY <2>1 DEF Opening
  <2>4. PhasesLeft' < PhasesLeft
    BY <1>1, <2>2, <2>3, PhasesShrink, Zenon
  <2>5. QED
    BY <2>1, <2>4 DEF Shortens
<1>3. CASE BeginTune \/ BeginCritique \/ BeginValidate \/ BeginBenchmark \/ BeginMove
  <2>1. ~ open /\ open' = TRUE /\ UNCHANGED <<phase, RoundsLeft>>
    BY <1>3 DEF BeginTune, BeginCritique, BeginValidate, BeginBenchmark, BeginMove,
       Begin, countVars, RoundsLeft
  <2>2. Rank' = Rank
    BY <2>1 DEF Rank
  <2>3. QED
    BY <1>1, <2>1, <2>2 DEF Opening, PhasesLeft, Shortens
<1>4. CASE EndTune \/ EndValidate \/ EndBenchmark \/ FinishSuccess \/ FinishFailed
  <2>1. open /\ open' = FALSE /\ UNCHANGED RoundsLeft
    BY <1>4 DEF EndTune, EndValidate, EndBenchmark, FinishSuccess, FinishFailed, End,
       countVars, RoundsLeft
  <2>2. Rank' < Rank
    BY <1>4 DEF EndTune, EndValidate, EndBenchmark, FinishSuccess, FinishFailed, End,
       Ended, Rank
  <2>3. Opening \in {0, 1} /\ Opening' \in {0, 1}
    BY <2>1 DEF Opening
  <2>4. PhasesLeft' < PhasesLeft
    BY <1>1, <2>2, <2>3, PhasesShrink, Zenon
  <2>5. QED
    BY <2>1, <2>4 DEF Shortens
<1>5. CASE EndCritique
  <2>1. CASE ShouldRetune
    BY <1>1, <1>5, <2>1, CountFacts DEF EndCritique, ShouldRetune, RoundsLeft, Shortens
  <2>2. CASE ~ ShouldRetune
    <3>1. phase = "CRITIQUE" /\ phase' = "VALIDATE_ORACLE" /\ open /\ open' = FALSE
      BY <1>5, <2>2 DEF EndCritique, End
    <3>2. UNCHANGED <<retry_count, critic_retune_count>>
      BY <1>5, <2>2 DEF EndCritique
    <3>3. Rank' < Rank
      BY <3>1 DEF Rank, Ended
    <3>4. RoundsLeft' = RoundsLeft
      BY <3>2 DEF RoundsLeft
    <3>5. Opening \in {0, 1} /\ Opening' \in {0, 1}
      BY <3>1 DEF Opening
    <3>6. QED
      BY <1>1, <3>3, <3>4, <3>5, PhasesShrink DEF Shortens
  <2>3. QED
    BY <2>1, <2>2
<1>6. CASE RetryJobs
  BY <1>1, <1>6, CountFacts DEF RetryJobs, RoundsLeft, Shortens
<1>7. ASSUME NEW j \in Jobs,
             \/ TuneJob(j) \/ ValidateJob(j) \/ BenchmarkJob(j) \/ PublishJob(j)
             \/ SortJob(j)
      PROVE  Shortens
  <2>1. /\ j \in queue /\ queue' = queue \ {j}
        /\ UNCHANGED <<phase, open, calls, RoundsLeft>>
    BY <1>7 DEF TuneJob, ValidateJob, BenchmarkJob, PublishJob, SortJob, Take, First,
       countVars, RoundsLeft
  <2>2. UNCHANGED PhasesLeft
    BY <2>1 DEF PhasesLeft, Opening, Rank
  <2>3. QED
    BY <2>1, <2>2 DEF WorkShrinks, Shortens
<1>8. ASSUME NEW c \in Critics, NEW j \in Jobs, CritiqueJob(c, j) PROVE Shortens
  <2>1. /\ <<c, j>> \in calls /\ calls' = calls \ {<<c, j>>}
        /\ UNCHANGED <<phase, open, queue, RoundsLeft>>
    BY <1>8 DEF CritiqueJob, FirstCall, countVars, RoundsLeft
  <2>2. UNCHANGED PhasesLeft
    BY <2>1 DEF PhasesLeft, Opening, Rank
  <2>3. QED
    BY <2>1, <2>2 DEF WorkShrinks, Shortens
<1>9. QED
  BY <1>2, <1>3, <1>4, <1>5, <1>6, <1>7, <1>8 DEF Step

(* Every step of a run lowers a measure that is bounded below: the retry   *)
(* loop, the critic loop and the loops over jobs between them cannot go    *)
(* round for ever.                                                         *)
THEOREM RunShortens == Spec => []Bounded /\ StepsShorten
<1>1. IInv => Bounded
  BY CountFacts, PhaseFacts DEF IInv, CountInv, RoundsLeft, Bounded
<1>2. IInv /\ [Next]_vars => [Step \/ Raise => Shortens]_vars
  <2> SUFFICES ASSUME IInv, [Next]_vars, Step \/ Raise PROVE Shortens
    OBVIOUS
  <2>1. TypeOK'
    BY NextType DEF IInv
  <2>2. QED
    BY <2>1, StepShortens
<1>3. QED
  BY <1>1, <1>2, Invariance, PTL DEF Spec, StepsShorten
=============================================================================
