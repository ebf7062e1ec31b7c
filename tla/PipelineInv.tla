---------------------------- MODULE PipelineInv ----------------------------
(***************************************************************************)
(* The inductive strengthening behind the theorems of PipelineProofs: which*)
(* verdicts are about the current candidate, handler by handler.           *)
(***************************************************************************)
EXTENDS Pipeline

Frozen(j) == status[j] = "VERIFYING"

CriticsFresh(j) ==
  IF cfg.critics = {}
  THEN benchmark[j].critic_approved = "missing"
  ELSE /\ \A c \in cfg.critics : critiques[j][c].on = tuned[j]
       /\ benchmark[j].critic_approved = VerdictOf(CriticApproved(j))
OracleFresh(j) ==
  benchmark[j].oracle_validation_passed = "pass" => validated[j] = tuned[j]
SpeedFresh(j) == measured[j] = tuned[j]

Looping == {"COLLECT_SQL", "COLLECT_METADATA", "BUILD_RAG", "ANALYZE", "TUNE",
            "CRITIQUE", "VALIDATE_ORACLE", "BENCHMARK", "VERIFY"}
Deciding == {"REANALYZE", "WAIT_USER", "SUCCESS", "FAILED", "DONE"}
Moving   == {"SUCCESS", "FAILED", "DONE", "ABORTED"}

(* Only handlers with a loop are ever open, and those of the tuning loop   *)
(* work on unfrozen jobs only.                                             *)
Handlers == {"TUNE", "CRITIQUE", "VALIDATE_ORACLE", "BENCHMARK", "SUCCESS",
             "FAILED"}

WorkInv ==
  /\ open => phase \in Handlers \cup {"ABORTED"}
  /\ phase \in {"TUNE", "VALIDATE_ORACLE", "BENCHMARK"} /\ open => queue \subseteq Active
  /\ phase = "VALIDATE_ORACLE" /\ open /\ ~ cfg.oracle_validate => queue = {}
  /\ phase = "CRITIQUE" /\ open => calls \subseteq Critics \X Active

(* A frozen job keeps fresh verdicts and, inside the loop, passes; all are *)
(* frozen when a retry is considered.                                      *)
FrozenInv ==
  /\ phase = "REANALYZE" => \A j \in Jobs : Frozen(j)
  /\ \A j \in Jobs : Frozen(j) =>
       /\ CriticsFresh(j) /\ OracleFresh(j) /\ SpeedFresh(j)
       /\ phase \in Looping => Passed(j)

CriticInv ==
  /\ cfg.critics = {} => \A j \in Jobs : benchmark[j].critic_approved = "missing"
  /\ phase = "CRITIQUE" /\ open =>
       \A j \in Active, c \in cfg.critics :
         <<c, j>> \notin calls => critiques[j][c].on = tuned[j]
  /\ phase \in {"VALIDATE_ORACLE", "BENCHMARK", "VERIFY"} \cup Deciding =>
       \A j \in Jobs : CriticsFresh(j)

OracleInv ==
  /\ ~ cfg.oracle_validate =>
       \A j \in Jobs : benchmark[j].oracle_validation_passed = "missing"
  /\ phase = "VALIDATE_ORACLE" /\ open /\ cfg.oracle_validate =>
       \A j \in Active : j \notin queue => OracleFresh(j)
  /\ phase \in {"BENCHMARK", "VERIFY"} \cup Deciding => \A j \in Jobs : OracleFresh(j)

SpeedInv ==
  /\ phase = "BENCHMARK" /\ open => \A j \in Active : j \notin queue => SpeedFresh(j)
  /\ phase \in {"VERIFY"} \cup Deciding => \A j \in Jobs : SpeedFresh(j)

(* Nothing is published before the decision, and only success publishes    *)
(* without looking at the job again.                                       *)
OutputInv ==
  /\ phase \notin Moving => \A j \in Jobs : accepted[j] = None /\ rejected[j] = None
  /\ phase = "SUCCESS" => \A j \in Jobs : Passed(j)

(* What the counters say.                                                  *)
Turns == retry_count + critic_retune_count
BeforeTune == \/ phase \in {"COLLECT_SQL", "COLLECT_METADATA", "BUILD_RAG", "ANALYZE"}
              \/ phase = "TUNE" /\ ~ open

CountInv ==
  /\ retry_count <= MaxRetry /\ critic_retune_count <= CriticRetuneRounds
  /\ phase # "ABORTED" => tuning_round = Turns + (IF BeforeTune THEN 0 ELSE 1)
  /\ tuning_round <= Turns + 1
  /\ phase \in Looping => \A j \in Jobs : ~ Frozen(j) => retries[j] = Turns
  /\ phase \in Deciding => \A j \in Jobs : ~ Passed(j) => retries[j] = Turns
  /\ phase \in {"WAIT_USER", "FAILED"} => retry_count = MaxRetry

IInv ==
  /\ TypeOK /\ WorkInv /\ FrozenInv /\ CriticInv /\ OracleInv /\ SpeedInv
  /\ OutputInv /\ CountInv /\ AcceptedPassedGates /\ RetriesExhausted
-----------------------------------------------------------------------------
(* What the reports, the feedback files and the published results say on   *)
(* the way, for the properties IInv does not imply.                        *)
ReportFresh(j) == benchmark[j].assessment = Assessment(j, benchmark[j].improved)
FeedbackFresh(j) ==
  feedback[j].critics = tuned[j] /\ feedback[j].oracle \in {None, tuned[j]}

(* Only the first call of tune_sql finds a job without a candidate.        *)
CandidateInv ==
  /\ phase \in {"COLLECT_SQL", "COLLECT_METADATA", "BUILD_RAG"} => tuning_round = 0
  /\ \A j \in Jobs : tuned[j] = None =>
       /\ ~ Frozen(j)
       /\ \/ tuning_round = 0
          \/ tuning_round = 1 /\ phase \in {"TUNE", "ABORTED"} /\ open /\ j \in queue

ReportInv ==
  /\ \A j \in Jobs : Frozen(j) => ReportFresh(j)
  /\ phase = "BENCHMARK" /\ open => \A j \in Active : j \notin queue => ReportFresh(j)
  /\ phase \in {"VERIFY"} \cup Deciding => \A j \in Jobs : ReportFresh(j)

FeedbackInv ==
  /\ cfg.critics # {} =>
       /\ \A j \in Jobs : Frozen(j) => FeedbackFresh(j)
       /\ phase = "TUNE" /\ open /\ tuning_round > 1 => \A j \in queue : FeedbackFresh(j)
       /\ \/ phase \in {"VALIDATE_ORACLE", "BENCHMARK", "VERIFY"} \cup Deciding
          \/ phase \in {"ANALYZE", "TUNE"} /\ ~ open /\ tuning_round > 0
          => \A j \in Jobs : FeedbackFresh(j)
  /\ cfg.critics = {} =>
       \A j \in Jobs : benchmark[j].oracle_validation_passed = "fail" =>
                         feedback[j].oracle # None

Copied(j) == open /\ j \notin queue

OutcomeInv ==
  /\ phase \notin {"FAILED", "DONE", "ABORTED"} => review = {}
  /\ phase \in {"REANALYZE", "WAIT_USER", "FAILED"} => \E j \in Jobs : ~ Passed(j)
  /\ phase \in {"REANALYZE", "WAIT_USER"} => ~ open /\ \A j \in Jobs : Frozen(j)
  /\ phase = "SUCCESS" => \A j \in Jobs :
       /\ rejected[j] = None
       /\ accepted[j] = IF Copied(j) THEN tuned[j] ELSE None
  /\ phase = "FAILED" =>
       /\ review = {j \in Jobs : ~ Passed(j)}
       /\ \A j \in Jobs :
            /\ accepted[j] = IF Copied(j) /\ Passed(j) THEN tuned[j] ELSE None
            /\ rejected[j] = IF Copied(j) /\ ~ Passed(j) THEN tuned[j] ELSE None
            /\ status[j] = "SUCCESS" <=> Copied(j) /\ Passed(j)
  /\ phase = "DONE" =>
       /\ \A j \in Jobs : /\ accepted[j] # None <=> Passed(j)
                          /\ rejected[j] # None <=> ~ Passed(j)
                          /\ rejected[j] # None => rejected[j] = tuned[j]
       /\ summary # "none" /\ Complete

LedgerInv == CandidateInv /\ ReportInv /\ FeedbackInv /\ OutcomeInv
=============================================================================
