----------------------------- MODULE MCPipeline -----------------------------
(* Option sets for model-checking Pipeline.                                *)
EXTENDS PipelineRefinement

(* The settings run_files.sh starts an offline run with, critics added:    *)
(* Oracle validation is asked for but not required.                        *)
FileMode ==
  {o \in AllOptions :
     /\ o.llm /\ o.critics = Critics
     /\ ~ o.oracle_validate /\ ~ o.execute_benchmark
     /\ o.ORACLE_VALIDATE = "1"
     /\ o.REQUIRE_ORACLE_VALIDATION = "0" /\ o.REQUIRE_CRITIC_APPROVAL = ""}

(* One option record for each of seven configurations: two critics and     *)
(* validation; one critic, validation and benchmark; no critic and either  *)
(* no gate, validation, or validation and benchmark, each required; one    *)
(* critic and validation, not required; and the local writer.              *)
Plain ==
  {o \in AllOptions :
     /\ o.ORACLE_VALIDATE = ""
     /\ o.REQUIRE_ORACLE_VALIDATION = o.REQUIRE_CRITIC_APPROVAL
     /\ o.execute_benchmark => o.oracle_validate}

Representatives ==
  {o \in Plain :
     \/ /\ o.REQUIRE_CRITIC_APPROVAL = ""
        /\ \/ o.llm /\ o.critics = {1, 2} /\ o.oracle_validate /\ ~ o.execute_benchmark
           \/ o.llm /\ o.critics = {1} /\ o.execute_benchmark
           \/ o.llm /\ o.critics = {}
           \/ ~ o.llm /\ o.critics = {} /\ ~ o.oracle_validate
     \/ /\ o.REQUIRE_CRITIC_APPROVAL = "0"
        /\ o.llm /\ o.critics = {1} /\ o.oracle_validate /\ ~ o.execute_benchmark}

=============================================================================
