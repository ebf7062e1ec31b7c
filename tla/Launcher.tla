------------------------------ MODULE Launcher ------------------------------
(***************************************************************************)
(* How a run gets its settings: the two launchers (run_files.sh and        *)
(* _run_oracle_pipeline.sh) read flags from the environment, check Oracle  *)
(* with oracle_preflight.py and start main.py, whose PipelineManager reads *)
(* the same flags again, with a parser of its own and from .env files too. *)
(*                                                                         *)
(* A flag is one of a few spellings: the launchers and the pipeline agree  *)
(* on "on" (1, true, ...) and "off" (0, ...); "y" and mixed-case "True"    *)
(* are each read by some of them only. ORACLE_DSN stands for the three     *)
(* connection settings, which are looked up alike: each place that defines *)
(* it names a database of its own.                                         *)
(***************************************************************************)
EXTENDS Integers

CONSTANTS Spellings,      \* what the environment may say of a flag
          FileSpellings   \* what the .env files may say of a flag

Flags  == {"ORACLE_VALIDATE", "REQUIRE_ORACLE_VALIDATION", "EXECUTE_BENCHMARK"}
Filed  == Flags \ {"EXECUTE_BENCHMARK"}     \* those the pipeline reads itself
Values == {"unset", "empty", "on", "off", "y", "True"}

ASSUME SpellingsAssumption == Spellings \subseteq Values
                              /\ FileSpellings \subseteq Values

VARIABLES
  mode,      \* the launcher: "files" or "oracle"
  env,       \* the flags as the environment has them
  file,      \* the flags as the .env files have them
  dsn,       \* where ORACLE_DSN is defined, and whether to an empty value
  stage,     \* "start", "driver", "preflight", "ready", "running", "refused"
  checked,   \* the place of the database the preflight passed on
  fellBack,  \* run_files.sh went on without Oracle
  cfg        \* the settings main.py runs with

vars == <<mode, env, file, dsn, stage, checked, fellBack, cfg>>

Nowhere == "nowhere"
NoRun == [execute |-> FALSE, validate |-> FALSE, required |-> FALSE,
          database |-> Nowhere]

-----------------------------------------------------------------------------
(* Where a setting is looked up, in order: by the preflight, and by the    *)
(* pipeline, which also looks next to the workspace and in the current     *)
(* directory.                                                              *)
PreflightPlaces_Fault ==              \* the preflight skips AUTORUN_ENV_FILE
  <<"environment", "script", "repo">>

PreflightPlaces == <<"environment", "AUTORUN_ENV_FILE", "script", "repo">>

PipelinePlaces ==
  <<"environment", "AUTORUN_ENV_FILE", "script", "repo", "workspace">>
Places == {PipelinePlaces[i] : i \in DOMAIN PipelinePlaces}

(* The first place that defines the setting counts, an empty value         *)
(* included; with an empty value nothing can be connected to.              *)
First(places, i) ==
  dsn[places[i]] # "unset" /\ \A k \in 1 .. i - 1 : dsn[places[k]] = "unset"

Database(places) ==
  IF \E i \in DOMAIN places : First(places, i) /\ dsn[places[i]] = "set"
  THEN places[CHOOSE i \in DOMAIN places : First(places, i)] ELSE Nowhere

(* flag_enabled of either launcher: run_files.sh lowers the case and does  *)
(* not know "y" (it says so on stderr and goes on as if off); the other    *)
(* knows a list of spellings and takes everything else for off.            *)
FlagEnabled(v) == v \in IF mode = "files" THEN {"on", "True"} ELSE {"on", "y"}
Enabled(f) == FlagEnabled(env[f])

(* _env and _env_bool: the environment hides the files, and a value that   *)
(* is empty leaves the default.                                            *)
Env(f) == IF env[f] # "unset" THEN env[f] ELSE file[f]
EnvBool(f, default) ==
  IF Env(f) \in {"unset", "empty"} THEN default ELSE Env(f) \in {"on", "y", "True"}

(* What __init__ makes of the arguments the launcher passes and of its own *)
(* reading of the flags.                                                   *)
Configured ==
  LET validate == \/ Enabled("ORACLE_VALIDATE")
                  \/ Enabled("EXECUTE_BENCHMARK")
                  \/ EnvBool("ORACLE_VALIDATE", FALSE)
  IN  [execute  |-> Enabled("EXECUTE_BENCHMARK"),
       validate |-> validate,
       required |-> EnvBool("REQUIRE_ORACLE_VALIDATION", validate),
       database |-> Database(PipelinePlaces)]

-----------------------------------------------------------------------------
Init ==
  /\ mode \in {"files", "oracle"}
  /\ env \in [Flags -> Spellings]
  /\ file \in [Filed -> FileSpellings]
  /\ dsn \in [Places -> {"unset", "empty", "set"}]
  /\ stage = "start"
  /\ checked = Nowhere
  /\ fellBack = FALSE
  /\ cfg = NoRun

Goto(s) == stage' = s /\ UNCHANGED <<mode, file, dsn>>

(* The defaults of run_files.sh are exported, so they hide the .env files. *)
Exported ==
  [f \in Flags |-> IF env[f] # "unset" THEN env[f]
                   ELSE IF f = "ORACLE_VALIDATE" THEN "on" ELSE "off"]

(* Either flag makes the run connect to Oracle.                            *)
NeedsOracle_Fault(e) ==               \* only the validation flag is looked at
  FlagEnabled(e["ORACLE_VALIDATE"])

NeedsOracle(e) ==
  FlagEnabled(e["ORACLE_VALIDATE"]) \/ FlagEnabled(e["EXECUTE_BENCHMARK"])

StartFiles ==
  /\ stage = "start" /\ mode = "files"
  /\ env' = Exported
  /\ Goto(IF NeedsOracle(Exported) THEN "driver" ELSE "ready")
  /\ UNCHANGED <<checked, fellBack, cfg>>

StartOracle ==
  /\ stage = "start" /\ mode = "oracle"
  /\ Goto("driver")
  /\ UNCHANGED <<env, checked, fellBack, cfg>>

(* run_files.sh without a usable Oracle stops if Oracle is required, else  *)
(* switches both flags off; the other launcher always stops.               *)
Refuses_Fault == mode = "oracle"      \* run_files.sh never refuses

Refuses == mode = "oracle" \/ Enabled("REQUIRE_ORACLE_VALIDATION")

WithoutOracle ==
  [env EXCEPT !["ORACLE_VALIDATE"] = "off", !["EXECUTE_BENCHMARK"] = "off"]

Unavailable ==
  IF Refuses
  THEN /\ Goto("refused")
       /\ UNCHANGED <<env, checked, fellBack, cfg>>
  ELSE /\ env' = WithoutOracle
       /\ fellBack' = TRUE
       /\ Goto("ready")
       /\ UNCHANGED <<checked, cfg>>

(* The driver can be imported (and, in oracle mode, validation is made     *)
(* mandatory before the preflight), or not.                                *)
DriverFound ==
  /\ stage = "driver"
  /\ env' = IF mode = "oracle"
            THEN [env EXCEPT !["REQUIRE_ORACLE_VALIDATION"] = "on"] ELSE env
  /\ Goto("preflight")
  /\ UNCHANGED <<checked, fellBack, cfg>>

DriverMissing == stage = "driver" /\ Unavailable

(* The preflight passes only on settings that are there; connecting,       *)
(* selecting, V$SQL or EXPLAIN PLAN may fail on any of them.               *)
PreflightPasses ==
  /\ stage = "preflight"
  /\ Database(PreflightPlaces) # Nowhere
  /\ checked' = Database(PreflightPlaces)
  /\ Goto("ready")
  /\ UNCHANGED <<env, fellBack, cfg>>

PreflightFails == stage = "preflight" /\ Unavailable

Launch ==
  /\ stage = "ready"
  /\ cfg' = Configured
  /\ Goto("running")
  /\ UNCHANGED <<env, checked, fellBack>>

Stop == stage \in {"running", "refused"} /\ UNCHANGED vars

Next ==
  \/ StartFiles \/ StartOracle
  \/ DriverFound \/ DriverMissing
  \/ PreflightPasses \/ PreflightFails
  \/ Launch \/ Stop

Spec == Init /\ [][Next]_vars

-----------------------------------------------------------------------------
(* Every variable has its type, and an Oracle run is only readied with a   *)
(* database that was checked.                                              *)
TypeOK ==
  /\ mode \in {"files", "oracle"}
  /\ env \in [Flags -> Values] /\ file \in [Filed -> Values]
  /\ dsn \in [Places -> {"unset", "empty", "set"}]
  /\ stage \in {"start", "driver", "preflight", "ready", "running", "refused"}
  /\ checked \in Places \cup {Nowhere}
  /\ mode = "oracle" /\ stage \in {"ready", "running"} => checked \in Places
  /\ fellBack \in BOOLEAN
  /\ cfg \in [execute : BOOLEAN, validate : BOOLEAN, required : BOOLEAN,
              database : Places \cup {Nowhere}]

(* run_files.sh says so when it meets a spelling it does not know.         *)
Complains(f) == mode = "files" /\ env[f] = "y"

(* The database a run collects from and validates on is the one the        *)
(* preflight checked, although each looks its settings up on its own.      *)
SameDatabase ==
  stage = "running" /\ checked # Nowhere => cfg.database = checked

(* No Oracle run starts, and no other run validates or benchmarks, without *)
(* a database the preflight passed: whatever .env says, the launcher's and *)
(* the pipeline's reading of the flags lead to the same decision (unless   *)
(* run_files.sh complained about the spelling).                            *)
CheckedBeforeRun ==
  stage = "running" /\ (mode = "oracle" \/ cfg.validate)
                    /\ ~ Complains("ORACLE_VALIDATE") =>
    checked # Nowhere

(* A run that went on without Oracle, as run_files.sh announces it, neither*)
(* validates nor benchmarks, and does not fail its statements for want of  *)
(* a validation (unless run_files.sh complained about the spelling).       *)
FallbackIsModelOnly ==
  stage = "running" /\ fellBack =>
    /\ ~ cfg.validate /\ ~ cfg.execute
    /\ Complains("REQUIRE_ORACLE_VALIDATION") \/ ~ cfg.required

(* What README.md says of run_oracle.sh: it performs validation            *)
(* mandatorily.                                                            *)
OracleRunValidates ==
  stage = "running" /\ mode = "oracle" => cfg.validate

=============================================================================
