--------------------------- MODULE LauncherProofs ---------------------------
(* Proofs about Launcher, for every set of spellings in the environment    *)
(* and in the .env files.                                                  *)
EXTENDS Launcher, TLAPS

Lookups == {PreflightPlaces, PipelinePlaces}

(* Looking up the database gives a place, or none.                         *)
LEMMA DatabaseType ==
  ASSUME NEW l \in Lookups PROVE Database(l) \in Places \cup {Nowhere}
<1>1. \A i \in DOMAIN l : l[i] \in Places
  BY DEF Lookups, Places, PreflightPlaces, PipelinePlaces
<1>2. QED
  BY <1>1 DEF Database

(* At most one place is the first.                                         *)
LEMMA FirstUnique ==
  ASSUME NEW l \in Lookups, NEW i \in DOMAIN l, NEW k \in DOMAIN l,
         First(l, i), First(l, k)
  PROVE  i = k
<1>1. DOMAIN l \subseteq Int
  BY DEF Lookups, PreflightPlaces, PipelinePlaces
<1>2. /\ \A m \in 1 .. i - 1 : dsn[l[m]] = "unset"
      /\ \A m \in 1 .. k - 1 : dsn[l[m]] = "unset"
      /\ dsn[l[i]] # "unset" /\ dsn[l[k]] # "unset"
  BY DEF First
<1>3. i >= 1 /\ k >= 1
  BY DEF Lookups, PreflightPlaces, PipelinePlaces
<1>4. QED
  BY <1>1, <1>2, <1>3

(* The pipeline finds what the preflight found: its list starts with the   *)
(* preflight's.                                                            *)
LEMMA SameLookup ==
  ASSUME Database(PreflightPlaces) # Nowhere
  PROVE  Database(PipelinePlaces) = Database(PreflightPlaces)
<1>1. \A i \in DOMAIN PreflightPlaces :
        i \in DOMAIN PipelinePlaces /\ PipelinePlaces[i] = PreflightPlaces[i]
  BY DEF PreflightPlaces, PipelinePlaces
<1>2. DOMAIN PreflightPlaces = 1 .. 4
  BY DEF PreflightPlaces
<1>3. \A i \in DOMAIN PreflightPlaces :
        First(PreflightPlaces, i) <=> First(PipelinePlaces, i)
  BY <1>1, <1>2 DEF First
<1>4. PICK i \in DOMAIN PreflightPlaces :
        First(PreflightPlaces, i) /\ dsn[PreflightPlaces[i]] = "set"
  BY DEF Database
<1>5. (CHOOSE k \in DOMAIN PreflightPlaces : First(PreflightPlaces, k)) = i
  BY <1>4, FirstUnique DEF Lookups
<1>6. (CHOOSE k \in DOMAIN PipelinePlaces : First(PipelinePlaces, k)) = i
  BY <1>1, <1>3, <1>4, FirstUnique DEF Lookups
<1>7. QED
  BY <1>1, <1>3, <1>4, <1>5, <1>6 DEF Database

(* The inductive invariant: a run that is ready was checked, or went on    *)
(* without Oracle, or asked for nothing that needs it; nobody changes the  *)
(* settings in between.                                                    *)
Checked == checked = Database(PreflightPlaces) /\ checked # Nowhere

ModelOnly ==
  /\ mode = "files" /\ env["ORACLE_VALIDATE"] = "off"
  /\ env["EXECUTE_BENCHMARK"] = "off" /\ ~ Enabled("REQUIRE_ORACLE_VALIDATION")

Unasked == mode = "files" /\ ~ NeedsOracle(env)

IInv ==
  /\ TypeOK
  /\ mode = "files" /\ stage # "start" => \A f \in Flags : env[f] # "unset"
  /\ stage \in {"start", "driver", "preflight", "refused"} =>
       checked = Nowhere /\ ~ fellBack
  /\ fellBack => ModelOnly /\ checked = Nowhere
  /\ stage \in {"ready", "running"} => Checked \/ fellBack \/ Unasked
  /\ checked # Nowhere => Checked
  /\ stage = "running" => cfg = Configured

LEMMA ConfiguredType == ASSUME TypeOK PROVE
  Configured \in [execute : BOOLEAN, validate : BOOLEAN, required : BOOLEAN,
                  database : Places \cup {Nowhere}]
<1>1. \A f : Enabled(f) \in BOOLEAN
  BY DEF Enabled, FlagEnabled
<1>2. ASSUME NEW f, NEW d \in BOOLEAN PROVE EnvBool(f, d) \in BOOLEAN
  <2>1. CASE Env(f) \in {"unset", "empty"}
    BY <2>1 DEF EnvBool
  <2>2. CASE Env(f) \notin {"unset", "empty"}
    BY <2>2 DEF EnvBool
  <2>3. QED
    BY <2>1, <2>2
<1>3. Database(PipelinePlaces) \in Places \cup {Nowhere}
  BY DatabaseType DEF Lookups
<1>4. \A e, v, r \in BOOLEAN, d \in Places \cup {Nowhere} :
        [execute |-> e, validate |-> v, required |-> r, database |-> d]
          \in [execute : BOOLEAN, validate : BOOLEAN, required : BOOLEAN,
               database : Places \cup {Nowhere}]
  OBVIOUS
<1> DEFINE v == \/ Enabled("ORACLE_VALIDATE") \/ Enabled("EXECUTE_BENCHMARK")
                \/ EnvBool("ORACLE_VALIDATE", FALSE)
<1>5. v \in BOOLEAN /\ EnvBool("REQUIRE_ORACLE_VALIDATION", v) \in BOOLEAN
  BY <1>2
<1>6. QED
  BY <1>1, <1>3, <1>4, <1>5, Zenon DEF Configured

LEMMA InitInv == Init => IInv
<1> SUFFICES ASSUME Init PROVE IInv
  OBVIOUS
<1>1. env \in [Flags -> Values] /\ file \in [Filed -> Values]
  BY SpellingsAssumption DEF Init
<1>2. TypeOK
  BY <1>1 DEF Init, TypeOK, NoRun
<1>3. QED
  BY <1>2 DEF Init, IInv

(* What a step away from Oracle leaves.                                    *)
LEMMA UnavailableInv ==
  ASSUME IInv, stage \in {"driver", "preflight"}, Unavailable PROVE IInv'
<1>1. CASE Refuses
  BY <1>1 DEF Unavailable, IInv, TypeOK, Goto
<1>2. CASE ~ Refuses
  <2>1. env' = WithoutOracle /\ fellBack' = TRUE /\ stage' = "ready"
        /\ UNCHANGED <<mode, file, dsn, checked, cfg>>
    BY <1>2 DEF Unavailable, Goto
  <2>2. env' \in [Flags -> Values] /\ \A f \in Flags : env[f] # "unset" => env'[f] # "unset"
    BY <2>1 DEF WithoutOracle, IInv, TypeOK, Flags, Values
  <2>3. /\ env'["ORACLE_VALIDATE"] = "off" /\ env'["EXECUTE_BENCHMARK"] = "off"
        /\ env'["REQUIRE_ORACLE_VALIDATION"] = env["REQUIRE_ORACLE_VALIDATION"]
    BY <2>1 DEF WithoutOracle, IInv, TypeOK, Flags
  <2>4. ModelOnly'
    BY <1>2, <2>1, <2>3 DEF ModelOnly, Refuses, Enabled, FlagEnabled, IInv, TypeOK
  <2>5. checked' = Nowhere
    BY <2>1 DEF IInv
  <2>6. TypeOK'
    BY <1>2, <2>1, <2>2, <2>5 DEF IInv, TypeOK, Refuses
  <2>7. QED
    BY <2>1, <2>2, <2>4, <2>5, <2>6 DEF IInv
<1>3. QED
  BY <1>1, <1>2

LEMMA NextInv == IInv /\ [Next]_vars => IInv'
<1> SUFFICES ASSUME IInv, [Next]_vars PROVE IInv'
  OBVIOUS
<1>1. CASE StartFiles
  <2>1. Exported \in [Flags -> Values] /\ \A f \in Flags : Exported[f] # "unset"
    BY DEF Exported, IInv, TypeOK, Values
  <2>2. TypeOK'
    BY <1>1, <2>1 DEF StartFiles, Goto, IInv, TypeOK
  <2>3. stage' = "ready" => Unasked'
    BY <1>1 DEF StartFiles, Goto, Unasked, NeedsOracle, FlagEnabled
  <2>4. QED
    BY <1>1, <2>1, <2>2, <2>3 DEF StartFiles, Goto, IInv
<1>2. CASE StartOracle
  BY <1>2 DEF StartOracle, Goto, IInv, TypeOK
<1>3. CASE DriverFound
  <2>1. env' \in [Flags -> Values] /\ (mode = "files" => env' = env)
    BY <1>3 DEF DriverFound, IInv, TypeOK, Flags, Values
  <2>2. TypeOK'
    BY <1>3, <2>1 DEF DriverFound, Goto, IInv, TypeOK
  <2>3. QED
    BY <1>3, <2>1, <2>2 DEF DriverFound, Goto, IInv
<1>4. CASE DriverMissing
  BY <1>4, UnavailableInv DEF DriverMissing
<1>5. CASE PreflightPasses
  <2>1. checked' = Database(PreflightPlaces) /\ checked' # Nowhere /\ dsn' = dsn
        /\ stage' = "ready" /\ UNCHANGED <<mode, file, env, fellBack, cfg>>
    BY <1>5 DEF PreflightPasses, Goto
  <2>2. Checked'
    BY <2>1 DEF Checked, Database, First
  <2>3. TypeOK'
    BY <1>5, <2>1, DatabaseType DEF IInv, TypeOK, Lookups
  <2>4. QED
    BY <1>5, <2>1, <2>2, <2>3 DEF IInv, PreflightPasses
<1>6. CASE PreflightFails
  BY <1>6, UnavailableInv DEF PreflightFails
<1>7. CASE Launch
  <2>1. stage' = "running" /\ cfg' = Configured /\ UNCHANGED <<env, checked, fellBack, mode, file, dsn>>
    BY <1>7 DEF Launch, Goto
  <2>2. Configured' = Configured
    BY <2>1 DEF Configured, Enabled, FlagEnabled, EnvBool, Env, Database, First
  <2>3. TypeOK'
    BY <1>7, <2>1, ConfiguredType DEF IInv, TypeOK, Launch
  <2>4. (Checked' <=> Checked) /\ (ModelOnly' <=> ModelOnly) /\ (Unasked' <=> Unasked)
    BY <2>1 DEF Checked, ModelOnly, Unasked, Database, First, NeedsOracle, Enabled, FlagEnabled
  <2>5. QED
    BY <1>7, <2>1, <2>2, <2>3, <2>4 DEF IInv, Launch
<1>8. CASE UNCHANGED vars
  <2>1. Configured' = Configured /\ (Checked' <=> Checked)
        /\ (ModelOnly' <=> ModelOnly) /\ (Unasked' <=> Unasked)
    BY <1>8 DEF vars, Configured, Checked, ModelOnly, Unasked, NeedsOracle, Enabled,
                FlagEnabled, EnvBool, Env, Database, First
  <2>2. TypeOK'
    BY <1>8 DEF vars, IInv, TypeOK
  <2>3. QED
    BY <1>8, <2>1, <2>2 DEF vars, IInv
<1>9. QED
  BY <1>1, <1>2, <1>3, <1>4, <1>5, <1>6, <1>7, <1>8 DEF Next, Stop

(* The inductive invariant holds at every step of a launch.                *)
THEOREM Invariance == Spec => []IInv
  BY InitInv, NextInv, PTL DEF Spec

(* Every variable has its type in every reachable state.                   *)
THEOREM TypeCorrect == Spec => []TypeOK
<1>1. IInv => TypeOK
  BY DEF IInv
<1>2. QED
  BY <1>1, Invariance, PTL

(* Whatever the launchers, the preflight and the pipeline read and where:  *)
(* the database that was checked is the one the run uses.                  *)
THEOREM DatabaseSound == Spec => []SameDatabase
<1>1. IInv => SameDatabase
  BY SameLookup DEF IInv, SameDatabase, Checked, Configured
<1>2. QED
  BY <1>1, Invariance, PTL

(* No run validates, and no Oracle run starts, unchecked.                  *)
THEOREM CheckSound == Spec => []CheckedBeforeRun
<1>1. ASSUME IInv, stage = "running", mode = "oracle" \/ cfg.validate,
             ~ Complains("ORACLE_VALIDATE")
      PROVE  checked # Nowhere
  <2> SUFFICES ASSUME checked = Nowhere PROVE FALSE
    OBVIOUS
  <2>1. fellBack \/ Unasked
    BY <1>1 DEF IInv, Checked
  <2>2. mode = "files" /\ ~ Enabled("ORACLE_VALIDATE") /\ ~ Enabled("EXECUTE_BENCHMARK")
    BY <1>1, <2>1 DEF IInv, ModelOnly, Unasked, NeedsOracle, Enabled, FlagEnabled
  <2>3. env["ORACLE_VALIDATE"] \notin {"unset", "on", "True", "y"}
    BY <1>1, <2>2 DEF IInv, Flags, Complains, Enabled, FlagEnabled
  <2>4. ~ EnvBool("ORACLE_VALIDATE", FALSE)
    BY <2>3 DEF EnvBool, Env
  <2>5. cfg = Configured
    BY <1>1 DEF IInv
  <2>6. QED
    BY <1>1, <2>2, <2>4, <2>5 DEF Configured
<1>2. IInv => CheckedBeforeRun
  BY <1>1 DEF CheckedBeforeRun
<1>3. QED
  BY <1>2, Invariance, PTL

(* A run that went on without Oracle does nothing that needs it.           *)
THEOREM FallbackSound == Spec => []FallbackIsModelOnly
<1>1. ASSUME IInv, stage = "running", fellBack
      PROVE  /\ ~ cfg.validate /\ ~ cfg.execute
             /\ Complains("REQUIRE_ORACLE_VALIDATION") \/ ~ cfg.required
  <2>1. ModelOnly /\ cfg = Configured
    BY <1>1 DEF IInv
  <2>2. ~ EnvBool("ORACLE_VALIDATE", FALSE)
    BY <2>1 DEF ModelOnly, EnvBool, Env
  <2>3. ~ cfg.execute /\ ~ cfg.validate
    BY <2>1, <2>2 DEF ModelOnly, Configured, Enabled, FlagEnabled
  <2>4. env["REQUIRE_ORACLE_VALIDATION"] \notin {"unset", "on", "True"}
    BY <1>1, <2>1 DEF ModelOnly, IInv, Flags, Enabled, FlagEnabled
  <2>5. cfg.required = EnvBool("REQUIRE_ORACLE_VALIDATION", FALSE)
    BY <2>1, <2>3 DEF Configured
  <2>6. QED
    BY <2>1, <2>3, <2>4, <2>5 DEF Complains, ModelOnly, EnvBool, Env
<1>2. IInv => FallbackIsModelOnly
  BY <1>1 DEF FallbackIsModelOnly
<1>3. QED
  BY <1>2, Invariance, PTL
=============================================================================
