----------------------------- MODULE Benchmark -----------------------------
(***************************************************************************)
(* PipelineManager._run_select_benchmark and _time_select_pair: a session  *)
(* with a read-only transaction is set up, both statements are executed    *)
(* Repetitions + 1 times in alternating order while other sessions commit, *)
(* the first round is dropped, and the medians decide.                     *)
(* Times are whole milliseconds.  The first execution of a statement may   *)
(* take Cold longer: its blocks are not in the buffer cache yet.           *)
(* Of the pair only what the guards ask is kept; the row limit around both *)
(* statements in first_n mode is left out.                                 *)
(***************************************************************************)
EXTENDS Integers, Sequences, FiniteSets

CONSTANTS
  Repetitions,           \* BENCHMARK_REPETITIONS
  Threshold,             \* --improvement-threshold, in percent
  Times,                 \* what a warm execution may take
  Cold,                  \* what a cold one takes on top
  SameSnapshot,          \* SAME_SNAPSHOT_VALIDATION
  MaxCommits             \* bound: commits of other sessions during the call

Label == {"original", "tuned"}

(* __init__ raises BENCHMARK_REPETITIONS to at least 2.                    *)
ASSUME BenchmarkAssumption ==
  /\ Repetitions \in Nat /\ Repetitions >= 2
  /\ Threshold \in Int
  /\ Times \subseteq Nat /\ Cold \in Nat
  /\ SameSnapshot \in BOOLEAN /\ MaxCommits \in Nat

VARIABLES
  pair,                  \* are both SELECTs, the policy met, the binds equal
  stage,                 \* where the handler is
  version,               \* number of the current database state
  view,                  \* version the transaction sees, 0 for the current
  seen,                  \* versions the statements were executed on
  index, ran,            \* round of the loop; labels executed in it
  warm,                  \* labels whose blocks are cached
  samples,               \* per label: recorded times
  first,                 \* label executed first, per recorded round
  improved               \* the verdict, "none" before the end

handlerVars == <<pair, version, view, seen>>
roundVars == <<index, ran, warm, samples, first>>
vars == <<handlerVars, stage, roundVars, improved>>

Init ==
  /\ pair \in [select : BOOLEAN, safe : BOOLEAN, sameBinds : BOOLEAN]
  /\ stage = "guard"
  /\ version = 1 /\ view = 0 /\ seen = {}
  /\ index = 0 /\ ran = {} /\ warm = {}
  /\ samples = [l \in Label |-> <<>>]
  /\ first = <<>>
  /\ improved = "none"

OtherCommit ==
  /\ stage # "done" /\ version <= MaxCommits
  /\ version' = version + 1
  /\ UNCHANGED <<pair, view, seen, stage, roundVars, improved>>

Goto(from, to) == stage = from /\ stage' = to

Guard ==
  /\ IF pair.select /\ pair.safe
     THEN Goto("guard", "connect") /\ UNCHANGED improved
     ELSE Goto("guard", "done") /\ improved' = "no"
  /\ UNCHANGED <<handlerVars, roundVars>>

(* The connection is new: no transaction is open in it.                    *)
Connect ==
  /\ Goto("connect", "session")
  /\ UNCHANGED <<handlerVars, roundVars, improved>>

ApplySession ==
  /\ Goto("session", IF SameSnapshot THEN "snapshot" ELSE "binds")
  /\ UNCHANGED <<handlerVars, roundVars, improved>>

SetSnapshot_Fault ==                    \* the transaction is not read-only
  /\ Goto("snapshot", "binds")
  /\ UNCHANGED <<handlerVars, roundVars, improved>>

SetSnapshot ==
  /\ Goto("snapshot", "binds")
  /\ view' = version
  /\ UNCHANGED <<pair, version, seen, roundVars, improved>>

Binds ==
  /\ pair.sameBinds
  /\ Goto("binds", "rounds")
  /\ UNCHANGED <<handlerVars, roundVars, improved>>

Leader_Fault == "original"              \* the order is never reversed

Leader == IF index % 2 = 0 THEN "original" ELSE "tuned"

Recorded == index # 0

Execute(l) ==
  /\ stage = "rounds" /\ l \notin ran
  /\ ran = {} => l = Leader
  /\ ran' = ran \cup {l}
  /\ warm' = warm \cup {l}
  /\ IF Recorded
     THEN \E t \in Times :
            /\ samples' = [samples EXCEPT
                             ![l] = Append(@, IF l \in warm THEN t ELSE t + Cold)]
            /\ first' = IF ran = {} THEN Append(first, l) ELSE first
     ELSE UNCHANGED <<samples, first>>
  /\ seen' = seen \cup {IF view = 0 THEN version ELSE view}
  /\ UNCHANGED <<pair, stage, version, view, index, improved>>

NextRound ==
  /\ ran = Label
  /\ Goto("rounds", IF index = Repetitions THEN "rollback" ELSE "rounds")
  /\ index' = index + 1 /\ ran' = {}
  /\ UNCHANGED <<handlerVars, warm, samples, first, improved>>

Rollback ==
  /\ Goto("rollback", "decide")
  /\ view' = 0
  /\ UNCHANGED <<pair, version, seen, roundVars, improved>>

(* Twice the median, an integer also for an even number of samples.        *)
Below(s, t) == Cardinality({i \in DOMAIN s : s[i] < t})
UpTo(s, t)  == Cardinality({i \in DOMAIN s : s[i] <= t})
Ranked(s, k) == CHOOSE t \in {s[i] : i \in DOMAIN s} :
                  Below(s, t) < k /\ k <= UpTo(s, t)

TwiceMedian_Fault(s) ==                 \* best and worst count as well
  Ranked(s, 1) + Ranked(s, Len(s))

TwiceMedian(s) == Ranked(s, (Len(s) + 1) \div 2) + Ranked(s, Len(s) \div 2 + 1)

(* improvement_pct >= threshold, without the division; 0 for a zero time.  *)
Improved(o, t) ==
  IF o = 0 THEN 0 >= Threshold ELSE 100 * (o - t) >= Threshold * o

Decide ==
  /\ Goto("decide", "done")
  /\ improved' = IF Improved(TwiceMedian(samples["original"]),
                             TwiceMedian(samples["tuned"]))
                 THEN "yes" ELSE "no"
  /\ UNCHANGED <<handlerVars, roundVars>>

(* An exception between connect and rollback closes the connection; bind   *)
(* names that differ and a missing bind value are exceptions of their own. *)
Failing == {"connect", "session", "snapshot", "binds", "rounds", "rollback"}

Fail ==
  /\ stage \in Failing /\ stage' = "done"
  /\ improved' = "no" /\ view' = 0
  /\ UNCHANGED <<pair, version, seen, roundVars>>

Stop == stage = "done" /\ UNCHANGED vars

Step ==
  \/ Guard \/ Connect \/ ApplySession \/ SetSnapshot \/ Binds
  \/ (\E l \in Label : Execute(l)) \/ NextRound \/ Rollback \/ Decide

Next == Step \/ Fail \/ OtherCommit \/ Stop

Spec == Init /\ [][Next]_vars

-----------------------------------------------------------------------------
Stages == Failing \cup {"guard", "decide", "done"}

(* Type invariant; the loop ends after Repetitions + 1 rounds.             *)
TypeOK ==
  /\ pair \in [select : BOOLEAN, safe : BOOLEAN, sameBinds : BOOLEAN]
  /\ stage \in Stages /\ improved \in {"none", "yes", "no"}
  /\ version \in 1 .. MaxCommits + 1
  /\ view \in 0 .. version /\ seen \subseteq 1 .. version
  /\ index \in 0 .. Repetitions + 1
  /\ ran \subseteq Label /\ warm \subseteq Label
  /\ samples \in [Label -> Seq(Nat)] /\ first \in Seq(Label)

(* README.md:133, "Benchmarks perform one warm-up, alternate original/     *)
(* tuned execution order": the recorded rounds do not favour the statement *)
(* that runs second and finds the blocks of the first in the cache, and a  *)
(* cold execution is never recorded, whichever statement pays for it.      *)
RoundsFair ==
  LET Rounds(l) == Cardinality({i \in DOMAIN first : first[i] = l})
  IN /\ \A l, k \in Label : Rounds(l) <= Rounds(k) + 1
     /\ \A l \in Label : \A i \in DOMAIN samples[l] : samples[l][i] \in Times

(* ORACLE_VALIDATION_LOOP.txt:11, "Original/tuned execution time is        *)
(* benchmarked against the same read-only snapshot": with                  *)
(* SAME_SNAPSHOT_VALIDATION every execution of the call, warm-up or        *)
(* measured, works on one state of the database.                           *)
OneSnapshot == SameSnapshot => Cardinality(seen) <= 1

(* With a positive threshold outliers do not decide: a rewrite is called   *)
(* faster only if some time separates half of its executions from half of  *)
(* the original's.                                                         *)
OutliersDoNotDecide ==
  improved = "yes" /\ Threshold > 0 =>
    \E t \in {samples["tuned"][i] : i \in DOMAIN samples["tuned"]} :
      /\ 2 * UpTo(samples["tuned"], t) >= Repetitions
      /\ 2 * UpTo(samples["original"], t) <= Repetitions
=============================================================================
