-------------------------- MODULE OracleValidation --------------------------
(***************************************************************************)
(* One call of PipelineManager._validate_sql_pair_with_oracle: the static  *)
(* policy, parse and EXPLAIN PLAN of both statements, and the comparison   *)
(* of what they return, inside a database other sessions keep changing.    *)
(*                                                                         *)
(* Abstractions.  A statement is what the checks look at: whether it is a  *)
(* SELECT, whether it fixes an order, its columns, its bind names, and the *)
(* words the policy searches for with the place each stands in.  A result  *)
(* is a sequence of rows.  The running SHA-256 hashes are taken to be      *)
(* injective: the ordered one is the sequence hashed, the unordered one    *)
(* its bag.  Any database call may raise; each has a timeout.              *)
(***************************************************************************)
EXTENDS Integers, Sequences, FiniteSets

CONSTANTS
  Row,                   \* rows a statement may return
  Contents,              \* database states: what each statement returns
  Pairs,                 \* pairs of an original and a tuned statement
  ValidationRowLimit,    \* VALIDATION_ROW_LIMIT
  FetchSize,             \* rows per fetchmany call (1000 in the code)
  SameSnapshot,          \* SAME_SNAPSHOT_VALIDATION
  MaxCommits             \* bound: commits of other sessions during the call

Label == {"original", "tuned"}
Word  == {"MATERIALIZED", "MATERIALIZE", "RESULT_CACHE", "PACKAGE", "SEMICOLON"}
Place == {"code", "comment", "literal"}

Statement == [select : BOOLEAN, ordered : BOOLEAN, columns : Nat, binds : Nat,
              text : SUBSET (Word \X Place)]

ASSUME ValidationAssumption ==
  /\ Contents \subseteq [Label -> Seq(Row)]
  /\ Pairs \subseteq [Label -> Statement]
  /\ ValidationRowLimit \in Int
  /\ FetchSize \in Nat \ {0}
  /\ SameSnapshot \in BOOLEAN
  /\ MaxCommits \in Nat

VARIABLES
  pair,                  \* the statements of the call
  versions,              \* committed database states, the current one last
  stage,                 \* where the handler is
  connected, tx,         \* the session; the kind of transaction it has open
  view,                  \* version a read-only transaction sees, 0 for none
  checks,                \* per label: parse and EXPLAIN PLAN
  error,                 \* the comparison ended with an exception
  readAt,                \* per label: version it was executed at, 0 for never
  delivered,             \* per label: rows the execution delivers
  row_count,             \* per label: row_count of _sample_select
  failed_stage, passed   \* the verdict

dbVars == <<pair, versions>>
sessionVars == <<connected, tx, view>>
sampleVars == <<readAt, delivered, row_count, error>>
verdictVars == <<failed_stage, passed>>
vars == <<dbVars, stage, sessionVars, checks, sampleVars, verdictVars>>

Checking(l)  == IF l = "original" THEN "check_original" ELSE "check_tuned"
Executing(l) == IF l = "original" THEN "execute_original" ELSE "execute_tuned"
Fetching(l)  == IF l = "original" THEN "fetch_original" ELSE "fetch_tuned"

MaxRows == IF ValidationRowLimit > 1 THEN ValidationRowLimit ELSE 1
AtMost(a, b) == IF a <= b THEN a ELSE b

-----------------------------------------------------------------------------
(* The static policy, on the words of a statement.                         *)
StripComments(text) == {t \in text : t[2] # "comment"}
MaskLiterals(text)  == {t \in text : t[2] # "literal"}
Words(text)         == {t[1] : t \in text}

(* The MATERIALIZE check asks for a hint, the other two for the bare word. *)
ProhibitedFeatures(text) ==
  (Words(text) \cap {"MATERIALIZED", "RESULT_CACHE"})
  \cup {t[1] : t \in text \cap {<<"MATERIALIZE", "comment">>}}

SafetyViolations(s) ==
  LET clean == StripComments(s.text)
  IN ProhibitedFeatures(clean)
     \cup (Words(MaskLiterals(clean)) \cap {"PACKAGE", "SEMICOLON"})

-----------------------------------------------------------------------------
(* The comparison.                                                         *)
Now  == Len(versions)
Seen(l) == AtMost(row_count[l], MaxRows)      \* rows that were hashed
Truncated(l) == row_count[l] > MaxRows
Sampled(l) == SubSeq(delivered[l], 1, Seen(l))
Bag(s) == [r \in Row |-> Cardinality({i \in DOMAIN s : s[i] = r})]

SamplesMatch_Fault ==                   \* the limit counts as a match
  /\ pair["original"].columns = pair["tuned"].columns
  /\ Seen("original") = Seen("tuned")
  /\ Bag(Sampled("original")) = Bag(Sampled("tuned"))
  /\ pair["original"].ordered => Sampled("original") = Sampled("tuned")

SamplesMatch_Strict_Fault ==            \* every result must keep its order
  /\ pair["original"].columns = pair["tuned"].columns
  /\ Sampled("original") = Sampled("tuned")
  /\ \A l \in Label : ~ Truncated(l)

SamplesMatch ==
  /\ pair["original"].columns = pair["tuned"].columns
  /\ Seen("original") = Seen("tuned")
  /\ Bag(Sampled("original")) = Bag(Sampled("tuned"))
  /\ \A l \in Label : ~ Truncated(l)
  /\ pair["original"].ordered => Sampled("original") = Sampled("tuned")

-----------------------------------------------------------------------------
Init ==
  /\ pair \in Pairs
  /\ \E c \in Contents : versions = <<c>>
  /\ stage = "guard"
  /\ connected = FALSE /\ tx = "none" /\ view = 0
  /\ checks = [l \in Label |-> "none"]
  /\ readAt = [l \in Label |-> 0]
  /\ delivered = [l \in Label |-> <<>>]
  /\ row_count = [l \in Label |-> 0]
  /\ error = FALSE
  /\ failed_stage = "none" /\ passed = FALSE

(* Another session commits.                                                *)
OtherCommit ==
  /\ stage # "done" /\ Now <= MaxCommits
  /\ \E c \in Contents : versions' = Append(versions, c)
  /\ UNCHANGED <<pair, stage, sessionVars, checks, sampleVars, verdictVars>>

(* Returning from inside the with block closes the connection first.       *)
Fail(s) ==
  /\ failed_stage' = s
  /\ stage' = IF connected THEN "close" ELSE "done"

(* SELECT guard, policy, driver and connection settings, in this order.    *)
Guard ==
  /\ stage = "guard"
  /\ IF \E l \in Label : ~ pair[l].select THEN Fail("select_guard")
     ELSE IF SafetyViolations(pair["tuned"]) # {} THEN Fail("sql_policy")
     ELSE \/ stage' = "connect" /\ UNCHANGED failed_stage
          \/ Fail("oracle_driver")
          \/ Fail("oracle_connection_config")
  /\ UNCHANGED <<dbVars, sessionVars, checks, sampleVars, passed>>

Connect ==
  /\ stage = "connect"
  /\ stage' = "session" /\ connected' = TRUE
  /\ UNCHANGED <<dbVars, tx, view, checks, sampleVars, verdictVars>>

ApplySession ==
  /\ stage = "session"
  /\ stage' = "check_original"
  /\ UNCHANGED <<dbVars, sessionVars, checks, sampleVars, verdictVars>>

(* _validate_single_sql: parsing may fail, EXPLAIN PLAN may fail, and for  *)
(* the tuned statement a forbidden operation in the plan is a failure too. *)
(* EXPLAIN PLAN writes to PLAN_TABLE: it opens a transaction.  The tuned   *)
(* statement is checked even if the original failed.                       *)
Check(l) ==
  /\ stage = Checking(l)
  /\ stage' = IF l = "original" THEN "check_tuned" ELSE "decide"
  /\ \E ok, explained \in BOOLEAN :
       /\ ok => explained
       /\ checks' = [checks EXCEPT ![l] = IF ok THEN "ok" ELSE "bad"]
       /\ tx' = IF explained THEN "write" ELSE tx
  /\ UNCHANGED <<dbVars, connected, view, sampleVars, verdictVars>>

Decide_Fault ==                         \* a check is not looked at
  /\ stage = "decide"
  /\ IF checks["original"] = "bad" THEN Fail("original_parse_explain")
     ELSE stage' = "commit" /\ UNCHANGED failed_stage
  /\ UNCHANGED <<dbVars, sessionVars, checks, sampleVars, passed>>

Decide ==
  /\ stage = "decide"
  /\ IF checks["original"] = "bad" THEN Fail("original_parse_explain")
     ELSE IF checks["tuned"] = "bad" THEN Fail("tuned_parse_explain")
     ELSE stage' = "commit" /\ UNCHANGED failed_stage
  /\ UNCHANGED <<dbVars, sessionVars, checks, sampleVars, passed>>

Commit ==
  /\ stage = "commit"
  /\ stage' = IF SameSnapshot THEN "snapshot" ELSE "execute_original"
  /\ tx' = "none"
  /\ UNCHANGED <<dbVars, connected, view, checks, sampleVars, verdictVars>>

(* Oracle refuses SET TRANSACTION inside an open transaction.              *)
SetSnapshot ==
  /\ stage = "snapshot"
  /\ \/ /\ tx = "none"
        /\ stage' = "execute_original"
        /\ tx' = "read_only" /\ view' = Now
        /\ UNCHANGED failed_stage
     \/ Fail("snapshot_setup") /\ UNCHANGED <<tx, view>>
  /\ UNCHANGED <<dbVars, connected, checks, sampleVars, passed>>

(* A statement without ORDER BY returns its rows in any order.             *)
Deliveries(l, rows) ==
  IF pair[l].ordered THEN {rows}
  ELSE {[i \in DOMAIN rows |-> rows[p[i]]] :
          p \in {q \in [DOMAIN rows -> DOMAIN rows] :
                   \A i, k \in DOMAIN rows : q[i] = q[k] => i = k}}

Execute(l) ==
  /\ stage = Executing(l)
  /\ pair["original"].binds = pair["tuned"].binds
  /\ LET v == IF view = 0 THEN Now ELSE view
     IN /\ readAt' = [readAt EXCEPT ![l] = v]
        /\ \E rows \in Deliveries(l, versions[v][l]) :
             delivered' = [delivered EXCEPT ![l] = rows]
  /\ stage' = Fetching(l)
  /\ UNCHANGED <<dbVars, sessionVars, checks, row_count, error, verdictVars>>

(* One fetchmany and the loop over its rows, which stops at the first row  *)
(* beyond the limit.  row_count never exceeds MaxRows + 1 this way, so it  *)
(* is also the position of the cursor.                                     *)
BatchSize(l) ==
  AtMost(AtMost(FetchSize, MaxRows + 1), Len(delivered[l]) - row_count[l])

Counted(l, n) == AtMost(row_count[l] + n, MaxRows + 1)

Fetch(l) ==
  /\ stage = Fetching(l)
  /\ LET n == BatchSize(l)
         count == Counted(l, n)
     IN /\ row_count' = [row_count EXCEPT ![l] = count]
        /\ stage' = IF n = 0 \/ count > MaxRows
                    THEN IF l = "original" THEN "execute_tuned" ELSE "compare"
                    ELSE stage
  /\ UNCHANGED <<dbVars, sessionVars, checks, readAt, delivered, error,
                 verdictVars>>

(* Different bind names, a missing bind value and every database error end *)
(* the comparison with passed = False.                                     *)
SampleFails ==
  /\ error' = TRUE
  /\ Fail("sample_compare")
  /\ UNCHANGED <<dbVars, sessionVars, checks, readAt, delivered, row_count, passed>>

BindMismatch ==
  /\ stage = "execute_original"
  /\ pair["original"].binds # pair["tuned"].binds
  /\ SampleFails

SampleError ==
  /\ \E l \in Label : stage \in {Executing(l), Fetching(l)}
  /\ SampleFails

Compare ==
  /\ stage = "compare"
  /\ IF SamplesMatch THEN stage' = "rollback" /\ UNCHANGED failed_stage
     ELSE Fail("sample_compare")
  /\ UNCHANGED <<dbVars, sessionVars, checks, sampleVars, passed>>

Rollback ==
  /\ stage = "rollback"
  /\ stage' = "close"
  /\ tx' = "none"
  /\ UNCHANGED <<dbVars, connected, view, checks, sampleVars, verdictVars>>

(* Leaving the with blocks; passed is set after them.                      *)
Close ==
  /\ stage = "close"
  /\ stage' = "done"
  /\ connected' = FALSE /\ tx' = "none"
  /\ passed' = (failed_stage = "none")
  /\ UNCHANGED <<dbVars, view, checks, sampleVars, failed_stage>>

(* What is not caught closer to the call ends in the outer handler.        *)
Raise ==
  /\ stage \in {"connect", "session", "commit", "rollback", "close"}
  /\ stage' = "done"
  /\ connected' = FALSE /\ tx' = "none"
  /\ failed_stage' = "oracle_runtime"
  /\ UNCHANGED <<dbVars, view, checks, sampleVars, passed>>

Stop == stage = "done" /\ UNCHANGED vars

Next ==
  \/ Guard \/ Connect \/ ApplySession \/ (\E l \in Label : Check(l)) \/ Decide
  \/ Commit \/ SetSnapshot \/ (\E l \in Label : Execute(l) \/ Fetch(l))
  \/ BindMismatch \/ Compare \/ Rollback \/ Close
  \/ SampleError \/ Raise \/ OtherCommit \/ Stop

Spec == Init /\ [][Next]_vars

-----------------------------------------------------------------------------
(***************************************************************************)
(* Properties.                                                             *)
(***************************************************************************)
Stages == {"guard", "connect", "session", "check_original", "check_tuned",
           "decide", "commit", "snapshot", "execute_original",
           "fetch_original", "execute_tuned", "fetch_tuned", "compare",
           "rollback", "close", "done"}
FailedStages == {"none", "select_guard", "sql_policy", "oracle_driver",
                 "oracle_connection_config", "original_parse_explain",
                 "tuned_parse_explain", "snapshot_setup", "sample_compare",
                 "oracle_runtime"}

(* Type invariant of the handler's local state and of its session.         *)
TypeOK ==
  /\ pair \in Pairs /\ versions \in Seq(Contents) /\ versions # <<>>
  /\ stage \in Stages /\ connected \in BOOLEAN
  /\ tx \in {"none", "write", "read_only"} /\ view \in 0 .. Now
  /\ checks \in [Label -> {"none", "ok", "bad"}] /\ error \in BOOLEAN
  /\ readAt \in [Label -> 0 .. Now]
  /\ delivered \in [Label -> Seq(Row)]
  /\ row_count \in [Label -> 0 .. MaxRows + 1]
  /\ failed_stage \in FailedStages /\ passed \in BOOLEAN

(* What both statements return in version v, compared as a whole.          *)
SameResult(v) ==
  /\ Bag(versions[v]["original"]) = Bag(versions[v]["tuned"])
  /\ (\A l \in Label : pair[l].ordered) =>
       versions[v]["original"] = versions[v]["tuned"]

(* With SAME_SNAPSHOT_VALIDATION a passed pair returned the same complete  *)
(* results in one and the same state of the database, however the commits  *)
(* of other sessions fell between the two executions and whatever the row  *)
(* limit and the batches cut off.                                          *)
VerdictSound ==
  passed /\ SameSnapshot =>
    \E v \in 1 .. Now :
      /\ \A l \in Label : readAt[l] = v /\ Len(versions[v][l]) <= MaxRows
      /\ SameResult(v)

(* Nor is a pair rejected because another session committed in between, or *)
(* because Oracle delivered an unordered result in another order: a        *)
(* comparison that ran to its end and failed had a reason in the snapshot. *)
RejectionJustified ==
  failed_stage = "sample_compare" /\ ~ error /\ SameSnapshot =>
    LET v == readAt["tuned"]
    IN /\ readAt["original"] = v
       /\ \/ pair["original"].columns # pair["tuned"].columns
          \/ \E l \in Label : Len(versions[v][l]) > MaxRows
          \/ ~ SameResult(v)
          \/ pair["original"].ordered /\ delivered["original"] # delivered["tuned"]

(* A statement a model wrote runs against the database only after both     *)
(* statements were parsed and explained, only if its text held none of the *)
(* words the policy searches for in code, and, if asked for, inside a      *)
(* read-only transaction; EXPLAIN PLAN leaves a transaction behind, which  *)
(* is ended before SET TRANSACTION, the first statement of its own.        *)
OnlyCheckedSqlRuns ==
  /\ stage = "snapshot" => tx = "none"
  /\ \A l \in Label : readAt[l] # 0 =>
       /\ \A k \in Label : checks[k] = "ok" /\ pair[k].select
       /\ pair["tuned"].text \cap
            ({"RESULT_CACHE", "MATERIALIZED", "PACKAGE", "SEMICOLON"} \X {"code"}) = {}
       /\ SameSnapshot /\ stage \in Stages \ {"rollback", "close", "done"} =>
            tx = "read_only" /\ view # 0

-----------------------------------------------------------------------------
(* ORACLE_VALIDATION_LOOP.txt:17, "Explicit MATERIALIZED/MATERIALIZE/      *)
(* RESULT_CACHE usage is rejected before execution": no tuned statement    *)
(* with such a word in code or in a hint is executed.                      *)
HintsRejected ==
  readAt["tuned"] # 0 =>
    pair["tuned"].text \cap ({"MATERIALIZED", "MATERIALIZE", "RESULT_CACHE"}
                               \X {"code", "comment"}) = {}
=============================================================================
