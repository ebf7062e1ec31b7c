----------------------- MODULE OracleValidationProofs -----------------------
(* Proofs about OracleValidation, for any contents of the database, pairs  *)
(* of statements, row limit, batch size and number of commits.             *)
EXTENDS OracleValidation, FiniteSetTheorems, FunctionTheorems, SequenceTheorems, TLAPS

-----------------------------------------------------------------------------
(* What Oracle may deliver for a result: the same rows, as often.          *)
LEMMA Delivered ==
  ASSUME NEW l \in Label, NEW rows \in Seq(Row), NEW d \in Deliveries(l, rows)
  PROVE  /\ d \in Seq(Row) /\ Len(d) = Len(rows) /\ Bag(d) = Bag(rows)
         /\ pair[l].ordered => d = rows
<1>1. CASE pair[l].ordered
  BY <1>1 DEF Deliveries
<1>2. CASE ~ pair[l].ordered
  <2>1. PICK n \in Nat : n = Len(rows) /\ DOMAIN rows = 1 .. n
    OBVIOUS
  <2>2. PICK p \in [1 .. n -> 1 .. n] :
          /\ \A i, k \in 1 .. n : p[i] = p[k] => i = k
          /\ d = [i \in 1 .. n |-> rows[p[i]]]
    BY <1>2, <2>1 DEF Deliveries
  <2>3. d \in [1 .. n -> Row] /\ \A i \in 1 .. n : d[i] = rows[p[i]]
    BY <2>1, <2>2
  <2>4. d \in Seq(Row) /\ Len(d) = n /\ DOMAIN d = 1 .. n
    BY <2>3, IsASeq
  <2>5. IsFiniteSet(1 .. n)
    BY FS_Interval
  <2>6. \A j \in 1 .. n : \E i \in 1 .. n : p[i] = j
    <3>1. p \in Injection(1 .. n, 1 .. n)
      BY <2>2 DEF Injection, IsInjective
    <3>2. p \in Surjection(1 .. n, 1 .. n)
      BY <2>5, <3>1, FS_Injection
    <3>3. QED
      BY <3>2 DEF Surjection
  <2>7. ASSUME NEW r \in Row
        PROVE  Cardinality({i \in DOMAIN d : d[i] = r})
                 = Cardinality({i \in DOMAIN rows : rows[i] = r})
    <3> DEFINE A == {i \in 1 .. n : d[i] = r}
               B == {i \in 1 .. n : rows[i] = r}
               q == [i \in A |-> p[i]]
    <3>1. q \in [A -> B]
      BY <2>3
    <3>2. \A i, k \in A : q[i] = q[k] => i = k
      BY <2>2
    <3>3. \A j \in B : \E i \in A : q[i] = j
      <4> TAKE j \in B
      <4>1. PICK i \in 1 .. n : p[i] = j
        BY <2>6
      <4>2. i \in A
        BY <2>3, <4>1
      <4>3. QED
        BY <4>1, <4>2
    <3>4. IsFiniteSet(A)
      BY <2>5, FS_Subset
    <3> HIDE DEF q, A, B
    <3>5. q \in Bijection(A, B)
      BY <3>1, <3>2, <3>3, Fun_IsBij
    <3>6. Cardinality(A) = Cardinality(B)
      BY <3>4, <3>5, FS_Bijection DEF ExistsBijection
    <3>7. QED
      BY <2>1, <2>4, <3>6 DEF A, B
  <2>8. Bag(d) = Bag(rows)
    BY <2>7 DEF Bag
  <2>9. QED
    BY <1>2, <2>1, <2>4, <2>8
<1>3. QED
  BY <1>1, <1>2

-----------------------------------------------------------------------------
(* The invariant.  Before anything is read; while both results are read;   *)
(* and what is known of a result that was read to its end or to the limit. *)
Early == {"guard", "connect", "session", "check_original", "check_tuned",
          "decide", "commit", "snapshot"}
Reading == {"execute_original", "fetch_original", "execute_tuned", "fetch_tuned",
            "compare"}

Admitted ==
  (\A l \in Label : pair[l].select) /\ SafetyViolations(pair["tuned"]) = {}

Checked == \A l \in Label : checks[l] = "ok"

Complete(l) ==
  readAt[l] # 0 /\ (row_count[l] = Len(delivered[l]) \/ row_count[l] > MaxRows)

Compared == Complete("original") /\ Complete("tuned")

StageInv ==
  /\ stage \in {"check_tuned", "decide"} => checks["original"] # "none"
  /\ stage = "decide" => checks["tuned"] # "none"
  /\ stage = "guard" => ~ connected
  /\ stage \in Early => view = 0 /\ \A l \in Label : readAt[l] = 0
  /\ stage \in Early \cup {"execute_original"} => row_count["original"] = 0
  /\ stage \in Early \cup {"execute_original", "fetch_original", "execute_tuned"} =>
       row_count["tuned"] = 0
  /\ stage \notin {"guard", "done"} => Admitted
  /\ stage \in {"commit", "snapshot", "rollback"} \cup Reading => Checked
  /\ stage = "snapshot" => tx = "none"
  /\ SameSnapshot /\ stage \in Reading => tx = "read_only" /\ view # 0
  /\ stage \notin {"close", "done"} => failed_stage = "none"

ReadInv ==
  /\ \A l \in Label :
       /\ row_count[l] <= Len(delivered[l])
       /\ stage = Fetching(l) => readAt[l] # 0
       /\ readAt[l] # 0 =>
            /\ Admitted /\ Checked /\ (SameSnapshot => readAt[l] = view)
            /\ Len(delivered[l]) = Len(versions[readAt[l]][l])
            /\ Bag(delivered[l]) = Bag(versions[readAt[l]][l])
            /\ pair[l].ordered => delivered[l] = versions[readAt[l]][l]
  /\ stage \in {"execute_tuned", "fetch_tuned", "compare"} => Complete("original")
  /\ stage = "compare" => Complete("tuned")

VerdictInv ==
  /\ stage # "done" => ~ passed
  /\ (stage = "rollback" \/ (stage = "close" /\ failed_stage = "none") \/ passed) =>
       Compared /\ SamplesMatch
  /\ failed_stage = "sample_compare" /\ ~ error => Compared /\ ~ SamplesMatch

IInv == TypeOK /\ StageInv /\ ReadInv /\ VerdictInv

LEMMA MaxRowsFacts == MaxRows \in Nat /\ MaxRows >= 1
  BY ValidationAssumption DEF MaxRows

LEMMA InitInv == Init => IInv
<1> SUFFICES ASSUME Init PROVE IInv
  OBVIOUS
<1>1. TypeOK
  <2>1. PICK c \in Contents : versions = <<c>>
    BY DEF Init
  <2>2. versions \in Seq(Contents) /\ versions # <<>> /\ Now \in Nat
    BY <2>1 DEF Now
  <2>3. view \in 0 .. Now /\ readAt \in [Label -> 0 .. Now]
    BY <2>2 DEF Init
  <2>4. row_count \in [Label -> 0 .. MaxRows + 1] /\ delivered \in [Label -> Seq(Row)]
    BY MaxRowsFacts DEF Init
  <2>5. pair \in Pairs /\ checks \in [Label -> {"none", "ok", "bad"}]
    BY DEF Init
  <2>6. QED
    BY <2>2, <2>3, <2>4, <2>5 DEF Init, TypeOK, Stages, FailedStages
<1>2. StageInv
  BY DEF Init, StageInv, Early, Reading, Label
<1>3. ReadInv
  BY DEF Init, ReadInv, Fetching, Label
<1>4. VerdictInv
  BY DEF Init, VerdictInv
<1>5. QED
  BY <1>1, <1>2, <1>3, <1>4 DEF IInv

-----------------------------------------------------------------------------
(* A step that leaves the samples and the checks alone, and goes to a      *)
(* stage in which nothing more is claimed of them than before.             *)
Same ==
  UNCHANGED <<pair, versions, readAt, delivered, row_count, view, checks>>

LEMMA SameFacts ==
  ASSUME Same
  PROVE  /\ Admitted' = Admitted /\ Checked' = Checked
         /\ SamplesMatch' = SamplesMatch /\ Compared' = Compared
         /\ Complete("original")' = Complete("original")
         /\ Complete("tuned")' = Complete("tuned")
<1>1. Admitted' = Admitted /\ Checked' = Checked
  BY DEF Same, Admitted, Checked
<1>2. SamplesMatch' = SamplesMatch
  BY DEF Same, SamplesMatch, Seen, Sampled, Truncated
<1>3. /\ Complete("original")' = Complete("original")
      /\ Complete("tuned")' = Complete("tuned") /\ Compared' = Compared
  BY DEF Same, Compared, Complete
<1>4. QED
  BY <1>1, <1>2, <1>3

LEMMA NowFacts == TypeOK => Now \in Nat \ {0}
  BY DEF TypeOK, Now

(* The end of the handler, reached with a failure.                         *)
LEMMA FailInv ==
  ASSUME IInv, Same, stage \notin {"close", "done"}, UNCHANGED <<connected, passed>>,
         tx' \in {"none", "write", "read_only"},
         NEW s \in FailedStages \ {"none"}, Fail(s), error' \in BOOLEAN,
         s = "sample_compare" /\ ~ error' => Compared /\ ~ SamplesMatch
  PROVE  IInv'
<1>0. /\ failed_stage' = s /\ stage' \in {"close", "done"}
      /\ stage' = "close" => stage # "guard"
  BY DEF Fail, IInv, StageInv
<1>1. TypeOK'
  BY <1>0 DEF IInv, TypeOK, Same, Stages, Now
<1>2. StageInv'
  BY <1>0, SameFacts DEF IInv, StageInv, Early, Reading
<1>3. ReadInv'
  BY <1>0, SameFacts DEF IInv, ReadInv, Same, Fetching, Label
<1>4. VerdictInv'
  BY <1>0, SameFacts DEF IInv, VerdictInv
<1>5. QED
  BY <1>1, <1>2, <1>3, <1>4 DEF IInv

(* A step before the first statement is executed.                          *)
LEMMA EarlyInv ==
  ASSUME IInv, stage \in Early, stage' \in (Early \ {"guard"}) \cup {"execute_original"},
         UNCHANGED <<pair, versions, readAt, delivered, row_count, error>>,
         UNCHANGED <<failed_stage, passed>>,
         connected' \in BOOLEAN, tx' \in {"none", "write", "read_only"},
         view' \in 0 .. Now, checks' \in [Label -> {"none", "ok", "bad"}],
         stage' \in Early => view' = 0,
         Admitted,
         stage' \in {"commit", "snapshot", "execute_original"} => Checked',
         stage' \in {"check_tuned", "decide"} => checks'["original"] # "none",
         stage' = "decide" => checks'["tuned"] # "none",
         stage' = "snapshot" => tx' = "none",
         SameSnapshot /\ stage' = "execute_original" => tx' = "read_only" /\ view' # 0
  PROVE  IInv'
<1>1. TypeOK'
  BY DEF IInv, TypeOK, Stages, Early, Now
<1>2. Admitted' <=> Admitted
  BY DEF Admitted
<1>3. \A l \in Label : readAt'[l] = 0
  BY DEF IInv, StageInv
<1>4. StageInv'
  BY <1>2, <1>3 DEF IInv, StageInv, Early, Reading
<1>5. ReadInv'
  BY <1>3 DEF IInv, ReadInv, Fetching, Early, Label
<1>6. VerdictInv'
  BY DEF IInv, StageInv, VerdictInv, Early
<1>7. QED
  BY <1>1, <1>4, <1>5, <1>6 DEF IInv

LEMMA GuardInv == ASSUME IInv, Guard PROVE IInv'
<1>1. /\ stage = "guard" /\ UNCHANGED <<pair, versions, connected, tx, view, checks>>
      /\ UNCHANGED <<readAt, delivered, row_count, error, passed>>
  BY DEF Guard, dbVars, sessionVars, sampleVars
<1>2. CASE stage' = "connect" /\ UNCHANGED failed_stage /\ Admitted
  BY <1>1, <1>2, EarlyInv DEF Early, IInv, TypeOK, StageInv
<1>3. ASSUME NEW s \in FailedStages \ {"none", "sample_compare"}, Fail(s) PROVE IInv'
  BY <1>1, <1>3, FailInv DEF Same, IInv, TypeOK
<1>4. QED
  BY <1>2, <1>3 DEF Guard, Admitted, FailedStages

LEMMA SetupInv == ASSUME IInv, Connect \/ ApplySession PROVE IInv'
<1>1. /\ \/ stage = "connect" /\ stage' = "session"
         \/ stage = "session" /\ stage' = "check_original"
      /\ UNCHANGED <<pair, versions, tx, view, checks, failed_stage, passed>>
      /\ UNCHANGED <<readAt, delivered, row_count, error>>
      /\ connected' \in BOOLEAN
  BY DEF Connect, ApplySession, dbVars, sessionVars, sampleVars, verdictVars, IInv, TypeOK
<1>2. QED
  BY <1>1, EarlyInv DEF Early, IInv, TypeOK, StageInv

LEMMA CheckInv == ASSUME IInv, NEW l \in Label, Check(l) PROVE IInv'
<1>1. /\ \/ l = "original" /\ stage = "check_original" /\ stage' = "check_tuned"
         \/ l = "tuned" /\ stage = "check_tuned" /\ stage' = "decide"
      /\ tx' \in {"none", "write", "read_only"}
      /\ \E c \in {"ok", "bad"} : checks' = [checks EXCEPT ![l] = c]
      /\ UNCHANGED <<pair, versions, connected, view, failed_stage, passed>>
      /\ UNCHANGED <<readAt, delivered, row_count, error>>
  BY DEF Check, Checking, Label, dbVars, sampleVars, verdictVars, IInv, TypeOK
<1>2. /\ checks' \in [Label -> {"none", "ok", "bad"}] /\ checks'[l] # "none"
      /\ \A k \in Label \ {l} : checks'[k] = checks[k]
  BY <1>1 DEF IInv, TypeOK
<1>3. /\ checks'["original"] # "none"
      /\ stage' = "decide" => checks'["tuned"] # "none"
  BY <1>1, <1>2 DEF IInv, StageInv, Label
<1>4. QED
  BY <1>1, <1>2, <1>3, EarlyInv DEF Early, IInv, TypeOK, StageInv

LEMMA DecideInv == ASSUME IInv, Decide PROVE IInv'
<1>1. /\ stage = "decide" /\ UNCHANGED <<pair, versions, connected, tx, view, checks>>
      /\ UNCHANGED <<readAt, delivered, row_count, error, passed>>
  BY DEF Decide, dbVars, sessionVars, sampleVars
<1>2. CASE stage' = "commit" /\ UNCHANGED failed_stage /\ Checked
  BY <1>1, <1>2, EarlyInv DEF Early, IInv, TypeOK, StageInv, Checked
<1>3. ASSUME NEW s \in FailedStages \ {"none", "sample_compare"}, Fail(s) PROVE IInv'
  BY <1>1, <1>3, FailInv DEF Same, IInv, TypeOK
<1>4. CASE checks["original"] # "bad" /\ checks["tuned"] # "bad"
  <2>1. Checked
    BY <1>1, <1>4 DEF IInv, TypeOK, StageInv, Checked, Label
  <2>2. QED
    BY <1>2, <1>4, <2>1 DEF Decide
<1>5. QED
  BY <1>3, <1>4 DEF Decide, FailedStages

LEMMA CommitInv == ASSUME IInv, Commit PROVE IInv'
<1>1. /\ stage = "commit" /\ tx' = "none"
      /\ stage' = IF SameSnapshot THEN "snapshot" ELSE "execute_original"
      /\ UNCHANGED <<pair, versions, connected, view, checks, failed_stage, passed>>
      /\ UNCHANGED <<readAt, delivered, row_count, error>>
  BY DEF Commit, dbVars, sampleVars, verdictVars
<1>2. Checked'
  BY <1>1 DEF IInv, StageInv, Checked
<1>3. QED
  BY <1>1, <1>2, EarlyInv DEF Early, IInv, TypeOK, StageInv

LEMMA SetSnapshotInv == ASSUME IInv, SetSnapshot PROVE IInv'
<1>1. /\ stage = "snapshot" /\ UNCHANGED <<pair, versions, connected, checks, passed>>
      /\ UNCHANGED <<readAt, delivered, row_count, error>>
  BY DEF SetSnapshot, dbVars, sampleVars
<1>2. CASE stage' = "execute_original" /\ tx' = "read_only" /\ view' = Now /\ UNCHANGED failed_stage
  <2>1. Checked' /\ Now \in 0 .. Now /\ Now # 0
    BY <1>1, NowFacts DEF IInv, StageInv, Checked
  <2>2. QED
    BY <1>1, <1>2, <2>1, EarlyInv DEF Early, IInv, TypeOK, StageInv
<1>3. CASE Fail("snapshot_setup") /\ UNCHANGED <<tx, view>>
  <2>1. "snapshot_setup" \in FailedStages \ {"none"}
    BY DEF FailedStages
  <2>2. QED
    BY <1>1, <1>3, <2>1, FailInv DEF Same, IInv, TypeOK
<1>4. QED
  BY <1>2, <1>3 DEF SetSnapshot

-----------------------------------------------------------------------------
(* Reading the results.                                                    *)
LEMMA ReadingTypes ==
  ASSUME IInv, NEW l \in Label
  PROVE  /\ row_count[l] \in Nat /\ row_count[l] <= MaxRows + 1
         /\ delivered[l] \in Seq(Row) /\ Len(delivered[l]) \in Nat
         /\ row_count[l] <= Len(delivered[l])
         /\ \A v \in 1 .. Now : versions[v][l] \in Seq(Row)
<1>1. row_count[l] \in Nat /\ row_count[l] <= MaxRows + 1
  BY MaxRowsFacts DEF IInv, TypeOK
<1>2. delivered[l] \in Seq(Row) /\ Len(delivered[l]) \in Nat
  BY DEF IInv, TypeOK
<1>3. \A v \in 1 .. Now : versions[v] \in Contents
  BY DEF IInv, TypeOK, Now
<1>4. QED
  BY <1>1, <1>2, <1>3, ValidationAssumption DEF IInv, ReadInv

LEMMA ExecuteInv == ASSUME IInv, NEW l \in Label, Execute(l) PROVE IInv'
<1>1. /\ stage = Executing(l) /\ stage' = Fetching(l)
      /\ UNCHANGED <<pair, versions, connected, tx, view, checks>>
      /\ UNCHANGED <<row_count, error, failed_stage, passed>>
  BY DEF Execute, dbVars, sessionVars, verdictVars
<1>a. PICK v \in 1 .. Now :
        /\ v = (IF view = 0 THEN Now ELSE view)
        /\ readAt' = [readAt EXCEPT ![l] = v]
        /\ \E rows \in Deliveries(l, versions[v][l]) :
             delivered' = [delivered EXCEPT ![l] = rows]
  <2>1. (IF view = 0 THEN Now ELSE view) \in 1 .. Now
    BY NowFacts DEF IInv, TypeOK
  <2>2. QED
    BY <2>1 DEF Execute
<1>2. PICK rows \in Deliveries(l, versions[v][l]) :
        /\ v = (IF view = 0 THEN Now ELSE view)
        /\ readAt' = [readAt EXCEPT ![l] = v]
        /\ delivered' = [delivered EXCEPT ![l] = rows]
  BY <1>a
<1>3. /\ rows \in Seq(Row) /\ Len(rows) = Len(versions[v][l])
      /\ Bag(rows) = Bag(versions[v][l]) /\ (pair[l].ordered => rows = versions[v][l])
  <2>1. versions[v][l] \in Seq(Row)
    BY ReadingTypes
  <2>2. QED
    BY <2>1, Delivered
<1>4. /\ readAt' \in [Label -> 0 .. Now] /\ delivered' \in [Label -> Seq(Row)]
      /\ readAt'[l] = v /\ delivered'[l] = rows /\ v # 0
      /\ \A k \in Label \ {l} : readAt'[k] = readAt[k] /\ delivered'[k] = delivered[k]
  BY <1>2, <1>3, NowFacts DEF IInv, TypeOK
<1>5. TypeOK'
  BY <1>1, <1>4 DEF IInv, TypeOK, Now, Stages, Fetching
<1>6. row_count[l] = 0 /\ l \in {"original", "tuned"} /\ Len(rows) \in Nat
  BY <1>1, <1>3 DEF IInv, StageInv, Executing, Label
<1>7. stage \in Reading /\ Admitted /\ Checked /\ (SameSnapshot => view # 0)
  BY <1>1 DEF IInv, StageInv, Executing, Reading
<1>8. Admitted' = Admitted /\ Checked' = Checked
  BY <1>1 DEF Admitted, Checked
<1>9. StageInv'
  BY <1>1, <1>4, <1>7, <1>8 DEF IInv, StageInv, Executing, Fetching, Early, Reading, Label
<1>10. l = "tuned" => Complete("original")'
  BY <1>1, <1>4 DEF IInv, ReadInv, Complete, Executing, Label
<1>11. ReadInv'
  <2>1. ASSUME NEW k \in Label
        PROVE  /\ row_count'[k] <= Len(delivered'[k])
               /\ stage' = Fetching(k) => readAt'[k] # 0
               /\ readAt'[k] # 0 =>
                    /\ Admitted' /\ Checked' /\ (SameSnapshot => readAt'[k] = view')
                    /\ Len(delivered'[k]) = Len(versions'[readAt'[k]][k])
                    /\ Bag(delivered'[k]) = Bag(versions'[readAt'[k]][k])
                    /\ pair'[k].ordered => delivered'[k] = versions'[readAt'[k]][k]
    <3>1. CASE k = l
      BY <1>1, <1>2, <1>3, <1>4, <1>6, <1>7, <1>8, <3>1
    <3>2. CASE k # l
      BY <1>1, <1>4, <1>8, <3>2 DEF IInv, ReadInv, Fetching, Label
    <3>3. QED
      BY <3>1, <3>2
  <2>2. QED
    BY <1>1, <1>10, <2>1 DEF ReadInv, Fetching, Executing, Label, Bag
<1>12. VerdictInv'
  BY <1>1 DEF IInv, StageInv, VerdictInv, Executing, Fetching
<1>13. QED
  BY <1>5, <1>9, <1>11, <1>12 DEF IInv

LEMMA FetchInv == ASSUME IInv, NEW l \in Label, Fetch(l) PROVE IInv'
<1> DEFINE n == BatchSize(l)
           count == Counted(l, n)
<1>1. /\ stage = Fetching(l) /\ row_count' = [row_count EXCEPT ![l] = count]
      /\ stage' = IF n = 0 \/ count > MaxRows
                  THEN IF l = "original" THEN "execute_tuned" ELSE "compare"
                  ELSE stage
      /\ UNCHANGED <<pair, versions, connected, tx, view, checks>>
      /\ UNCHANGED <<readAt, delivered, error, failed_stage, passed>>
  BY DEF Fetch, dbVars, sessionVars, verdictVars
<1>2. /\ count \in 0 .. MaxRows + 1 /\ count <= Len(delivered[l])
      /\ n = 0 => count = Len(delivered[l])
  BY ReadingTypes, MaxRowsFacts, ValidationAssumption DEF BatchSize, Counted, AtMost
<1> HIDE DEF n, count
<1>3. /\ row_count' \in [Label -> 0 .. MaxRows + 1] /\ row_count'[l] = count
      /\ \A k \in Label \ {l} : row_count'[k] = row_count[k]
  BY <1>1, <1>2 DEF IInv, TypeOK
<1>4. TypeOK'
  BY <1>1, <1>3 DEF IInv, TypeOK, Now, Stages, Fetching
<1>5. Admitted' = Admitted /\ Checked' = Checked
  BY <1>1 DEF Admitted, Checked
<1>6. stage \in Reading /\ Admitted /\ Checked /\ readAt[l] # 0
  BY <1>1 DEF IInv, StageInv, ReadInv, Fetching, Reading
<1>7. StageInv'
  BY <1>1, <1>3, <1>5, <1>6 DEF IInv, StageInv, Fetching, Early, Reading, Label
<1>8. stage' # stage => Complete(l)'
  BY <1>1, <1>2, <1>3, <1>6 DEF Complete
<1>9. l = "tuned" => Complete("original")'
  BY <1>1, <1>3 DEF IInv, ReadInv, Complete, Fetching, Label
<1>10. ReadInv'
  <2>1. ASSUME NEW k \in Label
        PROVE  /\ row_count'[k] <= Len(delivered'[k])
               /\ stage' = Fetching(k) => readAt'[k] # 0
    <3>1. CASE k = l
      BY <1>1, <1>2, <1>3, <1>6, <3>1
    <3>2. CASE k # l
      BY <1>1, <1>3, <3>2 DEF IInv, ReadInv, Fetching, Label
    <3>3. QED
      BY <3>1, <3>2
  <2>2. QED
    BY <1>1, <1>5, <1>8, <1>9, <2>1 DEF IInv, ReadInv, Fetching, Label, Bag
<1>11. VerdictInv'
  BY <1>1 DEF IInv, StageInv, VerdictInv, Fetching
<1>12. QED
  BY <1>4, <1>7, <1>10, <1>11 DEF IInv

LEMMA SampleFailsInv ==
  ASSUME IInv, BindMismatch \/ SampleError PROVE IInv'
<1>1. /\ stage \in Reading /\ error' = TRUE /\ Fail("sample_compare")
      /\ UNCHANGED <<connected, tx, passed>> /\ Same
  BY DEF BindMismatch, SampleError, SampleFails, Executing, Fetching, Reading, Same,
         dbVars, sessionVars
<1>2. "sample_compare" \in FailedStages \ {"none"}
  BY DEF FailedStages
<1>3. QED
  BY <1>1, <1>2, FailInv DEF Reading, IInv, TypeOK

LEMMA CompareInv == ASSUME IInv, Compare PROVE IInv'
<1>1. stage = "compare" /\ Same /\ UNCHANGED <<connected, tx, error, passed>>
  BY DEF Compare, Same, dbVars, sessionVars, sampleVars
<1>2. Compared
  BY <1>1 DEF IInv, ReadInv, Compared
<1>3. CASE SamplesMatch
  <2>1. stage' = "rollback" /\ failed_stage' = failed_stage
    BY <1>3 DEF Compare
  <2>2. TypeOK'
    BY <1>1, <2>1 DEF IInv, TypeOK, Same, Stages, Now
  <2>3. StageInv'
    BY <1>1, <2>1, SameFacts DEF IInv, StageInv, Early, Reading
  <2>4. ReadInv'
    BY <1>1, <2>1, SameFacts DEF IInv, ReadInv, Same, Fetching, Label
  <2>5. VerdictInv'
    BY <1>1, <1>2, <1>3, <2>1, SameFacts DEF IInv, StageInv, VerdictInv
  <2>6. QED
    BY <2>2, <2>3, <2>4, <2>5 DEF IInv
<1>4. CASE ~ SamplesMatch
  <2>1. Fail("sample_compare") /\ "sample_compare" \in FailedStages \ {"none"}
    BY <1>4 DEF Compare, FailedStages
  <2>2. QED
    BY <1>1, <1>2, <1>4, <2>1, FailInv DEF IInv, TypeOK
<1>5. QED
  BY <1>3, <1>4

(* From the match to the verdict, or to an exception on the way.           *)
LEMMA EndInv == ASSUME IInv, Rollback \/ Close PROVE IInv'
<1>1. /\ Same /\ UNCHANGED <<error, failed_stage>> /\ tx' = "none"
      /\ \/ stage = "rollback" /\ stage' = "close" /\ UNCHANGED <<connected, passed>>
         \/ /\ stage = "close" /\ stage' = "done" /\ connected' = FALSE
            /\ passed' = (failed_stage = "none")
  BY DEF Rollback, Close, Same, dbVars, sampleVars, verdictVars
<1>2. TypeOK'
  BY <1>1 DEF IInv, TypeOK, Same, Stages, Now
<1>3. StageInv'
  BY <1>1, SameFacts DEF IInv, StageInv, Early, Reading
<1>4. ReadInv'
  BY <1>1, SameFacts DEF IInv, ReadInv, Same, Fetching, Label
<1>5. VerdictInv'
  <2>1. CASE stage = "rollback" /\ stage' = "close" /\ UNCHANGED passed
    BY <1>1, <2>1, SameFacts DEF IInv, StageInv, VerdictInv
  <2>2. CASE stage = "close" /\ stage' = "done" /\ passed' = (failed_stage = "none")
    <3>1. passed' => failed_stage = "none"
      BY <2>2
    <3>2. QED
      BY <1>1, <2>2, <3>1, SameFacts DEF IInv, VerdictInv
  <2>3. QED
    BY <1>1, <2>1, <2>2
<1>6. QED
  BY <1>2, <1>3, <1>4, <1>5 DEF IInv

LEMMA RaiseInv == ASSUME IInv, Raise PROVE IInv'
<1>1. /\ Same /\ UNCHANGED <<error, passed>> /\ tx' = "none" /\ connected' = FALSE
      /\ stage \notin {"done", "guard"} /\ stage' = "done"
      /\ failed_stage' = "oracle_runtime"
  BY DEF Raise, Same, dbVars, sampleVars
<1>2. TypeOK'
  BY <1>1 DEF IInv, TypeOK, Same, Stages, FailedStages, Now
<1>3. StageInv'
  BY <1>1, SameFacts DEF IInv, StageInv, Early, Reading
<1>4. ReadInv'
  BY <1>1, SameFacts DEF IInv, ReadInv, Same, Fetching, Label
<1>5. VerdictInv'
  BY <1>1, SameFacts DEF IInv, VerdictInv
<1>6. QED
  BY <1>2, <1>3, <1>4, <1>5 DEF IInv

(* A commit adds a version; the ones before it stay as they are.           *)
LEMMA CommittedInv == ASSUME IInv, OtherCommit PROVE IInv'
<1>1. /\ UNCHANGED <<pair, stage, connected, tx, view, checks, failed_stage, passed>>
      /\ UNCHANGED <<readAt, delivered, row_count, error>>
  BY DEF OtherCommit, sessionVars, sampleVars, verdictVars
<1>2. PICK c \in Contents : versions' = Append(versions, c)
  BY DEF OtherCommit
<1>3. /\ versions' \in Seq(Contents) /\ versions' # <<>> /\ Now \in Nat
      /\ Now' = Now + 1 /\ \A v \in 1 .. Now : versions'[v] = versions[v]
  BY <1>2 DEF IInv, TypeOK, Now
<1>4. TypeOK'
  <2>1. view' \in 0 .. Now' /\ readAt' \in [Label -> 0 .. Now']
    BY <1>1, <1>3 DEF IInv, TypeOK
  <2>2. QED
    BY <1>1, <1>3, <2>1 DEF IInv, TypeOK
<1>5. /\ Admitted' = Admitted /\ Checked' = Checked /\ SamplesMatch' = SamplesMatch
      /\ Complete("original")' = Complete("original")
      /\ Complete("tuned")' = Complete("tuned") /\ Compared' = Compared
  BY <1>1 DEF Admitted, Checked, SamplesMatch, Seen, Sampled, Truncated, Complete, Compared
<1>6. StageInv'
  BY <1>1, <1>5 DEF IInv, StageInv
<1>7. ReadInv'
  <2>1. \A l \in Label : readAt[l] # 0 => versions'[readAt[l]] = versions[readAt[l]]
    BY <1>3 DEF IInv, TypeOK
  <2>2. QED
    BY <1>1, <1>5, <2>1 DEF IInv, ReadInv, Fetching, Bag
<1>8. VerdictInv'
  BY <1>1, <1>5 DEF IInv, VerdictInv
<1>9. QED
  BY <1>4, <1>6, <1>7, <1>8 DEF IInv

LEMMA NextInv == IInv /\ [Next]_vars => IInv'
<1> SUFFICES ASSUME IInv, [Next]_vars PROVE IInv'
  OBVIOUS
<1>1. CASE Guard \/ Connect \/ ApplySession \/ Decide \/ Commit \/ SetSnapshot
  BY <1>1, GuardInv, SetupInv, DecideInv, CommitInv, SetSnapshotInv
<1>2. ASSUME NEW l \in Label, Check(l) \/ Execute(l) \/ Fetch(l) PROVE IInv'
  BY <1>2, CheckInv, ExecuteInv, FetchInv
<1>3. CASE BindMismatch \/ SampleError \/ Compare \/ Rollback \/ Close \/ Raise
  BY <1>3, SampleFailsInv, CompareInv, EndInv, RaiseInv
<1>4. CASE OtherCommit
  BY <1>4, CommittedInv
<1>5. CASE UNCHANGED vars
  <2>1. /\ Same /\ UNCHANGED <<stage, connected, tx, error, failed_stage, passed>>
    BY <1>5 DEF vars, dbVars, sessionVars, sampleVars, verdictVars, Same
  <2>2. TypeOK'
    BY <2>1 DEF IInv, TypeOK, Same, Now
  <2>3. StageInv' /\ VerdictInv'
    BY <2>1, SameFacts DEF IInv, StageInv, VerdictInv, Same
  <2>4. ReadInv'
    BY <2>1, SameFacts DEF IInv, ReadInv, Same, Fetching, Bag
  <2>5. QED
    BY <2>2, <2>3, <2>4 DEF IInv
<1>6. QED
  BY <1>1, <1>2, <1>3, <1>4, <1>5 DEF Next, Stop

(* The inductive invariant holds at every step of a validation.            *)
THEOREM Invariance == Spec => []IInv
  BY InitInv, NextInv, PTL DEF Spec

(* Every variable has its type; no more rows are counted than the limit    *)
(* and one.                                                                *)
THEOREM TypeCorrect == Spec => []TypeOK
<1>1. IInv => TypeOK
  BY DEF IInv
<1>2. QED
  BY <1>1, Invariance, PTL

(* What the policy searches for is not in the code of a text it lets pass. *)
LEMMA PolicySearches ==
  ASSUME NEW s, SafetyViolations(s) = {}
  PROVE  s.text \cap
           ({"RESULT_CACHE", "MATERIALIZED", "PACKAGE", "SEMICOLON"} \X {"code"}) = {}
<1> SUFFICES ASSUME NEW w \in {"RESULT_CACHE", "MATERIALIZED", "PACKAGE", "SEMICOLON"},
                    <<w, "code">> \in s.text
             PROVE  FALSE
  OBVIOUS
<1> DEFINE clean == StripComments(s.text)
<1>1. <<w, "code">> \in clean /\ <<w, "code">> \in MaskLiterals(clean)
  BY DEF StripComments, MaskLiterals
<1> HIDE DEF clean
<1>2. w \in Words(clean) /\ w \in Words(MaskLiterals(clean))
  BY <1>1 DEF Words
<1>3. SafetyViolations(s) = ProhibitedFeatures(clean)
           \cup (Words(MaskLiterals(clean)) \cap {"PACKAGE", "SEMICOLON"})
  BY DEF SafetyViolations, clean
<1>4. w \in {"PACKAGE", "SEMICOLON"}
  BY <1>2, <1>3 DEF ProhibitedFeatures
<1>5. QED
  BY <1>2, <1>3, <1>4

(* No statement runs that was not checked, and none outside the snapshot.  *)
THEOREM ExecutionSound == Spec => []OnlyCheckedSqlRuns
<1>1. IInv => OnlyCheckedSqlRuns
  <2> SUFFICES ASSUME IInv PROVE OnlyCheckedSqlRuns
    OBVIOUS
  <2>1. \A l \in Label : readAt[l] # 0 => stage \notin Early /\ Admitted /\ Checked
    BY DEF IInv, StageInv, ReadInv
  <2>2. Admitted =>
          pair["tuned"].text \cap
            ({"RESULT_CACHE", "MATERIALIZED", "PACKAGE", "SEMICOLON"} \X {"code"}) = {}
    BY PolicySearches DEF Admitted
  <2>3. stage \notin Early /\ stage \in Stages \ {"rollback", "close", "done"} =>
          stage \in Reading
    BY DEF Early, Reading, Stages
  <2>4. QED
    BY <2>1, <2>2, <2>3 DEF IInv, StageInv, OnlyCheckedSqlRuns, Admitted, Checked
<1>2. QED
  BY <1>1, Invariance, PTL

(* Two results that were read to their end and match are the same result.  *)
LEMMA WholeSample ==
  ASSUME IInv, NEW l \in Label, Complete(l), ~ Truncated(l)
  PROVE  /\ Sampled(l) = delivered[l]
         /\ Len(versions[readAt[l]][l]) <= MaxRows
<1>1. row_count[l] = Len(delivered[l]) /\ row_count[l] <= MaxRows
  BY ReadingTypes, MaxRowsFacts DEF Complete, Truncated
<1>2. Seen(l) = Len(delivered[l])
  BY <1>1, ReadingTypes, MaxRowsFacts DEF Seen, AtMost
<1>3. Sampled(l) = delivered[l]
  BY <1>2, ReadingTypes, SubSeqFull DEF Sampled
<1>4. QED
  BY <1>1, <1>3 DEF IInv, ReadInv, Complete

(* A pair that passed returned the same complete results in one state of   *)
(* the database.                                                           *)
THEOREM VerdictIsSound == Spec => []VerdictSound
<1>1. IInv => VerdictSound
  <2> SUFFICES ASSUME IInv, passed, SameSnapshot
               PROVE  \E v \in 1 .. Now :
                        /\ \A l \in Label : readAt[l] = v /\ Len(versions[v][l]) <= MaxRows
                        /\ SameResult(v)
    BY DEF VerdictSound
  <2>1. Compared /\ SamplesMatch
    BY DEF IInv, VerdictInv
  <2>2. \A l \in Label : Complete(l) /\ ~ Truncated(l)
    BY <2>1 DEF Compared, SamplesMatch, Label
  <2>3. \A l \in Label : readAt[l] = view /\ view \in 1 .. Now
    BY <2>2, NowFacts DEF IInv, ReadInv, Complete, TypeOK
  <2>4. \A l \in Label : /\ Sampled(l) = delivered[l]
                         /\ Len(versions[view][l]) <= MaxRows
    BY <2>2, <2>3, WholeSample
  <2>5. \A l \in Label : /\ Bag(delivered[l]) = Bag(versions[view][l])
                         /\ pair[l].ordered => delivered[l] = versions[view][l]
    BY <2>2, <2>3 DEF IInv, ReadInv, Complete
  <2>6. /\ Bag(Sampled("original")) = Bag(Sampled("tuned"))
        /\ pair["original"].ordered => Sampled("original") = Sampled("tuned")
    BY <2>1 DEF SamplesMatch
  <2>7. "original" \in Label /\ "tuned" \in Label
    BY DEF Label
  <2>8. SameResult(view)
    BY <2>4, <2>5, <2>6, <2>7 DEF SameResult
  <2>9. QED
    BY <2>3, <2>4, <2>7, <2>8
<1>2. QED
  BY <1>1, Invariance, PTL

(* Two sequences with the same elements, as often, are equally long.       *)
LEMMA BagLength ==
  ASSUME NEW s \in Seq(Row), NEW t \in Seq(Row), Bag(s) = Bag(t) PROVE Len(s) = Len(t)
<1>1. PICK m \in Nat : m = Len(s) /\ DOMAIN s = 1 .. m
  OBVIOUS
<1>2. PICK n \in Nat : n = Len(t) /\ DOMAIN t = 1 .. n
  OBVIOUS
<1> DEFINE A(r) == {i \in 1 .. m : s[i] = r}
           B(r) == {i \in 1 .. n : t[i] = r}
           F == [r \in Row |-> CHOOSE f : f \in Bijection(A(r), B(r))]
           g == [i \in 1 .. m |-> F[s[i]][i]]
<1>3. IsFiniteSet(1 .. m) /\ IsFiniteSet(1 .. n)
      /\ Cardinality(1 .. m) = m /\ Cardinality(1 .. n) = n
  BY FS_Interval
<1>4. ASSUME NEW r \in Row PROVE F[r] \in Bijection(A(r), B(r))
  <2>1. IsFiniteSet(A(r)) /\ IsFiniteSet(B(r))
    BY <1>3, FS_Subset
  <2>2. Bag(s)[r] = Cardinality(A(r)) /\ Bag(t)[r] = Cardinality(B(r))
    BY <1>1, <1>2 DEF Bag
  <2>3. ExistsBijection(A(r), B(r))
    BY <2>1, <2>2, FS_SameCardinalityBij
  <2>4. \E f : f \in Bijection(A(r), B(r))
    BY <2>3 DEF ExistsBijection
  <2>5. QED
    BY <2>4
<1> HIDE DEF F
<1>5. ASSUME NEW r \in Row
      PROVE  /\ \A i \in 1 .. m : s[i] = r => F[r][i] \in 1 .. n /\ t[F[r][i]] = r
             /\ \A i, k \in 1 .. m : s[i] = r /\ s[k] = r /\ F[r][i] = F[r][k] => i = k
             /\ \A j \in 1 .. n : t[j] = r => \E i \in 1 .. m : s[i] = r /\ F[r][i] = j
  <2>1. /\ F[r] \in [A(r) -> B(r)]
        /\ \A i, k \in A(r) : F[r][i] = F[r][k] => i = k
        /\ \A j \in B(r) : \E i \in A(r) : F[r][i] = j
    <3> DEFINE S == A(r)
               T == B(r)
               f == F[r]
    <3>1. f \in Bijection(S, T)
      BY <1>4
    <3> HIDE DEF S, T, f
    <3>2. /\ f \in [S -> T]
          /\ \A i, k \in S : f[i] = f[k] => i = k
          /\ \A j \in T : \E i \in S : f[i] = j
      BY <3>1, Fun_BijectionProperties
    <3>3. QED
      BY <3>2 DEF S, T, f
  <2>2. \A i \in 1 .. m : s[i] = r => F[r][i] \in 1 .. n /\ t[F[r][i]] = r
    <3> SUFFICES ASSUME NEW i \in 1 .. m, s[i] = r
                 PROVE  F[r][i] \in 1 .. n /\ t[F[r][i]] = r
      OBVIOUS
    <3>1. F[r][i] \in B(r)
      BY <2>1
    <3>2. QED
      BY <3>1
  <2>3. \A i, k \in 1 .. m : s[i] = r /\ s[k] = r /\ F[r][i] = F[r][k] => i = k
    BY <2>1
  <2>4. \A j \in 1 .. n : t[j] = r => \E i \in 1 .. m : s[i] = r /\ F[r][i] = j
    <3> SUFFICES ASSUME NEW j \in 1 .. n, t[j] = r
                 PROVE  \E i \in 1 .. m : s[i] = r /\ F[r][i] = j
      OBVIOUS
    <3>1. PICK i \in A(r) : F[r][i] = j
      BY <2>1
    <3>2. QED
      BY <3>1
  <2>5. QED
    BY <2>2, <2>3, <2>4
<1>6. \A i \in 1 .. m : s[i] \in Row /\ g[i] = F[s[i]][i]
  BY <1>1
<1>7. \A j \in 1 .. n : t[j] \in Row
  BY <1>2
<1>8. g \in [1 .. m -> 1 .. n] /\ \A i \in 1 .. m : t[g[i]] = s[i]
  BY <1>5, <1>6
<1> HIDE DEF g
<1>9. \A i, k \in 1 .. m : g[i] = g[k] => i = k
  <2> SUFFICES ASSUME NEW i \in 1 .. m, NEW k \in 1 .. m, g[i] = g[k] PROVE i = k
    OBVIOUS
  <2>1. s[i] = s[k]
    BY <1>8
  <2>2. s[i] \in Row /\ g[i] = F[s[i]][i] /\ g[k] = F[s[i]][k]
    BY <1>6, <2>1
  <2>3. F[s[i]][i] = F[s[i]][k]
    BY <2>2
  <2> HIDE DEF F
  <2>4. QED
    BY <1>5, <2>1, <2>2, <2>3
<1>10. \A j \in 1 .. n : \E i \in 1 .. m : g[i] = j
  <2> TAKE j \in 1 .. n
  <2>1. PICK i \in 1 .. m : s[i] = t[j] /\ F[t[j]][i] = j
    BY <1>5, <1>7
  <2>2. QED
    BY <1>6, <2>1
<1>11. g \in Bijection(1 .. m, 1 .. n)
  BY <1>8, <1>9, <1>10, Fun_IsBij
<1>12. QED
  BY <1>1, <1>2, <1>3, <1>11, FS_Bijection DEF ExistsBijection

(* A comparison that ran to its end and failed had a reason in the         *)
(* snapshot.                                                               *)
THEOREM RejectionIsJustified == Spec => []RejectionJustified
<1>1. IInv => RejectionJustified
  <2> SUFFICES ASSUME IInv, failed_stage = "sample_compare", ~ error, SameSnapshot
               PROVE  /\ readAt["original"] = readAt["tuned"]
                      /\ \/ pair["original"].columns # pair["tuned"].columns
                         \/ \E l \in Label : Len(versions[readAt["tuned"]][l]) > MaxRows
                         \/ ~ SameResult(readAt["tuned"])
                         \/ /\ pair["original"].ordered
                            /\ delivered["original"] # delivered["tuned"]
    BY DEF RejectionJustified
  <2>1. Compared /\ ~ SamplesMatch
    BY DEF IInv, VerdictInv
  <2>2. \A l \in Label : Complete(l)
    BY <2>1 DEF Compared, Label
  <2>3. \A l \in Label : readAt[l] = view /\ view \in 1 .. Now
    BY <2>2, NowFacts DEF IInv, ReadInv, Complete, TypeOK
  <2>4. "original" \in Label /\ "tuned" \in Label
    BY DEF Label
  <2>5. \A l \in Label :
          /\ Len(delivered[l]) = Len(versions[view][l])
          /\ Bag(delivered[l]) = Bag(versions[view][l])
    BY <2>2, <2>3 DEF IInv, ReadInv, Complete
  <2>6. ASSUME pair["original"].columns = pair["tuned"].columns,
               \A l \in Label : ~ (Len(versions[view][l]) > MaxRows),
               SameResult(view),
               pair["original"].ordered => delivered["original"] = delivered["tuned"]
        PROVE  FALSE
    <3>1. \A l \in Label : ~ Truncated(l)
      <4> TAKE l \in Label
      <4>1. row_count[l] <= Len(delivered[l]) /\ ~ (Len(delivered[l]) > MaxRows)
        BY <2>5, <2>6, ReadingTypes
      <4>2. QED
        BY <4>1, ReadingTypes, MaxRowsFacts DEF Truncated
    <3>2. \A l \in Label : Sampled(l) = delivered[l]
      BY <2>2, <3>1, WholeSample
    <3>3. \A l \in Label : Seen(l) = Len(delivered[l])
      BY <2>2, <3>1, ReadingTypes, MaxRowsFacts DEF Complete, Truncated, Seen, AtMost
    <3>4. Bag(delivered["original"]) = Bag(delivered["tuned"])
      BY <2>4, <2>5, <2>6 DEF SameResult
    <3>5. Len(delivered["original"]) = Len(delivered["tuned"])
      BY <2>4, <3>4, ReadingTypes, BagLength
    <3>6. SamplesMatch
      BY <2>4, <2>6, <3>1, <3>2, <3>3, <3>4, <3>5 DEF SamplesMatch
    <3>7. QED
      BY <2>1, <3>6
  <2>7. QED
    BY <2>3, <2>4, <2>6
<1>2. QED
  BY <1>1, Invariance, PTL
=============================================================================
