-------------------------- MODULE BenchmarkProofs --------------------------
(* Proofs about Benchmark, for every number of repetitions, every set of   *)
(* times and any number of commits of other sessions.                      *)
EXTENDS Benchmark, FiniteSetTheorems, WellFoundedInduction, TLAPS

Rounds(l) == {i \in DOMAIN first : first[i] = l}
Count(l) == Cardinality(Rounds(l))

(* The inductive invariant.  BalanceInv: the tuned statement leads in the  *)
(* odd rounds, so that it is ahead by one after each of them.              *)
StageInv ==
  /\ stage \in {"guard", "connect", "session", "snapshot", "binds"} =>
       index = 0 /\ ran = {} /\ seen = {} /\ first = <<>>
  /\ stage = "binds" /\ SameSnapshot => view # 0
  /\ stage = "rounds" => index <= Repetitions

BalanceInv ==
  /\ stage = "rounds" =>
       Len(first) = IF ran = {} /\ index # 0 THEN index - 1 ELSE index
  /\ \A l \in Label : IsFiniteSet(Rounds(l))
  /\ Count("tuned") = Count("original") + (Len(first) % 2)

WarmInv ==
  /\ stage = "rounds" => \A l \in Label : index # 0 \/ l \in ran => l \in warm
  /\ \A l \in Label : \A i \in DOMAIN samples[l] : samples[l][i] \in Times

SnapshotInv ==
  SameSnapshot =>
    /\ stage = "rounds" => view # 0 /\ seen \subseteq {view}
    /\ \E v \in Nat : seen \subseteq {v}

(* Each statement has a time per recorded round it was executed in, and a  *)
(* verdict is one about as many times as there were to be.                 *)
Complete == \A l \in Label : Len(samples[l]) = Repetitions

SamplesInv ==
  /\ stage \in {"guard", "connect", "session", "snapshot", "binds"} =>
       \A l \in Label : Len(samples[l]) = 0
  /\ stage = "rounds" =>
       \A l \in Label :
         Len(samples[l]) = IF index = 0 \/ l \in ran THEN index ELSE index - 1
  /\ stage \in {"rollback", "decide"} => Complete
  /\ improved # "none" => stage = "done"
  /\ improved = "yes" =>
       Complete /\ Improved(TwiceMedian(samples["original"]), TwiceMedian(samples["tuned"]))

IInv == TypeOK /\ StageInv /\ BalanceInv /\ WarmInv /\ SnapshotInv /\ SamplesInv

LEMMA InitInv == Init => IInv
<1> SUFFICES ASSUME Init PROVE IInv
  OBVIOUS
<1>1. TypeOK
  BY BenchmarkAssumption DEF Init, TypeOK, Stages, Failing
<1>2. \A l \in Label : Rounds(l) = {}
  BY DEF Init, Rounds
<1>3. \A l \in Label : IsFiniteSet(Rounds(l)) /\ Count(l) = 0
  BY <1>2, FS_EmptySet DEF Count
<1>4. first = <<>> /\ Len(first) = 0 /\ stage # "rounds"
  BY DEF Init
<1>5. BalanceInv
  BY <1>3, <1>4 DEF BalanceInv, Label
<1>6. QED
  BY <1>1, <1>5 DEF Init, IInv, StageInv, WarmInv, SnapshotInv, SamplesInv

(* Executing a statement.                                                  *)
LEMMA LeaderRecorded ==
  ASSUME IInv, NEW k \in Label, k = Leader, Len(first) + 1 = index,
         first' = Append(first, k)
  PROVE  /\ \A l \in Label : IsFiniteSet(Rounds(l)')
         /\ Count("tuned")' = Count("original")' + (Len(first') % 2)
<1>1. first \in Seq(Label) /\ index \in Nat
  BY DEF IInv, TypeOK
<1>2. DOMAIN first = 1 .. Len(first) /\ DOMAIN first' = 1 .. index /\ Len(first') = index
      /\ index \notin DOMAIN first
      /\ first'[index] = k /\ \A i \in DOMAIN first : first'[i] = first[i]
  BY <1>1
<1>3. Rounds(k)' = Rounds(k) \cup {index} /\ index \notin Rounds(k)
  BY <1>1, <1>2 DEF Rounds
<1>4. \A l \in Label \ {k} : Rounds(l)' = Rounds(l)
  BY <1>1, <1>2 DEF Rounds
<1>5. /\ IsFiniteSet(Rounds(k)')
      /\ Count(k)' = Count(k) + 1
  BY <1>1, <1>3, FS_AddElement DEF IInv, BalanceInv, Count
<1>6. \A l \in Label \ {k} : Count(l)' = Count(l)
  BY <1>4 DEF Count
<1>7. \A l \in Label : Count(l) \in Nat
  BY FS_CardinalityType DEF Count, IInv, BalanceInv
<1>8. \A l \in Label : IsFiniteSet(Rounds(l)')
  BY <1>4, <1>5 DEF IInv, BalanceInv
<1>9. Count("tuned")' = Count("original")' + (Len(first') % 2)
  <2>1. Count("tuned") = Count("original") + (Len(first) % 2)
    BY DEF IInv, BalanceInv
  <2>2. CASE index % 2 = 0
    <3>1. k = "original" /\ Len(first) % 2 = 1
      BY <1>1, <2>2 DEF Leader
    <3>2. Count("original")' = Count("original") + 1 /\ Count("tuned")' = Count("tuned")
      BY <1>5, <1>6, <3>1 DEF Label
    <3>3. QED
      BY <1>2, <1>7, <2>1, <2>2, <3>1, <3>2 DEF Label
  <2>3. CASE index % 2 = 1
    <3>1. k = "tuned" /\ Len(first) % 2 = 0
      BY <1>1, <2>3 DEF Leader
    <3>2. Count("tuned")' = Count("tuned") + 1 /\ Count("original")' = Count("original")
      BY <1>5, <1>6, <3>1 DEF Label
    <3>3. Count("tuned") = Count("original") /\ Len(first') % 2 = 1
      BY <1>2, <1>7, <2>1, <2>3, <3>1 DEF Label
    <3>4. QED
      BY <3>2, <3>3
  <2>4. QED
    BY <1>1, <2>2, <2>3
<1>10. QED
  BY <1>8, <1>9

LEMMA ExecuteInv ==
  ASSUME IInv, NEW l \in Label, Execute(l) PROVE IInv'
<1>1. /\ stage = "rounds" /\ stage' = stage /\ l \notin ran
      /\ ran' = ran \cup {l} /\ warm' = warm \cup {l}
      /\ ran = {} => l = Leader
      /\ UNCHANGED <<pair, version, view, index, improved>>
  BY DEF Execute
<1>2. /\ index \in Nat /\ index <= Repetitions /\ Repetitions \in Nat
      /\ samples \in [Label -> Seq(Nat)] /\ first \in Seq(Label)
  BY <1>1, BenchmarkAssumption DEF IInv, StageInv, TypeOK
<1>3. seen' \subseteq 1 .. version /\ SnapshotInv' /\ StageInv'
  <2>1. seen' = seen \cup {IF view = 0 THEN version ELSE view}
    BY DEF Execute
  <2>2. view \in 0 .. version /\ version \in Nat \ {0} /\ seen \subseteq 1 .. version
    BY BenchmarkAssumption DEF IInv, TypeOK
  <2>3. SnapshotInv'
    BY <1>1, <2>1, <2>2 DEF IInv, SnapshotInv
  <2>4. QED
    BY <1>1, <2>1, <2>2, <2>3 DEF IInv, StageInv
<1>4. /\ samples' \in [Label -> Seq(Nat)]
      /\ \A k \in Label : \A i \in DOMAIN samples'[k] : samples'[k][i] \in Times
  <2>1. CASE Recorded
    <3>1. PICK t \in Times :
            samples' = [samples EXCEPT ![l] = Append(@, IF l \in warm THEN t ELSE t + Cold)]
      BY <2>1 DEF Execute
    <3>2. l \in warm /\ t \in Nat
      BY <1>1, <2>1, BenchmarkAssumption DEF Recorded, IInv, WarmInv
    <3>3. samples' = [samples EXCEPT ![l] = Append(samples[l], t)]
      BY <3>1, <3>2
    <3>4. samples[l] \in Seq(Nat)
      BY <1>2
    <3>5. \A i \in DOMAIN Append(samples[l], t) : Append(samples[l], t)[i] \in Times
      BY <3>4, <3>2 DEF IInv, WarmInv
    <3>6. QED
      BY <1>2, <3>2, <3>3, <3>4, <3>5 DEF IInv, WarmInv
  <2>2. CASE ~ Recorded
    BY <1>2, <2>2 DEF Execute, IInv, WarmInv
  <2>3. QED
    BY <2>1, <2>2
<1>5. WarmInv'
  BY <1>1, <1>4 DEF IInv, WarmInv
<1>6. BalanceInv' /\ first' \in Seq(Label)
  <2>1. ran' # {}
    BY <1>1
  <2>2. CASE Recorded /\ ran = {}
    <3>1. first' = Append(first, Leader) /\ Len(first) + 1 = index
      BY <1>1, <1>2, <2>2 DEF Execute, Recorded, IInv, BalanceInv
    <3>2. Leader \in Label
      BY DEF Leader, Label
    <3>3. QED
      BY <1>1, <1>2, <2>1, <3>1, <3>2, LeaderRecorded DEF BalanceInv
  <2>3. CASE ~ (Recorded /\ ran = {})
    <3>1. first' = first
      BY <2>3 DEF Execute
    <3>2. \A k : Rounds(k)' = Rounds(k) /\ Count(k)' = Count(k)
      BY <3>1 DEF Rounds, Count
    <3>3. Len(first) = index
      BY <1>1, <1>2, <2>3 DEF Recorded, IInv, BalanceInv
    <3>4. QED
      BY <1>1, <1>2, <2>1, <3>1, <3>2, <3>3 DEF IInv, BalanceInv
  <2>4. QED
    BY <2>2, <2>3
<1>7. TypeOK'
  BY <1>1, <1>3, <1>4, <1>6 DEF IInv, TypeOK
<1>8. SamplesInv'
  <2>0. stage = "rounds" /\ improved = "none"
    BY <1>1 DEF IInv, TypeOK, SamplesInv
  <2>1. \A k \in Label :
          Len(samples'[k]) = IF index = 0 \/ k \in ran \cup {l} THEN index ELSE index - 1
    <3>1. CASE Recorded
      <4>1. PICK n \in Nat : samples' = [samples EXCEPT ![l] = Append(@, n)]
        BY <3>1, BenchmarkAssumption DEF Execute
      <4>2. samples[l] \in Seq(Nat) /\ samples'[l] = Append(samples[l], n)
            /\ Len(samples[l]) = index - 1
        BY <1>1, <1>2, <3>1, <4>1 DEF Recorded, IInv, SamplesInv
      <4>3. Len(samples'[l]) = index
        BY <1>2, <4>2
      <4>4. \A k \in Label \ {l} : samples'[k] = samples[k]
        BY <1>2, <4>1
      <4>5. QED
        BY <1>1, <3>1, <4>3, <4>4 DEF Recorded, IInv, SamplesInv
    <3>2. CASE ~ Recorded
      BY <1>1, <3>2 DEF Execute, Recorded, IInv, SamplesInv
    <3>3. QED
      BY <3>1, <3>2
  <2>2. QED
    BY <1>1, <2>0, <2>1 DEF SamplesInv
<1>9. QED
  BY <1>3, <1>5, <1>6, <1>7, <1>8 DEF IInv

(* The steps that leave the rounds alone.                                  *)
LEMMA RoundsKept ==
  ASSUME IInv, UNCHANGED <<samples, warm, first>>
  PROVE  /\ \A l \in Label : IsFiniteSet(Rounds(l)')
         /\ Count("tuned")' = Count("original")' + (Len(first') % 2)
         /\ \A l \in Label : \A i \in DOMAIN samples'[l] : samples'[l][i] \in Times
  BY DEF IInv, BalanceInv, WarmInv, Rounds, Count

LEMMA QuietStep ==
  ASSUME IInv, UNCHANGED <<pair, roundVars, seen>>, stage' \in Stages,
         improved' \in {"none", "yes", "no"},
         version' \in 1 .. MaxCommits + 1, version <= version',
         view' \in 0 .. version',
         StageInv', SamplesInv', stage' = "rounds" =>
                      \/ stage = "rounds" /\ view' = view
                      \/ stage = "binds" /\ (SameSnapshot => view' # 0)
  PROVE  IInv'
<1>1. version \in Nat
  BY BenchmarkAssumption DEF IInv, TypeOK
<1>2. TypeOK'
  BY <1>1, BenchmarkAssumption DEF IInv, TypeOK, roundVars
<1>3. BalanceInv' /\ WarmInv'
  BY RoundsKept DEF IInv, StageInv, BalanceInv, WarmInv, roundVars
<1>4. SnapshotInv'
  BY DEF IInv, StageInv, SnapshotInv
<1>5. QED
  BY <1>2, <1>3, <1>4 DEF IInv

LEMMA NextInv == IInv /\ [Next]_vars => IInv'
<1> SUFFICES ASSUME IInv, [Next]_vars PROVE IInv'
  OBVIOUS
<1>0. /\ version \in 1 .. MaxCommits + 1 /\ view \in 0 .. version
      /\ MaxCommits \in Nat /\ Repetitions \in Nat
      /\ improved \in {"none", "yes", "no"} /\ stage \in Stages /\ StageInv /\ SamplesInv
  BY BenchmarkAssumption DEF IInv, TypeOK
<1>1. CASE Guard
  BY <1>0, <1>1, QuietStep DEF Guard, Goto, handlerVars, roundVars, StageInv, SamplesInv, Stages, Failing
<1>2. CASE Connect
  BY <1>0, <1>2, QuietStep DEF Connect, Goto, handlerVars, roundVars, StageInv, SamplesInv, Stages, Failing
<1>3. CASE ApplySession
  BY <1>0, <1>3, QuietStep DEF ApplySession, Goto, handlerVars, roundVars, StageInv, SamplesInv, Stages, Failing
<1>4. CASE SetSnapshot
  BY <1>0, <1>4, QuietStep DEF SetSnapshot, Goto, roundVars, StageInv, SamplesInv, Stages, Failing
<1>5. CASE Binds
  BY <1>0, <1>5, QuietStep DEF Binds, Goto, handlerVars, roundVars, StageInv, SamplesInv, Stages, Failing
<1>6. CASE \E l \in Label : Execute(l)
  BY <1>6, ExecuteInv
<1>7. CASE NextRound
  <2>1. /\ index \in Nat /\ index <= Repetitions /\ stage = "rounds"
        /\ ran = Label /\ ran' = {} /\ index' = index + 1
        /\ stage' = IF index = Repetitions THEN "rollback" ELSE "rounds"
        /\ UNCHANGED <<pair, version, view, seen, warm, samples, first, improved>>
    BY <1>7 DEF NextRound, Goto, handlerVars, IInv, TypeOK, StageInv
  <2>2. TypeOK' /\ StageInv'
    BY <1>0, <2>1 DEF IInv, TypeOK, StageInv, Stages, Failing
  <2>3. BalanceInv'
    BY <1>0, <2>1, RoundsKept DEF IInv, BalanceInv, Label
  <2>4. WarmInv' /\ SnapshotInv'
    BY <2>1, RoundsKept DEF IInv, WarmInv, SnapshotInv
  <2>5. SamplesInv'
    BY <1>0, <2>1 DEF SamplesInv, Complete
  <2>6. QED
    BY <2>2, <2>3, <2>4, <2>5 DEF IInv
<1>8. CASE Rollback
  BY <1>0, <1>8, QuietStep DEF Rollback, Goto, roundVars, StageInv, SamplesInv, Complete, Stages, Failing
<1>9. CASE Decide
  BY <1>0, <1>9, QuietStep DEF Decide, Goto, handlerVars, roundVars, StageInv, SamplesInv, Complete, Stages, Failing
<1>10. CASE Fail
  BY <1>0, <1>10, QuietStep DEF Fail, roundVars, StageInv, SamplesInv, Stages, Failing
<1>11. CASE OtherCommit
  BY <1>0, <1>11, QuietStep DEF OtherCommit, roundVars, StageInv, SamplesInv, Complete, Stages, Failing
<1>12. CASE UNCHANGED vars
  BY <1>0, <1>12, QuietStep DEF vars, handlerVars, roundVars, StageInv, SamplesInv, Complete
<1>13. QED
  BY <1>1, <1>2, <1>3, <1>4, <1>5, <1>6, <1>7, <1>8, <1>9, <1>10, <1>11, <1>12
     DEF Next, Step, Stop

(* The inductive invariant holds at every step of a benchmark.             *)
THEOREM Invariance == Spec => []IInv
  BY InitInv, NextInv, PTL DEF Spec

(* Every variable has its type, and the loop ends after its rounds.        *)
THEOREM TypeCorrect == Spec => []TypeOK
<1>1. IInv => TypeOK
  BY DEF IInv
<1>2. QED
  BY <1>1, Invariance, PTL

(* No statement is favoured by the order, and no cold execution counts.    *)
THEOREM FairSound == Spec => []RoundsFair
<1>1. ASSUME IInv PROVE RoundsFair
  <2>1. \A l \in Label : Count(l) \in Nat
    BY <1>1, FS_CardinalityType DEF Count, IInv, BalanceInv
  <2>2. Len(first) % 2 \in {0, 1}
    BY <1>1 DEF IInv, TypeOK
  <2>3. \A l, k \in Label : Count(l) <= Count(k) + 1
    BY <1>1, <2>1, <2>2 DEF IInv, BalanceInv, Label
  <2>4. \A l \in Label : \A i \in DOMAIN samples[l] : samples[l][i] \in Times
    BY <1>1 DEF IInv, WarmInv
  <2>5. \A l, k \in Label : Cardinality({i \in DOMAIN first : first[i] = l})
                             <= Cardinality({i \in DOMAIN first : first[i] = k}) + 1
    BY <2>3, Zenon DEF Count, Rounds
  <2>6. QED
    BY <2>5, <2>4 DEF RoundsFair
<1>2. QED
  BY <1>1, Invariance, PTL

(* With SAME_SNAPSHOT_VALIDATION all executions see one database state.    *)
THEOREM SnapshotSound == Spec => []OneSnapshot
<1>1. ASSUME IInv, SameSnapshot PROVE Cardinality(seen) <= 1
  <2>1. PICK v \in Nat : seen \subseteq {v}
    BY <1>1 DEF IInv, SnapshotInv
  <2>2. seen = {} \/ seen = {v}
    BY <2>1
  <2>3. QED
    BY <2>2, FS_EmptySet, FS_Singleton
<1>2. IInv => OneSnapshot
  BY <1>1 DEF OneSnapshot
<1>3. QED
  BY <1>2, Invariance, PTL
-----------------------------------------------------------------------------
(* What the median is.  Ranked chooses a time by counting; that there is   *)
(* one to choose takes a smallest and a largest time.                      *)
LEMMA Smallest ==
  ASSUME NEW S \in SUBSET Nat, S # {} PROVE \E x \in S : \A y \in S : x <= y
<1>1. \E x \in S : \A y \in S : <<y, x>> \notin OpToRel(<, Nat)
  BY WFMin, NatLessThanWellFounded, Zenon
<1>2. PICK x \in S : \A y \in S : <<y, x>> \notin OpToRel(<, Nat)
  BY <1>1
<1>3. \A y \in S : <<y, x>> \in Nat \X Nat
  OBVIOUS
<1>4. \A y \in S : ~ (y < x)
  BY <1>2, <1>3 DEF OpToRel
<1>5. QED
  BY <1>4

LEMMA Larger ==
  ASSUME NEW a \in Nat, NEW b \in Nat PROVE \E c \in Nat : a <= c /\ b <= c
<1>1. a <= b \/ b <= a
  OBVIOUS
<1>2. QED
  BY <1>1

UpperBound(s, n) == \E b \in Nat : \A i \in 1 .. n : s[i] <= b

LEMMA BoundGrows ==
  ASSUME NEW s \in Seq(Nat), NEW n \in 1 .. Len(s), UpperBound(s, n - 1)
  PROVE  UpperBound(s, n)
<1>1. n \in Nat /\ s[n] \in Nat /\ \A i \in 1 .. n : s[i] \in Nat
  OBVIOUS
<1>2. PICK b \in Nat : \A i \in 1 .. n - 1 : s[i] <= b
  BY DEF UpperBound
<1>3. PICK c \in Nat : b <= c /\ s[n] <= c
  BY <1>1, Larger
<1>4. \A i \in 1 .. n : s[i] <= c
  <2> TAKE i \in 1 .. n
  <2>1. s[i] \in Nat /\ (i = n \/ i \in 1 .. n - 1)
    BY <1>1
  <2>2. CASE i = n
    BY <1>3, <2>2
  <2>3. CASE i \in 1 .. n - 1
    <3>1. s[i] <= b
      BY <1>2, <2>3
    <3>2. QED
      BY <1>3, <2>1, <3>1
  <2>4. QED
    BY <2>1, <2>2, <2>3
<1>5. QED
  BY <1>4 DEF UpperBound

LEMMA Bounded ==
  ASSUME NEW s \in Seq(Nat) PROVE \E b \in Nat : \A i \in DOMAIN s : s[i] <= b
<1> DEFINE Unbounded == {n \in 0 .. Len(s) : ~ UpperBound(s, n)}
<1>1. Len(s) \in Nat /\ DOMAIN s = 1 .. Len(s)
  OBVIOUS
<1>2. UpperBound(s, 0)
  <2>1. \A i \in 1 .. 0 : s[i] <= 0
    OBVIOUS
  <2>2. QED
    BY <2>1 DEF UpperBound
<1>3. ASSUME Unbounded # {} PROVE FALSE
  <2>1. Unbounded \in SUBSET Nat
    BY <1>1
  <2>2. PICK n \in Unbounded : \A m \in Unbounded : n <= m
    BY <1>3, <2>1, Smallest
  <2>3. n \in 1 .. Len(s) /\ n - 1 \in 0 .. Len(s) /\ ~ (n <= n - 1)
    BY <1>1, <1>2, <2>2
  <2>4. n - 1 \notin Unbounded
    BY <2>2, <2>3
  <2>5. UpperBound(s, n - 1)
    BY <2>3, <2>4
  <2>6. UpperBound(s, n)
    BY <2>3, <2>5, BoundGrows
  <2>7. QED
    BY <2>2, <2>6
<1>4. UpperBound(s, Len(s))
  BY <1>1, <1>3
<1>5. QED
  BY <1>1, <1>4 DEF UpperBound

LEMMA Counting ==
  ASSUME NEW s \in Seq(Nat), NEW t \in Nat
  PROVE  /\ IsFiniteSet({i \in DOMAIN s : s[i] < t})
         /\ IsFiniteSet({i \in DOMAIN s : s[i] <= t})
         /\ Below(s, t) \in Nat /\ UpTo(s, t) \in Nat
<1>1. IsFiniteSet(DOMAIN s)
  BY FS_Interval
<1>2. /\ IsFiniteSet({i \in DOMAIN s : s[i] < t})
      /\ IsFiniteSet({i \in DOMAIN s : s[i] <= t})
  BY <1>1, FS_Subset
<1>3. QED
  BY <1>2, FS_CardinalityType DEF Below, UpTo

(* Fewer are below a time than are up to any time below it.                *)
LEMMA CountsGrow ==
  ASSUME NEW s \in Seq(Nat), NEW t \in Nat, NEW u \in Nat, t < u
  PROVE  UpTo(s, t) <= Below(s, u)
<1>1. \A i \in DOMAIN s : s[i] \in Nat
  OBVIOUS
<1>2. {i \in DOMAIN s : s[i] <= t} \subseteq {i \in DOMAIN s : s[i] < u}
  BY <1>1
<1>3. QED
  BY <1>2, Counting, FS_Subset DEF UpTo, Below

(* The k-th smallest time of a sequence is one of its times.               *)
LEMMA RankedFacts ==
  ASSUME NEW s \in Seq(Nat), NEW k \in 1 .. Len(s)
  PROVE  /\ Ranked(s, k) \in {s[i] : i \in DOMAIN s} /\ Ranked(s, k) \in Nat
         /\ Below(s, Ranked(s, k)) < k /\ k <= UpTo(s, Ranked(s, k))
<1> DEFINE V == {s[i] : i \in DOMAIN s}
           Enough == {t \in Nat : k <= UpTo(s, t)}
<1>1. k \in Nat \ {0} /\ V \subseteq Nat
  OBVIOUS
<1>2. Enough # {}
  <2>1. PICK b \in Nat : \A i \in DOMAIN s : s[i] <= b
    BY Bounded
  <2>2. {i \in DOMAIN s : s[i] <= b} = 1 .. Len(s)
    BY <2>1
  <2>3. Cardinality(1 .. Len(s)) = Len(s)
    <3>1. PICK n \in Nat : n = Len(s)
      OBVIOUS
    <3>2. Cardinality(1 .. n) = IF 1 > n THEN 0 ELSE n - 1 + 1
      BY FS_Interval
    <3>3. Cardinality(1 .. n) = n
      BY <3>2
    <3>4. QED
      BY <3>1, <3>3
  <2>4. UpTo(s, b) = Len(s)
    BY <2>2, <2>3, Zenon DEF UpTo
  <2>5. QED
    BY <2>4
<1>3. PICK t \in Enough : \A u \in Enough : t <= u
  BY <1>2, Smallest
<1>4. t \in Nat /\ k <= UpTo(s, t)
  BY <1>3
<1>5. Below(s, t) < k
  <2>1. CASE t = 0
    <3>1. {i \in DOMAIN s : s[i] < t} = {}
      BY <2>1
    <3>2. Below(s, t) = 0
      BY <3>1, FS_EmptySet, Zenon DEF Below
    <3>3. QED
      BY <1>1, <3>2
  <2>2. CASE t # 0
    <3>1. PICK u \in Nat : u = t - 1
      BY <1>4, <2>2
    <3>2. u \notin Enough
      BY <1>3, <1>4, <3>1
    <3>3. UpTo(s, u) \in Nat
      BY Counting
    <3>4. UpTo(s, u) < k
      BY <1>1, <3>2, <3>3
    <3>5. {i \in DOMAIN s : s[i] < t} = {i \in DOMAIN s : s[i] <= u}
      BY <1>4, <3>1
    <3>6. Below(s, t) = UpTo(s, u)
      BY <3>5, Zenon DEF Below, UpTo
    <3>7. QED
      BY <3>4, <3>6
  <2>3. QED
    BY <2>1, <2>2
<1>6. t \in V
  <2> SUFFICES ASSUME t \notin V PROVE FALSE
    OBVIOUS
  <2>1. {i \in DOMAIN s : s[i] <= t} = {i \in DOMAIN s : s[i] < t}
    BY <1>4
  <2>2. UpTo(s, t) = Below(s, t)
    BY <2>1, Zenon DEF UpTo, Below
  <2>3. UpTo(s, t) \in Nat
    BY <1>4, Counting
  <2>4. k <= UpTo(s, t) /\ UpTo(s, t) < k
    BY <1>4, <1>5, <2>2
  <2> HIDE DEF Enough, V
  <2>5. QED
    BY <1>1, <2>3, <2>4
<1>7. \E x \in V : Below(s, x) < k /\ k <= UpTo(s, x)
  BY <1>4, <1>5, <1>6
<1>8. Ranked(s, k) \in V /\ Below(s, Ranked(s, k)) < k /\ k <= UpTo(s, Ranked(s, k))
  BY <1>7 DEF Ranked
<1>9. QED
  BY <1>1, <1>8

(* A positive threshold is met only by a smaller number.                   *)
LEMMA Faster ==
  ASSUME NEW o \in Nat, NEW t \in Nat, Threshold > 0, Improved(o, t)
  PROVE  t < o
<1>1. Threshold \in Nat \ {0}
  BY BenchmarkAssumption
<1>2. o # 0 /\ 100 * (o - t) >= Threshold * o
  BY <1>1 DEF Improved
<1>3. Threshold * o >= o
  BY <1>1
<1>4. QED
  BY <1>1, <1>2, <1>3

(* If one of the two middle times is smaller, it separates the halves.     *)
LEMMA Separates ==
  ASSUME NEW s \in Seq(Nat), NEW r \in Seq(Nat), NEW k \in 1 .. Repetitions,
         Len(s) = Repetitions, Len(r) = Repetitions,
         Ranked(s, k) < Ranked(r, k),
         2 * k >= Repetitions, 2 * (k - 1) <= Repetitions
  PROVE  \E t \in {s[i] : i \in DOMAIN s} :
           2 * UpTo(s, t) >= Repetitions /\ 2 * UpTo(r, t) <= Repetitions
<1> DEFINE t == Ranked(s, k)
           u == Ranked(r, k)
<1>1. t \in {s[i] : i \in DOMAIN s} /\ t \in Nat /\ k <= UpTo(s, t)
  BY RankedFacts
<1>2. u \in Nat /\ Below(r, u) < k
  BY RankedFacts
<1>3. UpTo(r, t) <= Below(r, u) /\ UpTo(r, t) \in Nat /\ Below(r, u) \in Nat
      /\ UpTo(s, t) \in Nat
  BY <1>1, <1>2, CountsGrow, Counting
<1> HIDE DEF t, u
<1>4. k \in Nat /\ Repetitions \in Nat
  BY BenchmarkAssumption
<1>5. 2 * UpTo(s, t) >= Repetitions
  BY <1>1, <1>3, <1>4
<1>6. UpTo(r, t) <= k - 1
  BY <1>2, <1>3, <1>4
<1>7. 2 * UpTo(r, t) <= Repetitions
  BY <1>3, <1>4, <1>6
<1>8. QED
  BY <1>1, <1>5, <1>7

(* Whatever the outliers, a rewrite that is called faster has a time that  *)
(* half of its executions keep to and at most half of the original's.      *)
THEOREM OutliersSound == Spec => []OutliersDoNotDecide
<1>1. ASSUME IInv, improved = "yes", Threshold > 0
      PROVE  \E t \in {samples["tuned"][i] : i \in DOMAIN samples["tuned"]} :
               /\ 2 * UpTo(samples["tuned"], t) >= Repetitions
               /\ 2 * UpTo(samples["original"], t) <= Repetitions
  <2> DEFINE s == samples["tuned"]
             r == samples["original"]
             low == (Repetitions + 1) \div 2
             high == Repetitions \div 2 + 1
  <2>1. /\ s \in Seq(Nat) /\ r \in Seq(Nat)
        /\ Len(s) = Repetitions /\ Len(r) = Repetitions
        /\ Improved(TwiceMedian(r), TwiceMedian(s))
    BY <1>1 DEF IInv, TypeOK, SamplesInv, Complete, Label
  <2>2. /\ low \in 1 .. Repetitions /\ 2 * low >= Repetitions /\ 2 * (low - 1) <= Repetitions
        /\ high \in 1 .. Repetitions /\ 2 * high >= Repetitions
        /\ 2 * (high - 1) <= Repetitions
    BY BenchmarkAssumption
  <2>3. /\ TwiceMedian(s) = Ranked(s, low) + Ranked(s, high)
        /\ TwiceMedian(r) = Ranked(r, low) + Ranked(r, high)
    BY <2>1 DEF TwiceMedian
  <2> HIDE DEF s, r, low, high
  <2>4. /\ Ranked(s, low) \in Nat /\ Ranked(s, high) \in Nat
        /\ Ranked(r, low) \in Nat /\ Ranked(r, high) \in Nat
    BY <2>1, <2>2, RankedFacts
  <2>5. TwiceMedian(s) < TwiceMedian(r)
    BY <1>1, <2>1, <2>3, <2>4, Faster
  <2>6. Ranked(s, low) < Ranked(r, low) \/ Ranked(s, high) < Ranked(r, high)
    BY <2>3, <2>4, <2>5
  <2>7. \E t \in {s[i] : i \in DOMAIN s} :
          2 * UpTo(s, t) >= Repetitions /\ 2 * UpTo(r, t) <= Repetitions
    BY <2>1, <2>2, <2>6, Separates
  <2>8. QED
    BY <2>7 DEF s, r
<1>2. IInv => OutliersDoNotDecide
  BY <1>1 DEF OutliersDoNotDecide
<1>3. QED
  BY <1>2, Invariance, PTL
=============================================================================
