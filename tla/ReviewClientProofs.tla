------------------------- MODULE ReviewClientProofs -------------------------
(* Proofs about ReviewClient, for any number of queries, requests in       *)
(* flight, clicks, failures and rewrites of the files.                     *)
EXTENDS ReviewClient, FiniteSetTheorems, WellFoundedInduction, TLAPS

(* What an answer holds fits its question, and the periodic refresh asks   *)
(* to keep the selection.                                                  *)
TaskInv ==
  \A s \in Slots :
    /\ tasks[s].kind = "runs" => tasks[s].items \subseteq RunIds
    /\ tasks[s].kind = "run" => tasks[s].items \subseteq Names
    /\ tasks[s].refresh /\ tasks[s].kind \in {"runs", "run"} => tasks[s].preserve

(* The flag and the chain of requests it stands for.                       *)
RefreshInv ==
  /\ \A s \in Slots : tasks[s].refresh => refreshing
  /\ refreshing => \E s \in Slots : tasks[s].refresh
  /\ \A s, u \in Slots : tasks[s].refresh /\ tasks[u].refresh => s = u

(* An answer that broke off is counted among the failures.                 *)
UnreadInv == \A s \in Slots : tasks[s].stage = "unread" => failures # 0

(* What is not right on the screen is asked for already.                   *)
RunComing == \E s \in Slots : tasks[s].kind = "run" /\ tasks[s].run = selectedRun
QueryComing ==
  \E s \in Slots : /\ tasks[s].kind = "query" /\ tasks[s].run = selectedRun
                   /\ tasks[s].name = selectedQuery

RunRight   == title = selectedRun /\ run.id = selectedRun
QueryRight == detail.run = selectedRun /\ detail.name = selectedQuery /\ shown = detail

ScreenInv ==
  /\ selectedRun = None => title = None /\ detail = NoDetail
  /\ failures = 0 /\ selectedRun # None => RunComing \/ RunRight
  /\ failures = 0 /\ detail # NoDetail => RunComing \/ QueryComing \/ QueryRight

IInv == TypeOK /\ TaskInv /\ RefreshInv /\ ScreenInv

LEMMA LowestIn ==
  ASSUME NEW S \in SUBSET Nat, S # {} PROVE Lowest(S) \in S
<1>1. \E x \in S : \A y \in S : <<y, x>> \notin OpToRel(<, Nat)
  BY WFMin, NatLessThanWellFounded, Zenon
<1>2. PICK x \in S : \A y \in S : <<y, x>> \notin OpToRel(<, Nat)
  BY <1>1
<1>3. \A y \in S : <<y, x>> \in Nat \X Nat
  OBVIOUS
<1>4. \A y \in S : ~ (y < x)
  BY <1>2, <1>3 DEF OpToRel
<1>5. \A y \in S : x <= y
  BY <1>4
<1>6. QED
  BY <1>5 DEF Lowest

LEMMA SlotFree ==
  ASSUME FreeSlots # {}
  PROVE  Lowest(FreeSlots) \in Slots /\ tasks[Lowest(FreeSlots)] = Idle
<1>1. FreeSlots \in SUBSET Nat
  BY ClientAssumption DEF FreeSlots, Slots
<1>2. Lowest(FreeSlots) \in FreeSlots
  BY <1>1, LowestIn
<1>3. QED
  BY <1>2 DEF FreeSlots

LEMMA IdleFacts ==
  /\ Idle \in Task /\ Idle.kind = "none" /\ Idle.refresh = FALSE /\ Idle.items = {}
  BY ClientAssumption DEF Idle, Task, Versions

(* A request that is sent: what it asks, and that nothing is read yet.     *)
LEMMA Sent ==
  ASSUME NEW kind \in {"runs", "run", "query"}, NEW r \in RunIds \cup {None},
         NEW n \in Names \cup {None}, NEW ref \in BOOLEAN, NEW keep \in BOOLEAN
  PROVE  LET t == Asking(kind, r, n, ref, keep)
         IN  /\ t \in Task /\ t.kind = kind /\ t.run = r /\ t.name = n
             /\ t.refresh = ref /\ t.preserve = keep /\ t.items = {}
<1>1. Idle \in Task /\ Idle.items = {}
  BY IdleFacts
<1>2. QED
  BY <1>1 DEF Asking, Task

LEMMA InitInv == Init => IInv
<1> SUFFICES ASSUME Init PROVE IInv
  OBVIOUS
<1>1. NoDetail \in [run : RunIds \cup {None}, name : Names \cup {None},
                    status : Versions, artifacts : Versions]
      /\ NoRun \in [id : RunIds \cup {None}, jobs : SUBSET Names, version : Versions]
  BY ClientAssumption DEF NoDetail, NoRun, Versions
<1>2. {0, 1} \subseteq Versions
  BY ClientAssumption DEF Versions
<1>3. TypeOK
  <2>1. /\ status \in [RunIds -> Versions] /\ artifacts \in [RunIds -> Versions]
        /\ jobs \in [RunIds -> SUBSET Names]
    BY <1>2 DEF Init
  <2>2. tasks \in [Slots -> Task] /\ \A s \in Slots : tasks[s].kind = "none"
    BY IdleFacts DEF Init
  <2>3. 0 \in 0 .. MaxClicks /\ 0 \in 0 .. MaxFailures
    BY ClientAssumption
  <2>4. QED
    BY <1>1, <2>1, <2>2, <2>3 DEF Init, TypeOK
<1>4. TaskInv /\ RefreshInv
  BY IdleFacts DEF Init, TaskInv, RefreshInv
<1>5. ScreenInv
  BY DEF Init, ScreenInv, None
<1>6. QED
  BY <1>3, <1>4, <1>5 DEF IInv

(* Steps of the pipeline change the files only.                            *)
LEMMA FilesInv ==
  ASSUME IInv, Pipeline PROVE IInv'
<1>1. UNCHANGED <<clientVars, tasks, clicks, failures>>
  BY DEF Pipeline, WriteArtifacts, WriteStatus, ArchiveArtifacts, ArchiveStatus
<1>2. /\ jobs' \in [RunIds -> SUBSET Names]
      /\ status' \in [RunIds -> Versions] /\ artifacts' \in [RunIds -> Versions]
  <2>0. Current \in RunIds /\ Archived \in RunIds /\ 0 \in Versions
    BY ClientAssumption DEF RunIds, Versions
  <2>1. CASE WriteArtifacts
    <3>1. artifacts[Current] + 1 \in Versions
      BY <2>0, <2>1, ClientAssumption DEF WriteArtifacts, IInv, TypeOK, Versions
    <3>2. QED
      BY <2>1, <3>1 DEF WriteArtifacts, IInv, TypeOK
  <2>2. CASE WriteStatus
    BY <2>0, <2>2 DEF WriteStatus, IInv, TypeOK
  <2>3. CASE ArchiveArtifacts
    BY <2>0, <2>3 DEF ArchiveArtifacts, IInv, TypeOK
  <2>4. CASE ArchiveStatus
    BY <2>0, <2>4 DEF ArchiveStatus, IInv, TypeOK
  <2>5. QED
    BY <2>1, <2>2, <2>3, <2>4 DEF Pipeline
<1>3. TypeOK'
  BY <1>1, <1>2 DEF IInv, TypeOK, clientVars, runVars, queryVars
<1>4. TaskInv' /\ RefreshInv' /\ ScreenInv'
  BY <1>1 DEF IInv, TaskInv, RefreshInv, ScreenInv, RunComing, QueryComing, RunRight,
     QueryRight, clientVars, runVars, queryVars
<1>5. QED
  BY <1>3, <1>4 DEF IInv

(* The server adds to the answer and leaves the question.                  *)
LEMMA ServeInv ==
  ASSUME IInv, NEW s \in Slots, Serve(s) PROVE IInv'
<1> DEFINE t == tasks[s]
<1>1. PICK stage \in {"read", "served", "refused"}, items \in SUBSET (Names \cup RunIds),
           v \in Versions, a \in Versions :
        /\ Reads(s, stage, items, v, a)
        /\ t.kind = "runs" => items \subseteq RunIds
        /\ t.kind = "run" => items \subseteq Names
  <2>0. t \in Task /\ 0 \in Versions /\ (t.kind \in {"run", "query"} => t.run \in RunIds)
    BY ClientAssumption DEF IInv, TypeOK, Versions, Task
  <2>1. CASE list_runs(s)
    BY <2>0, <2>1 DEF list_runs
  <2>2. CASE get_run(s)
    BY <2>0, <2>2 DEF get_run, IInv, TypeOK
  <2>3. CASE get_query(s)
    BY <2>0, <2>3 DEF get_query, IInv, TypeOK, Task
  <2>4. QED
    BY <2>1, <2>2, <2>3 DEF Serve
<1>2. UNCHANGED <<workspaceVars, clientVars, clicks, failures>>
  BY <1>1 DEF Reads
<1>3. t \in Task
  BY DEF IInv, TypeOK
<1>4. tasks' = [tasks EXCEPT ![s] =
                  [t EXCEPT !.stage = stage, !.items = items, !.status = v, !.artifacts = a]]
  BY <1>1, <1>3 DEF Reads, IInv, TypeOK, Task
<1>5. PICK x : x = [t EXCEPT !.stage = stage, !.items = items, !.status = v, !.artifacts = a]
  OBVIOUS
<1>6. /\ x \in Task /\ x.kind = t.kind /\ x.run = t.run /\ x.name = t.name
      /\ x.refresh = t.refresh /\ x.preserve = t.preserve /\ x.items = items
  BY <1>3, <1>5 DEF Task
<1>7. /\ tasks' \in [Slots -> Task] /\ tasks'[s] = x
      /\ \A u \in Slots \ {s} : tasks'[u] = tasks[u]
  BY <1>4, <1>5, <1>6 DEF IInv, TypeOK
<1>8. \A u \in Slots : /\ tasks'[u].kind = tasks[u].kind /\ tasks'[u].run = tasks[u].run
                       /\ tasks'[u].name = tasks[u].name
                       /\ tasks'[u].refresh = tasks[u].refresh
                       /\ tasks'[u].preserve = tasks[u].preserve
  BY <1>6, <1>7
<1>9. TypeOK'
  BY <1>2, <1>7, <1>8 DEF IInv, TypeOK, workspaceVars, clientVars, runVars, queryVars
<1>10. TaskInv'
  BY <1>1, <1>6, <1>7, <1>8 DEF IInv, TaskInv
<1>11. RefreshInv' /\ ScreenInv'
  BY <1>2, <1>8 DEF IInv, RefreshInv, ScreenInv, RunComing, QueryComing, RunRight,
     QueryRight, clientVars, runVars, queryVars
<1>12. QED
  BY <1>9, <1>10, <1>11 DEF IInv

(* A call that returns or asks on, seen from the tasks.                    *)
LEMMA ReturnFacts ==
  ASSUME IInv, NEW s \in Slots, Return(s)
  PROVE  /\ tasks' \in [Slots -> Task] /\ tasks'[s] = Idle
         /\ \A u \in Slots \ {s} : tasks'[u] = tasks[u]
         /\ RefreshInv' /\ TaskInv' /\ refreshing' \in BOOLEAN
<1>1. /\ tasks' \in [Slots -> Task] /\ tasks'[s] = Idle
      /\ \A u \in Slots \ {s} : tasks'[u] = tasks[u]
  BY IdleFacts DEF Return, IInv, TypeOK
<1>2. refreshing' <=> refreshing /\ ~ tasks[s].refresh
  BY DEF Return
<1>3. RefreshInv'
  BY <1>1, <1>2, IdleFacts DEF IInv, RefreshInv
<1>4. TaskInv'
  BY <1>1, IdleFacts DEF IInv, TaskInv
<1>5. QED
  BY <1>1, <1>3, <1>4 DEF Return

LEMMA AskFacts ==
  ASSUME IInv, NEW s \in Slots, NEW t \in Task, tasks' = [tasks EXCEPT ![s] = t],
         refreshing' = refreshing, t.refresh = tasks[s].refresh, t.items = {},
         t.refresh /\ t.kind \in {"runs", "run"} => t.preserve
  PROVE  /\ tasks' \in [Slots -> Task] /\ tasks'[s] = t
         /\ \A u \in Slots \ {s} : tasks'[u] = tasks[u]
         /\ RefreshInv' /\ TaskInv'
<1>1. /\ tasks' \in [Slots -> Task] /\ tasks'[s] = t
      /\ \A u \in Slots \ {s} : tasks'[u] = tasks[u]
  BY DEF IInv, TypeOK
<1>2. RefreshInv'
  BY <1>1 DEF IInv, RefreshInv
<1>3. TaskInv'
  BY <1>1 DEF IInv, TaskInv
<1>4. QED
  BY <1>1, <1>2, <1>3

LEMMA RefreshInvKept ==
  ASSUME IInv, refresh PROVE IInv'
<1> DEFINE s == Lowest(FreeSlots)
           t == Asking("runs", None, None, TRUE, TRUE)
<1>1. s \in Slots /\ tasks[s] = Idle
  BY SlotFree DEF refresh
<1>2. /\ t \in Task /\ t.kind = "runs" /\ t.refresh = TRUE /\ t.preserve = TRUE /\ t.items = {}
  BY IdleFacts DEF Asking, Task
<1>3. /\ ~ refreshing /\ refreshing' = TRUE /\ tasks' = [tasks EXCEPT ![s] = t]
      /\ UNCHANGED <<workspaceVars, runVars, queryVars, clicks, failures>>
  BY DEF refresh, MayRefresh
<1> HIDE DEF s, t
<1>4. /\ tasks' \in [Slots -> Task] /\ tasks'[s] = t
      /\ \A u \in Slots \ {s} : tasks'[u] = tasks[u]
  BY <1>1, <1>2, <1>3 DEF IInv, TypeOK
<1>5. TypeOK'
  BY <1>2, <1>3, <1>4 DEF IInv, TypeOK, workspaceVars, runVars, queryVars
<1>6. TaskInv'
  BY <1>2, <1>4 DEF IInv, TaskInv
<1>7. RefreshInv'
  BY <1>1, <1>2, <1>3, <1>4 DEF IInv, RefreshInv
<1>8. ScreenInv'
  <2>1. \A u \in Slots : tasks[u].kind \in {"run", "query"} => tasks'[u] = tasks[u]
    BY <1>1, <1>4, IdleFacts
  <2>2. UNCHANGED <<runs, selectedRun, run, title, selectedQuery, detail, shown, failures>>
    BY <1>3 DEF runVars, queryVars
  <2>3. (RunComing => RunComing') /\ (QueryComing => QueryComing') /\ (RunRight => RunRight')
        /\ (QueryRight => QueryRight')
    BY <2>1, <2>2 DEF RunComing, QueryComing, RunRight, QueryRight
  <2>4. QED
    BY <2>2, <2>3 DEF IInv, ScreenInv
<1>9. QED
  BY <1>5, <1>6, <1>7, <1>8 DEF IInv

(* The constant details are in their types.                                *)
LEMMA NothingShown ==
  /\ NoDetail \in [run : RunIds \cup {None}, name : Names \cup {None},
                   status : Versions, artifacts : Versions]
  /\ None \notin RunIds /\ None \notin Names /\ Names \subseteq Nat
  BY ClientAssumption DEF NoDetail, Versions, None

LEMMA LoadRunsInv ==
  ASSUME IInv, NEW s \in Slots, loadRuns(s) PROVE IInv'
<1> DEFINE t == tasks[s]
           kept == selectedRun \in t.items
           ask == Asking("run", selectedRun', None, t.refresh, t.preserve)
<1>1. /\ t \in Task /\ t.kind = "runs" /\ t.items \subseteq RunIds
      /\ t.refresh => t.preserve
  BY DEF loadRuns, IInv, TypeOK, TaskInv
<1>2. /\ runs' = t.items /\ Forgotten(kept)
      /\ IF kept THEN selectedRun' = selectedRun
         ELSE selectedRun' \in IF t.items = {} THEN {None} ELSE t.items
      /\ UNCHANGED <<workspaceVars, run, clicks, failures>>
  BY DEF loadRuns
<1>3. selectedRun' \in RunIds \cup {None} /\ (selectedRun' = None => ~ kept)
  BY <1>1, <1>2, NothingShown DEF IInv, TypeOK
<1>4. CASE selectedRun' # None
  <2>1. tasks' = [tasks EXCEPT ![s] = ask] /\ UNCHANGED <<refreshing, title, shown>>
    BY <1>4 DEF loadRuns, Ask, Preserve
  <2>2. /\ ask \in Task /\ ask.kind = "run" /\ ask.run = selectedRun'
        /\ ask.refresh = t.refresh /\ ask.preserve = t.preserve /\ ask.items = {}
    BY <1>1, <1>3, Sent DEF Task
  <2> HIDE DEF ask
  <2>3. /\ tasks' \in [Slots -> Task] /\ tasks'[s] = ask
        /\ \A u \in Slots \ {s} : tasks'[u] = tasks[u]
        /\ RefreshInv' /\ TaskInv'
    BY <1>1, <2>1, <2>2, AskFacts
  <2>4. TypeOK'
    BY <1>1, <1>2, <1>3, <1>4, <2>1, <2>2, <2>3, NothingShown
       DEF IInv, TypeOK, Forgotten, workspaceVars
  <2>5. RunComing'
    BY <2>2, <2>3 DEF RunComing
  <2>6. QED
    BY <1>4, <2>3, <2>4, <2>5 DEF IInv, ScreenInv
<1>5. CASE selectedRun' = None
  <2>1. Return(s) /\ title' = None /\ shown' = NoDetail
    BY <1>5 DEF loadRuns
  <2>2. /\ tasks' \in [Slots -> Task] /\ tasks'[s] = Idle
        /\ \A u \in Slots \ {s} : tasks'[u] = tasks[u]
        /\ RefreshInv' /\ TaskInv' /\ refreshing' \in BOOLEAN
    BY <2>1, ReturnFacts
  <2>3. selectedQuery' = None /\ detail' = NoDetail
    BY <1>2, <1>3, <1>5 DEF Forgotten
  <2>4. TypeOK'
    BY <1>1, <1>2, <1>3, <1>5, <2>1, <2>2, <2>3, NothingShown, IdleFacts
       DEF IInv, TypeOK, workspaceVars
  <2>5. QED
    BY <1>5, <2>1, <2>2, <2>3, <2>4 DEF IInv, ScreenInv
<1>6. QED
  BY <1>4, <1>5

LEMMA LoadRunInv ==
  ASSUME IInv, NEW s \in Slots, loadRun(s), tasks[s].stage = "served" \/ failures # 0
  PROVE  IInv'
<1> DEFINE t == tasks[s]
           label == IF t.stage = "unread" THEN None ELSE t.run
           kept == t.preserve /\ selectedQuery \in t.items
           ask == Asking("query", selectedRun, selectedQuery', t.refresh, FALSE)
<1>1. /\ t \in Task /\ t.kind = "run" /\ t.items \subseteq Names /\ t.run \in RunIds
      /\ t.run = selectedRun
  BY DEF loadRun, RunWanted, IInv, TypeOK, TaskInv, Task
<1>2. /\ run' = [id |-> label, jobs |-> t.items, version |-> t.status] /\ title' = label
      /\ IF kept THEN UNCHANGED <<selectedQuery, detail>>
         ELSE /\ selectedQuery' = IF t.items = {} THEN None ELSE Lowest(t.items)
              /\ detail' = NoDetail
      /\ UNCHANGED <<workspaceVars, runs, selectedRun, shown, clicks, failures>>
  BY DEF loadRun
<1>3. selectedQuery' \in Names \cup {None}
  <2>1. CASE t.items = {} \/ kept
    BY <1>1, <1>2, <2>1 DEF IInv, TypeOK
  <2>2. CASE t.items # {} /\ ~ kept
    <3>1. Lowest(t.items) \in t.items
      BY <1>1, <2>2, NothingShown, LowestIn
    <3>2. QED
      BY <1>1, <1>2, <2>2, <3>1
  <2>3. QED
    BY <2>1, <2>2
<1>4. run' \in [id : RunIds \cup {None}, jobs : SUBSET Names, version : Versions]
  BY <1>1, <1>2 DEF Task
<1>5. (failures' = 0 => RunRight') /\ selectedRun' # None
  BY <1>1, <1>2, NothingShown DEF RunRight, loadRun, Answered
<1>6. selectedQuery' = None => detail' = NoDetail
  BY <1>1, <1>2, NothingShown
<1>7. CASE QueryNeeded(selectedQuery')
  <2>1. tasks' = [tasks EXCEPT ![s] = ask] /\ UNCHANGED refreshing
    BY <1>7 DEF loadRun, Ask
  <2>2. /\ ask \in Task /\ ask.kind = "query" /\ ask.run = selectedRun
        /\ ask.name = selectedQuery' /\ ask.refresh = t.refresh /\ ask.items = {}
    BY <1>1, <1>3, IdleFacts DEF Asking, Task
  <2> HIDE DEF ask
  <2>3. /\ tasks' \in [Slots -> Task] /\ tasks'[s] = ask
        /\ \A u \in Slots \ {s} : tasks'[u] = tasks[u]
        /\ RefreshInv' /\ TaskInv'
    BY <1>1, <2>1, <2>2, AskFacts
  <2>4. TypeOK'
    BY <1>1, <1>2, <1>3, <1>4, <1>5, <2>1, <2>2, <2>3, NothingShown
       DEF IInv, TypeOK, workspaceVars
  <2>5. QueryComing'
    BY <1>2, <2>2, <2>3 DEF QueryComing
  <2>6. QED
    BY <1>5, <2>3, <2>4, <2>5 DEF IInv, ScreenInv
<1>8. CASE ~ QueryNeeded(selectedQuery')
  <2>1. Return(s) /\ selectedQuery' = None
    BY <1>8 DEF loadRun, QueryNeeded
  <2>2. /\ tasks' \in [Slots -> Task] /\ tasks'[s] = Idle
        /\ \A u \in Slots \ {s} : tasks'[u] = tasks[u]
        /\ RefreshInv' /\ TaskInv' /\ refreshing' \in BOOLEAN
    BY <2>1, ReturnFacts
  <2>3. TypeOK'
    BY <1>1, <1>2, <1>3, <1>4, <1>5, <1>6, <2>1, <2>2, NothingShown, IdleFacts
       DEF IInv, TypeOK, workspaceVars
  <2>4. QED
    BY <1>5, <1>6, <2>1, <2>2, <2>3 DEF IInv, ScreenInv
<1>9. QED
  BY <1>7, <1>8

LEMMA LoadQueryInv ==
  ASSUME IInv, NEW s \in Slots, loadQuery(s), tasks[s].stage = "served" \/ failures # 0
  PROVE  IInv'
<1> DEFINE t == tasks[s]
           label == IF t.stage = "unread" THEN None ELSE t.name
<1>1. /\ t \in Task /\ t.kind = "query" /\ t.run \in RunIds /\ t.run = selectedRun
      /\ t.name = selectedQuery
  BY DEF loadQuery, QueryWanted, IInv, TypeOK, Task
<1>2. /\ detail' = [run |-> t.run, name |-> label, status |-> t.status,
                    artifacts |-> t.artifacts]
      /\ shown' = detail' /\ Return(s)
      /\ UNCHANGED <<workspaceVars, runs, selectedRun, run, title, selectedQuery, clicks,
                     failures>>
  BY DEF loadQuery, runVars
<1>3. /\ tasks' \in [Slots -> Task] /\ tasks'[s] = Idle
      /\ \A u \in Slots \ {s} : tasks'[u] = tasks[u]
      /\ RefreshInv' /\ TaskInv' /\ refreshing' \in BOOLEAN
  BY <1>2, ReturnFacts
<1>4. detail' \in [run : RunIds \cup {None}, name : Names \cup {None},
                  status : Versions, artifacts : Versions]
  BY <1>1, <1>2 DEF Task
<1>5. TypeOK'
  BY <1>2, <1>3, <1>4, IdleFacts DEF IInv, TypeOK, workspaceVars
<1>6. (failures' = 0 => QueryRight') /\ selectedRun' # None
  BY <1>1, <1>2, NothingShown DEF QueryRight
<1>7. RunComing \/ RunRight => RunComing' \/ RunRight'
  BY <1>1, <1>2, <1>3 DEF RunComing, RunRight
<1>8. ScreenInv'
  BY <1>1, <1>2, <1>6, <1>7 DEF IInv, ScreenInv
<1>9. QED
  BY <1>3, <1>5, <1>8 DEF IInv

(* A call that ends without a result: what it was to bring is not wanted   *)
(* any more, or a failure is counted.                                      *)
LEMMA EndedInv ==
  ASSUME IInv, NEW s \in Slots, Return(s),
         UNCHANGED <<workspaceVars, runVars, queryVars, clicks>>,
         failures' \in 0 .. MaxFailures,
         \/ failures' # 0
         \/ /\ failures' = failures
            /\ ~ (tasks[s].kind = "run" /\ tasks[s].run = selectedRun)
            /\ ~ (/\ tasks[s].kind = "query" /\ tasks[s].run = selectedRun
                  /\ tasks[s].name = selectedQuery)
  PROVE  IInv'
<1>1. /\ tasks' \in [Slots -> Task] /\ tasks'[s] = Idle
      /\ \A u \in Slots \ {s} : tasks'[u] = tasks[u]
      /\ RefreshInv' /\ TaskInv' /\ refreshing' \in BOOLEAN
  BY ReturnFacts
<1>2. TypeOK'
  BY <1>1, IdleFacts DEF IInv, TypeOK, workspaceVars, runVars, queryVars
<1>3. ScreenInv'
  <2>1. UNCHANGED <<selectedRun, run, title, selectedQuery, detail, shown>>
    BY DEF runVars, queryVars
  <2>2. CASE failures' # 0
    BY <2>1, <2>2 DEF IInv, ScreenInv
  <2>3. CASE failures' = 0
    <3>1. (RunComing => RunComing') /\ (QueryComing => QueryComing')
      BY <1>1, <2>1, <2>3 DEF RunComing, QueryComing
    <3>2. (RunRight => RunRight') /\ (QueryRight => QueryRight')
      BY <2>1 DEF RunRight, QueryRight
    <3>3. QED
      BY <2>1, <2>3, <3>1, <3>2 DEF IInv, ScreenInv
  <2>4. QED
    BY <2>2, <2>3
<1>4. QED
  BY <1>1, <1>2, <1>3 DEF IInv

LEMMA DroppedInv ==
  ASSUME IInv, NEW s \in Slots, Dropped(s) PROVE IInv'
<1>1. Return(s) /\ UNCHANGED <<workspaceVars, runVars, queryVars, clicks, failures>>
  BY DEF Dropped
<1>2. /\ ~ (tasks[s].kind = "run" /\ tasks[s].run = selectedRun)
      /\ ~ (/\ tasks[s].kind = "query" /\ tasks[s].run = selectedRun
            /\ tasks[s].name = selectedQuery)
  BY DEF Dropped, RunWanted, QueryWanted
<1>3. failures' \in 0 .. MaxFailures
  BY <1>1 DEF IInv, TypeOK
<1>4. QED
  BY <1>1, <1>2, <1>3, EndedInv

(* A failure is counted, up to the bound.                                  *)
LEMMA ThrowsCounts ==
  ASSUME IInv, NEW s \in Slots, Throws(s) PROVE failures' \in 1 .. MaxFailures
<1>1. failures \in 0 .. MaxFailures /\ MaxFailures \in Nat \ {0}
  BY ClientAssumption DEF IInv, TypeOK
<1>2. CASE failures' = Lowest({failures + 1, MaxFailures})
  <2> DEFINE S == {failures + 1, MaxFailures}
  <2>1. \A x \in S : x \in Nat /\ x >= 1
    BY <1>1
  <2>2. S \in SUBSET Nat /\ S # {}
    BY <1>1
  <2>3. PICK x \in S : \A y \in S : x <= y
    <3>1. CASE failures + 1 <= MaxFailures
      BY <1>1, <3>1
    <3>2. CASE ~ (failures + 1 <= MaxFailures)
      BY <1>1, <3>2
    <3>3. QED
      BY <3>1, <3>2
  <2>4. Lowest(S) \in S /\ \A y \in S : Lowest(S) <= y
    BY <2>3 DEF Lowest
  <2>5. Lowest(S) <= MaxFailures
    BY <2>4
  <2> HIDE DEF S
  <2>6. failures' = Lowest(S)
    BY <1>2 DEF S
  <2>7. QED
    BY <1>1, <2>1, <2>4, <2>5, <2>6
<1>3. CASE failures < MaxFailures /\ failures' = failures + 1
  BY <1>1, <1>3
<1>4. QED
  BY <1>2, <1>3 DEF Throws

LEMMA ThrowsInv ==
  ASSUME IInv, NEW s \in Slots, Throws(s) PROVE IInv'
<1>1. Return(s) /\ UNCHANGED <<workspaceVars, runVars, queryVars, clicks>>
  BY DEF Throws
<1>2. failures' \in 1 .. MaxFailures /\ MaxFailures \in Nat
  BY ThrowsCounts, ClientAssumption
<1>3. failures' \in 0 .. MaxFailures /\ failures' # 0
  BY <1>2
<1>4. QED
  BY <1>1, <1>3, EndedInv

(* The answer that broke off holds nothing, and the question stays.        *)
LEMMA UnreadableInv ==
  ASSUME IInv, NEW s \in Slots, Unreadable(s) PROVE IInv' /\ failures' # 0
<1> DEFINE t == tasks[s]
<1>1. t \in Task /\ failures \in Nat /\ MaxFailures \in Nat
  BY ClientAssumption DEF IInv, TypeOK
<1>2. failures' \in 0 .. MaxFailures /\ failures' # 0
  BY <1>1 DEF Unreadable
<1>3. tasks' = [tasks EXCEPT ![s] = [t EXCEPT !.stage = "unread", !.items = {},
                                              !.status = 0, !.artifacts = 0]]
  BY <1>1 DEF Unreadable, IInv, TypeOK, Task
<1>4. PICK x : x = [t EXCEPT !.stage = "unread", !.items = {}, !.status = 0, !.artifacts = 0]
  OBVIOUS
<1>5. 0 \in Versions
  BY ClientAssumption DEF Versions
<1>6. /\ x \in Task /\ x.kind = t.kind /\ x.run = t.run /\ x.name = t.name
      /\ x.refresh = t.refresh /\ x.preserve = t.preserve /\ x.items = {}
  BY <1>1, <1>4, <1>5 DEF Task
<1>7. /\ tasks' \in [Slots -> Task] /\ tasks'[s] = x
      /\ \A u \in Slots \ {s} : tasks'[u] = tasks[u]
  BY <1>3, <1>4, <1>6 DEF IInv, TypeOK
<1>8. \A u \in Slots : /\ tasks'[u].kind = tasks[u].kind /\ tasks'[u].run = tasks[u].run
                       /\ tasks'[u].refresh = tasks[u].refresh
                       /\ tasks'[u].preserve = tasks[u].preserve
  BY <1>6, <1>7
<1>9. UNCHANGED <<workspaceVars, clientVars, clicks>>
  BY DEF Unreadable
<1>10. TypeOK'
  BY <1>2, <1>7, <1>8, <1>9 DEF IInv, TypeOK, workspaceVars, clientVars, runVars, queryVars
<1>11. TaskInv'
  BY <1>6, <1>7, <1>8 DEF IInv, TaskInv
<1>12. RefreshInv' /\ ScreenInv'
  BY <1>2, <1>8, <1>9 DEF IInv, RefreshInv, ScreenInv, clientVars, runVars, queryVars
<1>13. QED
  BY <1>2, <1>10, <1>11, <1>12 DEF IInv

LEMMA ClickRunInv ==
  ASSUME IInv, NEW r \in RunIds, ClickRun(r) PROVE IInv'
<1> DEFINE s == Lowest(FreeSlots)
           ask == Asking("run", r, None, FALSE, FALSE)
<1>1. s \in Slots /\ tasks[s] = Idle
  BY SlotFree DEF ClickRun
<1>2. /\ ask \in Task /\ ask.kind = "run" /\ ask.run = r /\ ask.refresh = FALSE
      /\ ask.items = {}
  BY IdleFacts DEF Asking, Task
<1>3. /\ selectedRun' = r /\ tasks' = [tasks EXCEPT ![s] = ask] /\ refreshing' = refreshing
      /\ clicks < MaxClicks /\ clicks' = clicks + 1
      /\ UNCHANGED <<workspaceVars, runs, run, title, queryVars, failures>>
  BY DEF ClickRun, Ask
<1> HIDE DEF s, ask
<1>4. /\ tasks' \in [Slots -> Task] /\ tasks'[s] = ask
      /\ \A u \in Slots \ {s} : tasks'[u] = tasks[u]
      /\ RefreshInv' /\ TaskInv'
  BY <1>1, <1>2, <1>3, IdleFacts, AskFacts
<1>5. clicks' \in 0 .. MaxClicks
  BY <1>3, ClientAssumption DEF IInv, TypeOK
<1>6. TypeOK'
  BY <1>2, <1>3, <1>4, <1>5, NothingShown DEF IInv, TypeOK, workspaceVars, queryVars
<1>7. RunComing' /\ selectedRun' # None
  BY <1>1, <1>2, <1>3, <1>4, NothingShown DEF RunComing
<1>8. QED
  BY <1>4, <1>6, <1>7 DEF IInv, ScreenInv

LEMMA ClickQueryInv ==
  ASSUME IInv, NEW n \in Names, ClickQuery(n) PROVE IInv'
<1> DEFINE s == Lowest(FreeSlots)
           ask == Asking("query", selectedRun, n, FALSE, FALSE)
<1>1. s \in Slots /\ tasks[s] = Idle
  BY SlotFree DEF ClickQuery
<1>2. selectedRun \in RunIds \cup {None} /\ (selectedRun = None => title = None)
  BY DEF IInv, TypeOK, ScreenInv
<1>3. selectedRun \in RunIds
  BY <1>2 DEF ClickQuery
<1>4. /\ ask \in Task /\ ask.kind = "query" /\ ask.run = selectedRun /\ ask.name = n
      /\ ask.refresh = FALSE /\ ask.items = {}
  BY <1>2, IdleFacts DEF Asking, Task
<1>5. /\ selectedQuery' = n /\ tasks' = [tasks EXCEPT ![s] = ask] /\ refreshing' = refreshing
      /\ clicks < MaxClicks /\ clicks' = clicks + 1
      /\ UNCHANGED <<workspaceVars, runVars, detail, shown, failures>>
  BY DEF ClickQuery, Ask
<1> HIDE DEF s, ask
<1>6. /\ tasks' \in [Slots -> Task] /\ tasks'[s] = ask
      /\ \A u \in Slots \ {s} : tasks'[u] = tasks[u]
      /\ RefreshInv' /\ TaskInv'
  BY <1>1, <1>4, <1>5, IdleFacts, AskFacts
<1>7. clicks' \in 0 .. MaxClicks
  BY <1>5, ClientAssumption DEF IInv, TypeOK
<1>8. TypeOK'
  BY <1>3, <1>4, <1>5, <1>6, <1>7, NothingShown DEF IInv, TypeOK, workspaceVars, runVars
<1>9. QueryComing'
  BY <1>1, <1>4, <1>5, <1>6 DEF QueryComing, runVars
<1>10. RunComing \/ RunRight => RunComing' \/ RunRight'
  <2>1. \A u \in Slots : tasks[u].kind = "run" => tasks'[u] = tasks[u]
    BY <1>1, <1>6, IdleFacts
  <2>2. QED
    BY <1>5, <2>1 DEF RunComing, RunRight, runVars
<1>11. ScreenInv'
  BY <1>3, <1>5, <1>9, <1>10, NothingShown DEF IInv, ScreenInv, runVars
<1>12. QED
  BY <1>6, <1>8, <1>11 DEF IInv

LEMMA ClickTabInv ==
  ASSUME IInv, ClickTab PROVE IInv'
<1>1. /\ shown' = detail
      /\ UNCHANGED <<workspaceVars, runVars, selectedQuery, detail, refreshing, tasks, clicks,
                     failures>>
  BY DEF ClickTab
<1>2. TypeOK'
  BY <1>1 DEF IInv, TypeOK, workspaceVars, runVars
<1>3. TaskInv' /\ RefreshInv'
  BY <1>1 DEF IInv, TaskInv, RefreshInv
<1>4. ScreenInv'
  BY <1>1 DEF IInv, ScreenInv, RunComing, QueryComing, RunRight, QueryRight, runVars
<1>5. QED
  BY <1>2, <1>3, <1>4 DEF IInv

LEMMA NextInv == IInv /\ UnreadInv /\ [Next]_vars => IInv'
<1> SUFFICES ASSUME IInv, UnreadInv, [Next]_vars PROVE IInv'
  OBVIOUS
<1>1. CASE Pipeline \/ refresh \/ ClickTab
  BY <1>1, FilesInv, RefreshInvKept, ClickTabInv
<1>2. ASSUME NEW s \in Slots, Serve(s) PROVE IInv'
  BY <1>2, ServeInv
<1>3. ASSUME NEW s \in Slots, Resume(s) PROVE IInv'
  <2>1. Answered(tasks[s]) => tasks[s].stage = "served" \/ failures # 0
    BY DEF Answered, UnreadInv
  <2>2. CASE loadRun(s) \/ loadQuery(s)
    BY <2>1, <2>2, LoadRunInv, LoadQueryInv DEF loadRun, loadQuery
  <2>3. CASE loadRuns(s) \/ Dropped(s) \/ Throws(s) \/ Unreadable(s)
    BY <2>3, LoadRunsInv, DroppedInv, ThrowsInv, UnreadableInv
  <2>4. QED
    BY <1>3, <2>2, <2>3 DEF Resume
<1>4. ASSUME NEW r \in RunIds, ClickRun(r) PROVE IInv'
  BY <1>4, ClickRunInv
<1>5. ASSUME NEW n \in Names, ClickQuery(n) PROVE IInv'
  BY <1>5, ClickQueryInv
<1>6. CASE UNCHANGED vars
  <2>1. TypeOK' /\ TaskInv'
    BY <1>6 DEF IInv, TypeOK, TaskInv, vars, workspaceVars, clientVars, runVars, queryVars
  <2>2. RefreshInv' /\ ScreenInv'
    BY <1>6 DEF IInv, RefreshInv, ScreenInv, RunComing, QueryComing, RunRight, QueryRight,
       vars, workspaceVars, clientVars, runVars, queryVars
  <2>3. QED
    BY <2>1, <2>2 DEF IInv
<1>7. QED
  BY <1>1, <1>2, <1>3, <1>4, <1>5, <1>6 DEF Next

(* No other step makes an answer unreadable, and failures stay counted.    *)
LEMMA OneTask ==
  ASSUME IInv, UnreadInv, NEW s, NEW t, t.stage # "unread",
         tasks' = [tasks EXCEPT ![s] = t], failures # 0 => failures' # 0
  PROVE  UnreadInv'
<1>1. \A u \in Slots : tasks'[u] = tasks[u] \/ tasks'[u] = t
  BY DEF IInv, TypeOK
<1>2. QED
  BY <1>1 DEF UnreadInv

LEMMA UnreadStep == IInv /\ UnreadInv /\ [Next]_vars => UnreadInv'
<1> SUFFICES ASSUME IInv, UnreadInv, [Next]_vars PROVE UnreadInv'
  OBVIOUS
<1>0. /\ Idle.stage # "unread"
      /\ \A k, r, n, f, p : Asking(k, r, n, f, p).stage # "unread"
  BY DEF Idle, Asking
<1>1. CASE Pipeline \/ ClickTab \/ UNCHANGED vars
  <2>1. UNCHANGED <<tasks, failures>>
    BY <1>1 DEF Pipeline, WriteArtifacts, WriteStatus, ArchiveArtifacts, ArchiveStatus,
       ClickTab, vars
  <2>2. QED
    BY <2>1 DEF UnreadInv
<1>2. CASE refresh
  <2> DEFINE q == Asking("runs", None, None, TRUE, TRUE)
  <2>1. /\ tasks' = [tasks EXCEPT ![Lowest(FreeSlots)] = q] /\ failures' = failures
        /\ q.stage # "unread"
    BY <1>0, <1>2 DEF refresh
  <2> HIDE DEF q
  <2>2. QED
    BY <2>1, OneTask
<1>3. ASSUME NEW s \in Slots, Serve(s) PROVE UnreadInv'
  <2>1. PICK stage, items, v, a : stage # "unread" /\ Reads(s, stage, items, v, a)
    BY <1>3 DEF Serve, list_runs, get_run, get_query
  <2>2. tasks[s] \in Task
    BY DEF IInv, TypeOK
  <2>3. tasks' = [tasks EXCEPT ![s] = [tasks[s] EXCEPT !.stage = stage, !.items = items,
                                                       !.status = v, !.artifacts = a]]
    BY <2>1, <2>2 DEF Reads, IInv, TypeOK, Task
  <2>4. PICK x : x = [tasks[s] EXCEPT !.stage = stage, !.items = items, !.status = v,
                                      !.artifacts = a]
    OBVIOUS
  <2>5. x.stage # "unread"
    BY <2>1, <2>2, <2>4 DEF Task
  <2>6. failures' = failures
    BY <2>1 DEF Reads
  <2>7. QED
    BY <2>3, <2>4, <2>5, <2>6, OneTask
<1>4. ASSUME NEW s \in Slots, loadRuns(s) \/ loadRun(s) \/ loadQuery(s) \/ Dropped(s)
      PROVE  UnreadInv'
  <2>1. failures' = failures
    BY <1>4 DEF loadRuns, loadRun, loadQuery, Dropped
  <2>2. Return(s) \/ \E k, r, n, f, p : Ask(s, Asking(k, r, n, f, p))
    <3>1. CASE loadRuns(s)
      BY <3>1 DEF loadRuns
    <3>2. CASE loadRun(s)
      BY <3>2 DEF loadRun
    <3>3. CASE loadQuery(s) \/ Dropped(s)
      BY <3>3 DEF loadQuery, Dropped
    <3>4. QED
      BY <1>4, <3>1, <3>2, <3>3
  <2>3. \E q : q.stage # "unread" /\ tasks' = [tasks EXCEPT ![s] = q]
    BY <1>0, <2>2 DEF Return, Ask
  <2>4. QED
    BY <2>1, <2>3, OneTask
<1>5. ASSUME NEW s \in Slots, Throws(s) PROVE UnreadInv'
  <2>1. failures' # 0
    BY <1>5, ThrowsCounts, ClientAssumption
  <2>2. QED
    BY <1>0, <1>5, <2>1, OneTask DEF Throws, Return
<1>6. ASSUME NEW s \in Slots, Unreadable(s) PROVE UnreadInv'
  BY <1>6, UnreadableInv DEF UnreadInv
<1>7. ASSUME NEW r \in RunIds, ClickRun(r) PROVE UnreadInv'
  <2>1. /\ \E q : q.stage # "unread" /\ tasks' = [tasks EXCEPT ![Lowest(FreeSlots)] = q]
        /\ failures' = failures
    BY <1>0, <1>7 DEF ClickRun, Ask
  <2>2. QED
    BY <2>1, OneTask
<1>8. ASSUME NEW n \in Names, ClickQuery(n) PROVE UnreadInv'
  <2>1. /\ \E q : q.stage # "unread" /\ tasks' = [tasks EXCEPT ![Lowest(FreeSlots)] = q]
        /\ failures' = failures
    BY <1>0, <1>8 DEF ClickQuery, Ask
  <2>2. QED
    BY <2>1, OneTask
<1>9. QED
  BY <1>1, <1>2, <1>3, <1>4, <1>5, <1>6, <1>7, <1>8 DEF Next, Resume

(* The inductive invariant holds at every step of the page, the server and *)
(* the pipeline.                                                           *)
THEOREM Invariance == Spec => [](IInv /\ UnreadInv)
<1>1. Init => UnreadInv
  BY DEF Init, UnreadInv, Idle
<1>2. QED
  BY InitInv, NextInv, UnreadStep, <1>1, PTL DEF Spec

(* Every variable has its type, and nothing is selected without a run.     *)
THEOREM TypeCorrect == Spec => []TypeOK
<1>1. IInv => TypeOK
  BY DEF IInv
<1>2. QED
  BY <1>1, Invariance, PTL

(* However requests end, the flag of the page stands for one chain of them *)
(* while it is set and for none when it is not.                            *)
THEOREM RefreshSound == Spec => []OneRefresh
<1>1. IInv => OneRefresh
  <2> SUFFICES ASSUME IInv PROVE OneRefresh
    OBVIOUS
  <2> DEFINE S == {s \in Slots : tasks[s].refresh}
  <2>1. CASE refreshing
    <3>1. PICK s \in Slots : tasks[s].refresh
      BY <2>1 DEF IInv, RefreshInv
    <3>2. S = {s}
      BY <3>1 DEF IInv, RefreshInv
    <3>3. Cardinality(S) = 1
      BY <3>2, FS_Singleton
    <3>4. QED
      BY <2>1, <3>3 DEF IInv, OneRefresh
  <2>2. CASE ~ refreshing
    <3>1. S = {}
      BY <2>2 DEF IInv, RefreshInv
    <3>2. Cardinality(S) = 0
      BY <3>1, FS_EmptySet
    <3>3. QED
      BY <2>2, <3>2 DEF IInv, OneRefresh
  <2>3. QED
    BY <2>1, <2>2
<1>2. QED
  BY <1>1, Invariance, PTL

(* Once every request has been answered, and none failed, title, run and   *)
(* detail are those of one selection, in whatever order the answers came.  *)
THEOREM ScreenSound == Spec => []ScreenAgrees
<1>1. IInv => ScreenAgrees
  <2> SUFFICES ASSUME IInv, \A s \in Slots : tasks[s] = Idle, failures = 0,
                      detail # NoDetail
               PROVE  /\ title = selectedRun /\ run.id = selectedRun
                      /\ detail.run = selectedRun /\ detail.name = selectedQuery
                      /\ shown = detail
    BY DEF ScreenAgrees
  <2>1. ~ RunComing /\ ~ QueryComing
    BY IdleFacts DEF RunComing, QueryComing
  <2>2. QED
    BY <2>1 DEF IInv, ScreenInv, RunRight, QueryRight
<1>2. QED
  BY <1>1, Invariance, PTL

(* A call of the refresh asks to keep the selection, also after a click,   *)
(* so what it changes is gone from the answer it has read.                 *)
LEMMA SelectionStep ==
  ASSUME IInv, [Next]_vars, NEW s \in Slots, tasks[s].refresh, tasks'[s] # tasks[s],
         tasks[s].stage # "unread"
  PROVE  Keeps(tasks[s])
<1>1. selectedRun \in RunIds \cup {None}
  BY DEF IInv, TypeOK
<1>2. ASSUME loadRuns(s) PROVE Keeps(tasks[s])
  BY <1>1, <1>2 DEF loadRuns, Forgotten, Keeps
<1>3. ASSUME loadRun(s) PROVE Keeps(tasks[s])
  <2>1. tasks[s].kind = "run" /\ tasks[s].preserve
    BY <1>3 DEF loadRun, IInv, TaskInv
  <2>2. QED
    BY <1>3, <2>1 DEF loadRun, Keeps
<1>4. CASE Pipeline \/ refresh \/ ClickTab \/ UNCHANGED vars
  <2>1. UNCHANGED <<selectedRun, selectedQuery>>
    BY <1>4 DEF Pipeline, WriteArtifacts, WriteStatus, ArchiveArtifacts, ArchiveStatus,
       refresh, ClickTab, vars, clientVars, runVars, queryVars
  <2>2. QED
    BY <2>1 DEF Keeps
<1>5. ASSUME NEW u \in Slots, Serve(u) PROVE Keeps(tasks[s])
  <2>1. UNCHANGED <<selectedRun, selectedQuery>>
    BY <1>5 DEF Serve, list_runs, get_run, get_query, Reads, clientVars, runVars, queryVars
  <2>2. QED
    BY <2>1 DEF Keeps
<1>6. ASSUME NEW u \in Slots, loadQuery(u) \/ Dropped(u) \/ Throws(u) \/ Unreadable(u)
      PROVE  Keeps(tasks[s])
  <2>1. UNCHANGED <<selectedRun, selectedQuery>>
    BY <1>6 DEF loadQuery, Dropped, Throws, Unreadable, clientVars, runVars, queryVars
  <2>2. QED
    BY <2>1 DEF Keeps
<1>7. ASSUME NEW u \in Slots, u # s, loadRuns(u) \/ loadRun(u) PROVE FALSE
  BY <1>7 DEF loadRuns, loadRun, Return, Ask, IInv, TypeOK
<1>8. ASSUME (\E r \in RunIds : ClickRun(r)) \/ (\E n \in Names : ClickQuery(n))
      PROVE  FALSE
  <2>1. FreeSlots # {}
    BY <1>8 DEF ClickRun, ClickQuery
  <2>2. Lowest(FreeSlots) # s
    BY <2>1, SlotFree, IdleFacts
  <2>3. \E t : tasks' = [tasks EXCEPT ![Lowest(FreeSlots)] = t]
    BY <1>8 DEF ClickRun, ClickQuery, Ask
  <2>4. QED
    BY <2>2, <2>3 DEF IInv, TypeOK
<1>9. QED
  BY <1>2, <1>3, <1>4, <1>5, <1>6, <1>7, <1>8 DEF Next, Resume

(* A refresh never takes the selection away from the user, whatever clicks *)
(* and answers come between its requests, unless an answer broke off.      *)
THEOREM SelectionSound == Spec => SelectionKept
<1>1. IInv /\ [Next]_vars =>
        [\A s \in Slots :
           tasks[s].refresh /\ tasks'[s] # tasks[s] /\ tasks[s].stage # "unread" =>
             Keeps(tasks[s])]_vars
  BY SelectionStep
<1>2. QED
  BY <1>1, Invariance, PTL DEF Spec, SelectionKept
=============================================================================
