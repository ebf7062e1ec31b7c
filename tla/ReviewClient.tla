---------------------------- MODULE ReviewClient ----------------------------
(***************************************************************************)
(* The Review UI: the page (ReviewUI/static/app.js), whose functions give  *)
(* up control at every fetch, the server (ReviewUI/server.py), which reads *)
(* the workspace with one thread per request and no lock, and the pipeline *)
(* that goes on writing and archiving while both are at work.              *)
(*                                                                         *)
(* Abstractions.  A file is its version.  status.json also names the jobs; *)
(* the first job is the smallest.  The order of the run list, by time of   *)
(* modification, is left open.  Cards, tabs and badges are left out.       *)
(***************************************************************************)
EXTENDS Integers, FiniteSets

CONSTANTS
  Current, Archived,     \* ids of the active run and of one in the archive
  Names,                 \* job names, as numbers
  MaxTasks,              \* bound: requests in flight
  MaxVersion,            \* bound: how often artifacts are rewritten
  MaxClicks,             \* bound: clicks on runs and queries
  MaxFailures            \* bound: failed requests; counts refusals too

None == 0
RunIds == {Current, Archived}

ASSUME ClientAssumption ==
  /\ Current # Archived /\ None \notin RunIds
  /\ Names \subseteq Nat \ {None}
  /\ MaxTasks \in Nat \ {0}
  /\ MaxVersion \in Nat \ {0} /\ MaxClicks \in Nat /\ MaxFailures \in Nat \ {0}

VARIABLES
  jobs, status, artifacts,   \* workspace: jobs in status.json, its version
                             \*   and that of the artifacts, 0 for none
  runs,                      \* state.runs
  selectedRun, run,          \* state.selectedRun, state.run
  selectedQuery, detail,     \* state.selectedQuery, state.detail
  refreshing,                \* state.refreshing
  title, shown,              \* screen: run in the title, detail section
  tasks,                     \* calls waiting for an answer
  clicks, failures           \* counted towards their bounds

workspaceVars == <<jobs, status, artifacts>>
runVars == <<runs, selectedRun, run, title>>
queryVars == <<selectedQuery, detail, shown>>
clientVars == <<runVars, queryVars, refreshing>>
vars == <<workspaceVars, clientVars, tasks, clicks, failures>>

NoRun == [id |-> None, jobs |-> {}, version |-> 0]
NoDetail == [run |-> None, name |-> None, status |-> 0, artifacts |-> 0]

(* A call suspended at its fetch: what was asked, whether the periodic     *)
(* refresh waits for it, preserveQuery, and the answer as far as read; at  *)
(* stage "unread" the answer is the {} fetchJson makes of a lost body.     *)
Idle == [stage |-> "idle", kind |-> "none", run |-> None, name |-> None,
         refresh |-> FALSE, preserve |-> FALSE, items |-> {}, status |-> 0,
         artifacts |-> 0]

Asking(kind, r, n, refresh, preserve) ==
  [Idle EXCEPT !.stage = "sent", !.kind = kind, !.run = r, !.name = n,
               !.refresh = refresh, !.preserve = preserve]

Slots == 1 .. MaxTasks
FreeSlots == {s \in Slots : tasks[s] = Idle}
Lowest(S) == CHOOSE x \in S : \A y \in S : x <= y

Init ==
  /\ jobs \in [RunIds -> SUBSET Names]
  /\ status \in [RunIds -> {0, 1}] /\ artifacts = status
  /\ \A r \in RunIds : status[r] = 0 => jobs[r] = {}
  /\ runs = {} /\ selectedRun = None /\ run = NoRun /\ title = None
  /\ selectedQuery = None /\ detail = NoDetail /\ shown = NoDetail
  /\ refreshing = FALSE
  /\ tasks = [s \in Slots |-> Idle]
  /\ clicks = 0 /\ failures = 0

-----------------------------------------------------------------------------
(* The pipeline: a handler writes its artifacts and then status.json; the  *)
(* next run moves the directories to the archive first, status.json last.  *)
Archiving == status[Archived] = 0 /\ artifacts[Archived] > 0

WriteArtifacts ==
  /\ artifacts[Current] < MaxVersion /\ ~ Archiving
  /\ artifacts' = [artifacts EXCEPT ![Current] = @ + 1]
  /\ UNCHANGED <<jobs, status, clientVars, tasks, clicks, failures>>

WriteStatus ==
  /\ status[Current] < artifacts[Current]
  /\ status' = [status EXCEPT ![Current] = artifacts[Current]]
  /\ \E S \in SUBSET Names :
       jobs[Current] \subseteq S /\ jobs' = [jobs EXCEPT ![Current] = S]
  /\ UNCHANGED <<artifacts, clientVars, tasks, clicks, failures>>

ArchiveArtifacts ==
  /\ status[Archived] = 0 /\ artifacts[Archived] = 0
  /\ status[Current] > 0 /\ artifacts[Current] > 0
  /\ artifacts' = [artifacts EXCEPT ![Archived] = artifacts[Current], ![Current] = 0]
  /\ UNCHANGED <<jobs, status, clientVars, tasks, clicks, failures>>

ArchiveStatus ==
  /\ Archiving
  /\ status' = [status EXCEPT ![Archived] = status[Current], ![Current] = 0]
  /\ jobs' = [jobs EXCEPT ![Archived] = jobs[Current], ![Current] = {}]
  /\ UNCHANGED <<artifacts, clientVars, tasks, clicks, failures>>

-----------------------------------------------------------------------------
(* The server.  list_runs and get_run depend on status.json; get_query     *)
(* reads it first and the artifacts of the job later, or refuses.          *)
Reads(s, stage, items, v, a) ==
  /\ tasks' = [tasks EXCEPT ![s].stage = stage, ![s].items = items,
                            ![s].status = v, ![s].artifacts = a]
  /\ UNCHANGED <<workspaceVars, clientVars, clicks, failures>>

list_runs(s) ==
  /\ tasks[s].stage = "sent" /\ tasks[s].kind = "runs"
  /\ Reads(s, "served", {r \in RunIds : status[r] # 0}, 0, 0)

get_run(s) ==
  LET r == tasks[s].run
  IN /\ tasks[s].stage = "sent" /\ tasks[s].kind = "run"
     /\ Reads(s, "served", jobs[r], status[r], 0)

get_query(s) ==
  LET t == tasks[s]
  IN /\ t.kind = "query"
     /\ \/ /\ t.stage = "sent"
           /\ Reads(s, IF t.name \in jobs[t.run] THEN "read" ELSE "refused",
                    {}, status[t.run], 0)
        \/ /\ t.stage = "read"
           /\ Reads(s, "served", {}, t.status, artifacts[t.run])

-----------------------------------------------------------------------------
(* The page.  A call goes on to its next request or returns, and then the  *)
(* refresh that waits for it is over, also after an error (finally).       *)
Return(s) ==
  /\ tasks' = [tasks EXCEPT ![s] = Idle]
  /\ refreshing' = (refreshing /\ ~ tasks[s].refresh)

Ask(s, request) ==
  /\ tasks' = [tasks EXCEPT ![s] = request]
  /\ UNCHANGED refreshing

MayRefresh_Fault == TRUE                \* a tick may overtake the last one

MayRefresh == ~ refreshing

(* refresh: the timer or the button.                                       *)
refresh ==
  /\ MayRefresh /\ FreeSlots # {}
  /\ refreshing' = TRUE
  /\ tasks' = [tasks EXCEPT ![Lowest(FreeSlots)] =
                 Asking("runs", None, None, TRUE, TRUE)]
  /\ UNCHANGED <<workspaceVars, runVars, queryVars, clicks, failures>>

(* fetchJson: an answer of status 200 whose body breaks off is no error,   *)
(* but an answer without runs, jobs or anything else.                      *)
Unreadable(s) ==
  /\ tasks[s].stage = "served" /\ failures < MaxFailures
  /\ failures' = failures + 1
  /\ tasks' = [tasks EXCEPT ![s].stage = "unread", ![s].items = {},
                            ![s].status = 0, ![s].artifacts = 0]
  /\ UNCHANGED <<workspaceVars, clientVars, clicks>>

Answered(t) == t.stage \in {"served", "unread"}

(* loadRuns after its fetch.                                               *)
Forgotten(kept) ==
  IF kept THEN UNCHANGED <<selectedQuery, detail>>
  ELSE selectedQuery' = None /\ detail' = NoDetail

Preserve_Fault(t) == FALSE              \* the default of loadRun

Preserve(t) == t.preserve

loadRuns(s) ==
  LET t == tasks[s]
      kept == selectedRun \in t.items
  IN /\ Answered(t) /\ t.kind = "runs"
     /\ runs' = t.items
     /\ IF kept THEN UNCHANGED selectedRun
        ELSE selectedRun' \in IF t.items = {} THEN {None} ELSE t.items
     /\ Forgotten(kept)
     /\ IF selectedRun' # None
        THEN /\ Ask(s, Asking("run", selectedRun', None, t.refresh, Preserve(t)))
             /\ UNCHANGED <<title, shown>>
        ELSE title' = None /\ shown' = NoDetail /\ Return(s)     \* renderEmpty
     /\ UNCHANGED <<workspaceVars, run, clicks, failures>>

(* loadRun after its fetch: an answer for a run that is no longer selected *)
(* is dropped.  renderRun leaves the detail section as it is.  The run {}  *)
(* has neither id nor label.                                               *)
RunWanted_Fault(t) == selectedRun # None    \* some run, if not this one

RunWanted(t) == t.run = selectedRun

QueryNeeded_Fault(q) == q # None /\ detail'.name # q    \* already loaded

QueryNeeded(q) == q # None

loadRun(s) ==
  LET t == tasks[s]
      kept == t.preserve /\ selectedQuery \in t.items
      label == IF t.stage = "unread" THEN None ELSE t.run
  IN /\ Answered(t) /\ t.kind = "run" /\ RunWanted(t)
     /\ run' = [id |-> label, jobs |-> t.items, version |-> t.status]
     /\ title' = label
     /\ IF kept THEN UNCHANGED <<selectedQuery, detail>>
        ELSE /\ selectedQuery' = IF t.items = {} THEN None ELSE Lowest(t.items)
             /\ detail' = NoDetail
     /\ IF QueryNeeded(selectedQuery')
        THEN Ask(s, Asking("query", selectedRun, selectedQuery', t.refresh, FALSE))
        ELSE Return(s)
     /\ UNCHANGED <<workspaceVars, runs, selectedRun, shown, clicks, failures>>

(* loadQuery after its fetch.  The detail {} has no name; renderDetail     *)
(* fails on it, if at all, once the section is open.                       *)
QueryWanted(t) == t.run = selectedRun /\ t.name = selectedQuery

loadQuery(s) ==
  LET t == tasks[s]
      label == IF t.stage = "unread" THEN None ELSE t.name
  IN /\ Answered(t) /\ t.kind = "query" /\ QueryWanted(t)
     /\ detail' = [run |-> t.run, name |-> label, status |-> t.status,
                   artifacts |-> t.artifacts]
     /\ shown' = detail'
     /\ Return(s)
     /\ UNCHANGED <<workspaceVars, runVars, selectedQuery, clicks, failures>>

Dropped(s) ==
  LET t == tasks[s]
  IN /\ Answered(t)
     /\ \/ t.kind = "run" /\ ~ RunWanted(t)
        \/ t.kind = "query" /\ ~ QueryWanted(t)
     /\ Return(s)
     /\ UNCHANGED <<workspaceVars, runVars, queryVars, clicks, failures>>

(* The server refused, or the connection failed before the answer began:   *)
(* fetchJson throws.                                                       *)
Throws(s) ==
  /\ \/ tasks[s].stage = "refused" /\ failures' = Lowest({failures + 1, MaxFailures})
     \/ tasks[s].stage \in {"sent", "read", "served"} /\ failures < MaxFailures
        /\ failures' = failures + 1
  /\ Return(s)
  /\ UNCHANGED <<workspaceVars, runVars, queryVars, clicks>>

ClickRun(r) ==
  /\ r \in runs /\ clicks < MaxClicks /\ FreeSlots # {}
  /\ selectedRun' = r
  /\ Ask(Lowest(FreeSlots), Asking("run", r, None, FALSE, FALSE))
  /\ clicks' = clicks + 1
  /\ UNCHANGED <<workspaceVars, runs, run, title, queryVars, failures>>

(* The rows of the query list are those of state.run.                      *)
ClickQuery(n) ==
  /\ title # None /\ n \in run.jobs /\ clicks < MaxClicks /\ FreeSlots # {}
  /\ selectedQuery' = n
  /\ Ask(Lowest(FreeSlots), Asking("query", selectedRun, n, FALSE, FALSE))
  /\ clicks' = clicks + 1
  /\ UNCHANGED <<workspaceVars, runVars, detail, shown, failures>>

(* A click on a tab renders the detail again, or hides the section.        *)
ClickTab ==
  /\ shown # NoDetail
  /\ shown' = detail
  /\ UNCHANGED <<workspaceVars, runVars, selectedQuery, detail, refreshing, tasks,
                 clicks, failures>>

Pipeline == WriteArtifacts \/ WriteStatus \/ ArchiveArtifacts \/ ArchiveStatus

Serve(s) == list_runs(s) \/ get_run(s) \/ get_query(s)

Resume(s) ==
  \/ loadRuns(s) \/ loadRun(s) \/ loadQuery(s) \/ Dropped(s)
  \/ Throws(s) \/ Unreadable(s)

Next ==
  \/ Pipeline \/ refresh \/ ClickTab
  \/ \E s \in Slots : Serve(s) \/ Resume(s)
  \/ \E r \in RunIds : ClickRun(r)
  \/ \E n \in Names : ClickQuery(n)

Spec == Init /\ [][Next]_vars

(* Every request is answered, every answer resumes its call, and the timer *)
(* goes on ticking.  Nobody has to click, and the pipeline may stop.       *)
FairSpec ==
  /\ Spec
  /\ WF_vars(refresh)
  /\ \A s \in Slots : WF_vars(Serve(s)) /\ WF_vars(Resume(s))

-----------------------------------------------------------------------------
(***************************************************************************)
(* Properties.                                                             *)
(***************************************************************************)
Versions == 0 .. MaxVersion
Task == [stage : {"idle", "sent", "read", "served", "unread", "refused"},
         kind : {"none", "runs", "run", "query"}, run : RunIds \cup {None},
         name : Names \cup {None}, refresh : BOOLEAN, preserve : BOOLEAN,
         items : SUBSET (Names \cup RunIds), status : Versions,
         artifacts : Versions]

(* Type invariant; no query is selected or asked for without a run.        *)
TypeOK ==
  /\ jobs \in [RunIds -> SUBSET Names]
  /\ status \in [RunIds -> Versions] /\ artifacts \in [RunIds -> Versions]
  /\ runs \subseteq RunIds
  /\ selectedRun \in RunIds \cup {None} /\ selectedQuery \in Names \cup {None}
  /\ selectedRun = None => selectedQuery = None
  /\ run \in [id : RunIds \cup {None}, jobs : SUBSET Names, version : Versions]
  /\ {detail, shown} \subseteq [run : RunIds \cup {None}, name : Names \cup {None},
                                status : Versions, artifacts : Versions]
  /\ refreshing \in BOOLEAN /\ title \in RunIds \cup {None}
  /\ tasks \in [Slots -> Task]
  /\ \A s \in Slots : tasks[s].kind \in {"run", "query"} => tasks[s].run # None
  /\ clicks \in 0 .. MaxClicks /\ failures \in 0 .. MaxFailures

(* The flag refreshing stands for exactly one chain of requests, whatever  *)
(* that chain meets: never two, which would undo each other's selection,   *)
(* and never none, which would stop the periodic refresh for good.  (The   *)
(* types are part of it: the flag is a Boolean, a task a record.)          *)
OneRefresh ==
  /\ TypeOK
  /\ Cardinality({s \in Slots : tasks[s].refresh}) = IF refreshing THEN 1 ELSE 0

(* When the page is at rest and no request failed or was refused since it  *)
(* was loaded, everything on the screen is about one selection, in         *)
(* whatever order clicks and answers came: the run in the title is the     *)
(* selected one, and the detail is that of the selected query of that run. *)
(* A run without jobs is the exception: renderRun does not hide the detail *)
(* of the run shown before.                                                *)
ScreenAgrees ==
  (\A s \in Slots : tasks[s] = Idle) /\ failures = 0 /\ detail # NoDetail =>
    /\ title = selectedRun /\ run.id = selectedRun
    /\ detail.run = selectedRun /\ detail.name = selectedQuery
    /\ shown = detail

(* A refresh never takes a selection away from the user, whatever clicks   *)
(* and answers come between its own requests: the selected run changes     *)
(* only when the list it has read lacks it, and the selected query only    *)
(* when its run is gone so or the jobs it has read lack it.  The exception *)
(* is an answer that broke off: fetchJson passes it on as {}, loadRuns and *)
(* loadRun take that for no runs or no jobs, and the selection is lost     *)
(* though run and query are still there.                                   *)
Keeps(t) ==
  /\ selectedRun' = selectedRun \/ selectedRun \in {None} \cup (RunIds \ t.items)
  /\ \/ selectedQuery' = selectedQuery \/ selectedQuery = None
     \/ t.kind = "runs" /\ selectedRun \notin t.items
     \/ t.kind = "run" /\ selectedQuery \notin t.items

SelectionKept ==
  [][\A s \in Slots :
       tasks[s].refresh /\ tasks'[s] # tasks[s] /\ tasks[s].stage # "unread" =>
         Keeps(tasks[s])]_vars

(* README.md:43 of ReviewUI, "the screen is refreshed every 5 seconds":    *)
(* once the workspace and the user are at rest the screen catches up with  *)
(* both and stays there, whatever requests failed before.                  *)
UpToDate ==
  /\ runs = {r \in RunIds : status[r] # 0}
  /\ title = selectedRun /\ (runs # {} => selectedRun \in runs)
  /\ selectedRun # None =>
       run = [id |-> selectedRun, jobs |-> jobs[selectedRun],
              version |-> status[selectedRun]]
  /\ selectedQuery # None =>
       /\ detail = [run |-> selectedRun, name |-> selectedQuery,
                    status |-> status[selectedRun],
                    artifacts |-> artifacts[selectedRun]]
       /\ shown = detail

ScreenFollows == <>[]UpToDate
=============================================================================
