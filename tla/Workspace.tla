----------------------------- MODULE Workspace -----------------------------
(***************************************************************************)
(* The workspace directory and the processes that use it one after the     *)
(* other: PipelineManager.__init__ and its lock, _prepare_run_workspace,   *)
(* the artifacts each handler writes, _write_status, _write_summary.  A    *)
(* process may end at any point, by an exception or a signal; both leave   *)
(* the files as they are, and the kernel gives the lock back.              *)
(*                                                                         *)
(* Abstractions.  An item is a directory or one of the two files, its      *)
(* contents the runs whose writing is in it.  The archive is on the same   *)
(* file system, so that a move is one rename.  A file written by           *)
(* _atomic_write_text is the old one or the new one.                       *)
(***************************************************************************)
EXTENDS Naturals, Sequences, FiniteSets

CONSTANTS
  Runs,                  \* processes
  Directories,           \* active_directories, in order
  Input, Output,         \* tmp, and where move_success copies to
  Names                  \* names of archive directories

Files == {"status.json", "summary.json"}
Items == Directories \o <<"status.json", "summary.json">>
Item  == {Items[i] : i \in DOMAIN Items}
Dirs  == Item \ Files

ASSUME WorkspaceAssumption ==
  /\ Directories \in Seq(Dirs) /\ {Input, Output} \subseteq Dirs

NoRun  == 0
NoName == ""
ASSUME NothingIsReal == NoRun \notin Runs /\ NoName \notin Names

VARIABLES
  held,                  \* run that holds .autorun.lock
  active,                \* per item: runs with files in it
  archive,               \* per archive directory that exists: its items
  stage,                 \* per run: where it is
  pos, destination,      \* per run: the loop of _prepare_run_workspace
  torn                   \* runs whose results were being moved when the
                         \*   process that moved them ended

fileVars == <<active, archive>>
loopVars == <<pos, destination>>
vars == <<held, fileVars, stage, loopVars, torn>>

Nothing == [i \in Item |-> {}]

Init ==
  /\ held = NoRun
  /\ active = Nothing /\ archive = [n \in {} |-> Nothing]
  /\ stage = [r \in Runs |-> "launched"]
  /\ pos = [r \in Runs |-> 1] /\ destination = [r \in Runs |-> NoName]
  /\ torn = {}

Goto(r, s) == stage' = [stage EXCEPT ![r] = s]

-----------------------------------------------------------------------------
(* __init__: a process that finds the lock taken raises before it touches  *)
(* anything.                                                               *)
Lock(r) ==
  /\ stage[r] = "launched"
  /\ IF held = NoRun THEN held' = r /\ Goto(r, "prepare")
     ELSE Goto(r, "ended") /\ UNCHANGED held
  /\ UNCHANGED <<fileVars, loopVars, torn>>

(* main's finally block, or the end of the process.                        *)
Unlock(r) ==
  /\ Goto(r, "ended")
  /\ held' = IF held = r THEN NoRun ELSE held

-----------------------------------------------------------------------------
(* _prepare_run_workspace.                                                 *)
HasPrevious_Fault == active["status.json"] # {}       \* looks at one file

HasPrevious == \E i \in Item : active[i] # {}

Fresh_Fault(n) == TRUE                  \* mkdir(exist_ok=True)

Fresh(n) == n \notin DOMAIN archive

Prepare(r) ==
  /\ stage[r] = "prepare"
  /\ IF HasPrevious
     THEN \E n \in Names :
            /\ Fresh(n)
            /\ archive' = [m \in DOMAIN archive \cup {n} |->
                             IF m \in DOMAIN archive THEN archive[m] ELSE Nothing]
            /\ destination' = [destination EXCEPT ![r] = n]
            /\ Goto(r, "archive")
     ELSE Goto(r, "collect") /\ UNCHANGED <<archive, destination>>
  /\ UNCHANGED <<held, active, pos, torn>>

(* One shutil.move: a directory with something in it, a file that exists.  *)
(* A directory moves whole; a file replaces one of its name.               *)
Moved(i, n) ==
  IF i \in Files /\ active[i] # {} THEN active[i] ELSE archive[n][i] \cup active[i]

Left_Fault(i) == IF i = Output THEN active[i] ELSE {}  \* copied, not moved

Left(i) == {}

MoveItem(r) ==
  LET i == Items[pos[r]]
      n == destination[r]
  IN /\ stage[r] = "archive" /\ pos[r] <= Len(Items)
     /\ archive' = [archive EXCEPT ![n][i] = Moved(i, n)]
     /\ active' = [active EXCEPT ![i] = Left(i)]
     /\ pos' = [pos EXCEPT ![r] = @ + 1]
     /\ UNCHANGED <<held, stage, destination, torn>>

EndPrepare(r) ==
  /\ stage[r] = "archive" /\ pos[r] > Len(Items)
  /\ Goto(r, "collect")
  /\ UNCHANGED <<held, fileVars, loopVars, torn>>

-----------------------------------------------------------------------------
(* The run.  collect_sql writes the statements and then status.json; every *)
(* later handler writes artifacts and then status.json; move_success and   *)
(* move_failed copy the results, write summary.json and status.json last.  *)
WriteInto(r, i) == active' = [active EXCEPT ![i] = IF i \in Files THEN {r} ELSE @ \cup {r}]

Collect(r) ==
  /\ stage[r] = "collect"
  /\ WriteInto(r, Input) /\ Goto(r, "checkpoint")
  /\ UNCHANGED <<held, archive, loopVars, torn>>

Checkpoint(r) ==
  /\ stage[r] = "checkpoint"
  /\ WriteInto(r, "status.json") /\ Goto(r, "work")
  /\ UNCHANGED <<held, archive, loopVars, torn>>

Work(r) ==
  /\ stage[r] = "work"
  /\ \E d \in Dirs : r \notin active[d] /\ WriteInto(r, d)
  /\ Goto(r, "checkpoint")
  /\ UNCHANGED <<held, archive, loopVars, torn>>

Publish(r) ==
  /\ stage[r] = "work"
  /\ WriteInto(r, Output) /\ Goto(r, "summary")
  /\ UNCHANGED <<held, archive, loopVars, torn>>

Summarise(r) ==
  /\ stage[r] = "summary"
  /\ WriteInto(r, "summary.json") /\ Goto(r, "last")
  /\ UNCHANGED <<held, archive, loopVars, torn>>

Finish(r) ==
  /\ stage[r] = "last"
  /\ WriteInto(r, "status.json") /\ Unlock(r)
  /\ UNCHANGED <<archive, loopVars, torn>>

-----------------------------------------------------------------------------
(* An exception, among them an empty collection, a name that exists, a     *)
(* full disk; or the process is killed.                                    *)
Die(r) ==
  /\ stage[r] \notin {"launched", "ended"}
  /\ Unlock(r)
  /\ torn' = IF stage[r] = "archive" THEN torn \cup UNION {active[i] : i \in Item}
             ELSE torn
  /\ UNCHANGED <<fileVars, loopVars>>

Stop == (\A r \in Runs : stage[r] = "ended") /\ UNCHANGED vars

Step(r) ==
  \/ Lock(r) \/ Prepare(r) \/ MoveItem(r) \/ EndPrepare(r)
  \/ Collect(r) \/ Checkpoint(r) \/ Work(r) \/ Publish(r) \/ Summarise(r) \/ Finish(r)

Next == (\E r \in Runs : Step(r) \/ Die(r)) \/ Stop

Spec == Init /\ [][Next]_vars

-----------------------------------------------------------------------------
(***************************************************************************)
(* Properties.                                                             *)
(***************************************************************************)
Stages == {"launched", "prepare", "archive", "collect", "checkpoint", "work",
           "summary", "last", "ended"}

(* Type invariant; the lock is held by the one process that is at work.    *)
TypeOK ==
  /\ held \in Runs \cup {NoRun}
  /\ \A r \in Runs : held = r <=> stage[r] \notin {"launched", "ended"}
  /\ active \in [Item -> SUBSET Runs]
  /\ DOMAIN archive \subseteq Names
  /\ archive \in [DOMAIN archive -> [Item -> SUBSET Runs]]
  /\ stage \in [Runs -> Stages]
  /\ pos \in [Runs -> 1 .. Len(Items) + 1]
  /\ destination \in [Runs -> Names \cup {NoName}]
  /\ torn \subseteq Runs

(* README.md:296, "so stale critic files cannot be mistaken for the        *)
(* current run": whatever lies in the active workspace was written by one  *)
(* run, and once a run writes, by that run, wherever the runs before it    *)
(* ended, in the middle of archiving too.                                  *)
StaleNotMistaken ==
  /\ \A i, j \in Item : \A q \in active[i], r \in active[j] : q = r
  /\ \A r \in Runs : stage[r] \in {"checkpoint", "work", "summary", "last"} =>
       \A i \in Item : active[i] \subseteq {r}

(* An archive directory keeps the results of one run, and all of them that *)
(* are in the archive, unless the process that was moving them ended       *)
(* before it was through: only then is a run spread over two directories.  *)
ArchivedWhole ==
  \A n \in DOMAIN archive :
    /\ \A i, j \in Item : \A q \in archive[n][i], r \in archive[n][j] : q = r
    /\ \A m \in DOMAIN archive \ {n} : \A i, j \in Item :
         archive[n][i] \cap archive[m][j] \subseteq torn

(* Nothing is lost, mixed or revived on the way from the workspace to the  *)
(* archive: see ResultSets.                                                *)
Place(r, i) ==
  IF r \in active[i] THEN "active"
  ELSE IF \E n \in DOMAIN archive : r \in archive[n][i] THEN "archived"
  ELSE "absent"

Promise == INSTANCE ResultSets
  WITH Pieces <- Item, place <- [r \in Runs |-> [i \in Item |-> Place(r, i)]]

KeptAsPromised == Promise!Spec

=============================================================================
