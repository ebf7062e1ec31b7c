--------------------------- MODULE ModelEndpoint ---------------------------
(***************************************************************************)
(* The one model endpoint of the machine and the runs that share it: the   *)
(* launchers (run_files.sh, _run_oracle_pipeline.sh), the workspace lock,  *)
(* PipelineManager._ensure_model_endpoint and the request loops, and the   *)
(* scripts that switch models (WithoutUI/start.sh, modelctl.sh,            *)
(* offline_proxy.sh).  The containers are on an internal network; the API  *)
(* port belongs to a proxy process that forwards to one of them.           *)
(*                                                                         *)
(* Abstractions.  A run is the sequence of models it wants, with CallsEach *)
(* requests to each; answers carry only the model that gave them.  Docker, *)
(* and servers that answer any request with the model they have loaded,    *)
(* are external.  Times are left out: a timeout may strike at any moment.  *)
(* What a killed start script was waiting for goes on, at any later time.  *)
(* A script's step between two docker commands is atomic.                  *)
(***************************************************************************)
EXTENDS Integers, Sequences, FiniteSets

CONSTANTS
  Runs,                  \* launcher processes
  Models,                \* model stacks
  Wanted,                \* per run: models its stages call, in order
  Workspace,             \* per run: its workspace
  CallsEach,             \* requests per stage
  Attempts,              \* API_ATTEMPTS of a request
  ClearsFirst,           \* runs whose launcher stops all models first
  HealthChecked,         \* models whose start.sh waits for health
  MaxFaults,             \* bound: docker commands that fail or outlive their
                         \*   script
  MaxCrashes             \* bound: containers that crash and restart

ASSUME EndpointAssumption ==
  /\ Wanted \in [Runs -> Seq(Models)] /\ \A r \in Runs : Wanted[r] # <<>>
  /\ CallsEach \in Nat \ {0} /\ Attempts \in Nat \ {0}
  /\ ClearsFirst \subseteq Runs /\ HealthChecked \subseteq Models
  /\ MaxFaults \in Nat /\ MaxCrashes \in Nat
  /\ Runs # {} /\ IsFiniteSet(Models)

NoModel == 0
NoRun   == 0
ASSUME NothingIsReal == NoModel \notin Models /\ NoRun \notin Runs

VARIABLES
  container,             \* per model: state of its container
  proxy,                 \* the process that owns the port: pid and target
  pidfile, lastpid,      \* contents of the PID file; last PID given out
  crashes,
  orphans,               \* commands that a killed start script left behind
  unruly,                \* models the last command on which went wrong
  stray,                 \* whether a command left behind started the proxy or
                         \*   wrote the PID file
  faults,                \* docker commands that went wrong so far
  locked,                \* per workspace: run that holds its lock
  stage,                 \* per run: where launcher and pipeline are
  pos, calls, attempt,   \* per run: position in Wanted, requests, attempts
  script, todo,          \* per run: step of the script it waits for; models
                         \*   the script has still to bring down
  answer                 \* per run: the last answer, and what was asked

faultVars == <<orphans, unruly, faults>>
portVars == <<proxy, pidfile, lastpid, stray>>
hostVars == <<container, portVars, crashes, faultVars>>
progressVars == <<pos, calls, attempt, answer>>
vars == <<hostVars, locked, stage, progressVars, script, todo>>

NoProxy == [pid |-> 0, target |-> NoModel]
Workspaces == {Workspace[r] : r \in Runs}
Want(r) == Wanted[r][pos[r]]

(* What GET /v1/models names: the model behind the proxy, once loaded.     *)
Endpoint == IF proxy.target # NoModel /\ container[proxy.target] = "ready"
            THEN proxy.target ELSE NoModel

EndpointReady_Fault(m) == Endpoint # NoModel     \* any model will do

EndpointReady(m) == Endpoint = m

Init ==
  /\ container \in [Models -> {"absent", "ready"}]      \* left by hand
  /\ Cardinality({m \in Models : container[m] # "absent"}) <= 1
  /\ \E m \in Models \cup {NoModel} :
       /\ m # NoModel => container[m] = "ready"
       /\ proxy = IF m = NoModel THEN NoProxy ELSE [pid |-> 1, target |-> m]
       /\ pidfile = proxy.pid \/ (m = NoModel /\ pidfile = 1)  \* or a stale file
  /\ lastpid = 1 /\ crashes = 0
  /\ orphans = {} /\ unruly = {} /\ faults = 0 /\ stray = FALSE
  /\ locked = [w \in Workspaces |-> NoRun]
  /\ stage = [r \in Runs |-> "launch"]
  /\ pos = [r \in Runs |-> 1] /\ calls = [r \in Runs |-> 0]
  /\ attempt = [r \in Runs |-> 0]
  /\ script = [r \in Runs |-> "none"] /\ todo = [r \in Runs |-> {}]
  /\ answer = [r \in Runs |-> [wanted |-> NoModel, by |-> NoModel, stray |-> FALSE]]

-----------------------------------------------------------------------------
(* The scripts.  A run starts one and waits for it: "clear" and "shutdown" *)
(* are modelctl.sh stop, "starting" is start.sh for the wanted model.      *)
Running(r, s, step) == stage[r] \in s /\ script[r] = step

Goto(r, s) ==
  /\ stage' = [stage EXCEPT ![r] = s]
  /\ script' = [script EXCEPT ![r] = IF s \in {"clear", "starting", "shutdown"}
                                     THEN "stop_proxy" ELSE "none"]

(* offline_proxy.sh, stop_proxy_file: the process named in the PID file is *)
(* killed, and the file removed.                                           *)
KillNamed == IF proxy.pid = pidfile THEN NoProxy ELSE proxy

StopNamed ==
  /\ proxy' = KillNamed /\ pidfile' = 0
  /\ stray' = (stray /\ KillNamed # NoProxy)
  /\ UNCHANGED lastpid

StopProxy_Fault(r) ==                   \* starts without stopping the others
  /\ Running(r, {"clear", "starting", "shutdown"}, "stop_proxy")
  /\ StopNamed
  /\ script' = [script EXCEPT ![r] = "down"]
  /\ todo' = [todo EXCEPT ![r] = IF stage[r] = "starting" THEN {} ELSE Models]
  /\ UNCHANGED <<container, crashes, faultVars, locked, stage, progressVars>>

StopProxy(r) ==
  /\ Running(r, {"clear", "starting", "shutdown"}, "stop_proxy")
  /\ StopNamed
  /\ script' = [script EXCEPT ![r] = "down"]
  /\ todo' = [todo EXCEPT ![r] = Models]
  /\ UNCHANGED <<container, crashes, faultVars, locked, stage, progressVars>>

(* docker compose down, stack by stack; its errors are ignored.            *)
Down(r) ==
  /\ Running(r, {"clear", "starting", "shutdown"}, "down")
  /\ \E m \in todo[r] :
       /\ todo' = [todo EXCEPT ![r] = @ \ {m}]
       /\ \/ /\ container' = [container EXCEPT ![m] = "absent"]
             /\ unruly' = unruly \ {m}
             /\ UNCHANGED faults
          \/ /\ container[m] # "absent" /\ faults < MaxFaults
             /\ unruly' = unruly \cup {m} /\ faults' = faults + 1
             /\ UNCHANGED container
  /\ UNCHANGED <<portVars, crashes, orphans, locked, stage, progressVars, script>>

DownDone(r) ==
  /\ script[r] = "down" /\ todo[r] = {}
  /\ IF stage[r] = "starting" THEN script' = [script EXCEPT ![r] = "up"] /\ UNCHANGED stage
     ELSE Goto(r, IF stage[r] = "clear" THEN "lock" ELSE "exited")
  /\ UNCHANGED <<hostVars, locked, progressVars, todo>>

Up(r) ==
  /\ Running(r, {"starting"}, "up")
  /\ container' = [container EXCEPT ![Want(r)] = IF @ = "absent" THEN "loading" ELSE @]
  /\ script' = [script EXCEPT ![r] = IF Want(r) \in HealthChecked THEN "health" ELSE "proxy"]
  /\ UNCHANGED <<portVars, crashes, faultVars, locked, stage, progressVars, todo>>

Healthy(r) ==
  /\ Running(r, {"starting"}, "health") /\ container[Want(r)] = "ready"
  /\ script' = [script EXCEPT ![r] = "proxy"]
  /\ UNCHANGED <<hostVars, locked, stage, progressVars, todo>>

(* offline_proxy.sh start: the old proxy is stopped by PID file, then      *)
(* docker is asked for the container; the new proxy finds the port free or *)
(* dies, and the file names it in both cases.  Then it only matters that   *)
(* something accepts a connection on the port.                             *)
FreePort(r) ==
  /\ Running(r, {"starting"}, "proxy")
  /\ StopNamed
  /\ script' = [script EXCEPT ![r] = "listen"]
  /\ UNCHANGED <<container, crashes, faultVars, locked, stage, progressVars, todo>>

Listen_Fault(m) ==                      \* the file names the proxy before it
  /\ container[m] # "absent"
  /\ lastpid' = lastpid + 1 /\ pidfile' = lastpid
  /\ proxy' = IF proxy = NoProxy THEN [pid |-> lastpid', target |-> m] ELSE proxy

Listen(m) ==
  /\ container[m] # "absent"
  /\ lastpid' = lastpid + 1 /\ pidfile' = lastpid'
  /\ proxy' = IF proxy = NoProxy THEN [pid |-> lastpid', target |-> m] ELSE proxy

StartProxy(r) ==
  /\ Running(r, {"starting"}, "listen")
  /\ Listen(Want(r)) /\ Goto(r, "poll")
  /\ UNCHANGED <<container, stray, crashes, faultVars, locked, progressVars, todo>>

(* An image missing, up failing, no container to inspect: the pipeline     *)
(* raises and the launcher's EXIT trap runs.                               *)
Release(r) == locked' = [w \in Workspaces |-> IF locked[w] = r THEN NoRun ELSE locked[w]]

StartFails(r) ==
  /\ stage[r] = "starting"
  /\ Goto(r, "shutdown") /\ Release(r)
  /\ UNCHANGED <<hostVars, progressVars, todo>>

(* At the launch timeout subprocess.run kills the shell and not the        *)
(* command that it waits for: modelctl.sh stop with the stacks it has left,*)
(* docker compose up, offline_proxy.sh start.                              *)
Command(r, step, m) == [of |-> r, step |-> step, model |-> m]

LeftBehind(r) ==
  CASE script[r] = "stop_proxy" ->
         {Command(r, "stop_proxy", NoModel)} \cup {Command(r, "down", m) : m \in Models}
    [] script[r] = "down"   -> {Command(r, "down", m) : m \in todo[r]}
    [] script[r] = "health" -> {}
    [] OTHER                -> {Command(r, script[r], Want(r))}

LaunchTimesOut(r) ==
  /\ stage[r] = "starting" /\ faults < MaxFaults
  /\ orphans' = orphans \cup LeftBehind(r) /\ faults' = faults + 1
  /\ Goto(r, "shutdown") /\ Release(r)
  /\ UNCHANGED <<container, portVars, crashes, unruly, progressVars, todo>>

(* What is left behind does as the script would have waited for.           *)
OrphanStop(c) ==
  /\ c.step \in {"stop_proxy", "proxy"} /\ StopNamed
  /\ orphans' = (orphans \ {c}) \cup
                  IF c.step = "proxy" THEN {Command(c.of, "listen", c.model)} ELSE {}
  /\ UNCHANGED <<container, crashes, unruly, faults>>

OrphanDown(c) ==
  /\ c.step = "down" /\ Command(c.of, "stop_proxy", NoModel) \notin orphans
  /\ orphans' = orphans \ {c}
  /\ container' = [container EXCEPT ![c.model] = "absent"]
  /\ unruly' = unruly \ {c.model}
  /\ UNCHANGED <<portVars, crashes, faults>>

OrphanUp(c) ==
  /\ c.step = "up"
  /\ orphans' = orphans \ {c}
  /\ unruly' = unruly \cup {c.model}
  /\ container' = [container EXCEPT ![c.model] = IF @ = "absent" THEN "loading" ELSE @]
  /\ UNCHANGED <<portVars, crashes, faults>>

OrphanListens(c) ==
  /\ c.step = "listen" /\ Listen(c.model) /\ stray' = TRUE
  /\ orphans' = orphans \ {c}
  /\ UNCHANGED <<container, crashes, unruly, faults>>

OrphanStep(c) ==
  /\ OrphanStop(c) \/ OrphanDown(c) \/ OrphanUp(c) \/ OrphanListens(c)
  /\ UNCHANGED <<locked, stage, progressVars, script, todo>>

-----------------------------------------------------------------------------
(* The launcher.                                                           *)
Launch(r) ==
  /\ stage[r] = "launch"
  /\ Goto(r, IF r \in ClearsFirst THEN "clear" ELSE "lock")
  /\ UNCHANGED <<hostVars, locked, progressVars, todo>>

(* PipelineManager.__init__: a run that finds the lock taken raises, and   *)
(* the EXIT trap of its launcher stops the models like any other exit.     *)
Lock(r) ==
  /\ stage[r] = "lock"
  /\ IF locked[Workspace[r]] = NoRun
     THEN Goto(r, "ensure") /\ locked' = [locked EXCEPT ![Workspace[r]] = r]
     ELSE Goto(r, "shutdown") /\ UNCHANGED locked
  /\ UNCHANGED <<hostVars, progressVars, todo>>

(* _ensure_model_endpoint with AUTO_MODEL_SWAP.                            *)
Ensure(r) ==
  /\ stage[r] = "ensure"
  /\ Goto(r, IF EndpointReady(Want(r)) THEN "call" ELSE "starting")
  /\ UNCHANGED <<hostVars, locked, progressVars, todo>>

PollReady(r) ==
  /\ stage[r] = "poll" /\ EndpointReady(Want(r))
  /\ Goto(r, "call")
  /\ UNCHANGED <<hostVars, locked, progressVars, todo>>

PollTimeout_Fault(r) ==                 \* exits past the EXIT trap
  /\ stage[r] = "poll" /\ ~ EndpointReady(Want(r))
  /\ Goto(r, "exited") /\ Release(r)
  /\ UNCHANGED <<hostVars, progressVars, todo>>

PollTimeout(r) ==
  /\ stage[r] = "poll" /\ ~ EndpointReady(Want(r))
  /\ Goto(r, "shutdown") /\ Release(r)
  /\ UNCHANGED <<hostVars, progressVars, todo>>

(* A request is answered, or fails and is repeated unless the error is not *)
(* a passing one.  A request that failed Attempts times, or for good,      *)
(* fails its job or counts as a rejection; the stage goes on with its next *)
(* request either way.                                                     *)
CallDone(r) ==
  /\ attempt' = [attempt EXCEPT ![r] = 0]
  /\ IF calls[r] + 1 < CallsEach
     THEN /\ calls' = [calls EXCEPT ![r] = @ + 1]
          /\ UNCHANGED <<pos, stage, script, locked>>
     ELSE /\ calls' = [calls EXCEPT ![r] = 0]
          /\ IF pos[r] < Len(Wanted[r])
             THEN /\ pos' = [pos EXCEPT ![r] = @ + 1]
                  /\ Goto(r, "ensure") /\ UNCHANGED locked
             ELSE UNCHANGED pos /\ Goto(r, "shutdown") /\ Release(r)

Answered(r) ==
  /\ stage[r] = "call" /\ Endpoint # NoModel
  /\ answer' = [answer EXCEPT ![r] = [wanted |-> Want(r), by |-> Endpoint, stray |-> stray]]
  /\ CallDone(r)
  /\ UNCHANGED <<hostVars, todo>>

CallFails_Fault(r) ==                   \* repeats without counting
  /\ stage[r] = "call" /\ attempt' = [attempt EXCEPT ![r] = 1]
  /\ UNCHANGED <<hostVars, locked, stage, pos, calls, script, answer, todo>>

CallFails(r) ==
  /\ stage[r] = "call"
  /\ \/ /\ attempt[r] + 1 < Attempts
        /\ attempt' = [attempt EXCEPT ![r] = @ + 1]
        /\ UNCHANGED <<locked, stage, pos, calls, script>>
     \/ CallDone(r)
  /\ UNCHANGED <<hostVars, answer, todo>>

-----------------------------------------------------------------------------
(* The host: a model finishes loading; a container dies and Docker starts  *)
(* it again.                                                               *)
Load(m) ==
  /\ container[m] = "loading"
  /\ container' = [container EXCEPT ![m] = "ready"]
  /\ UNCHANGED <<portVars, crashes, faultVars, locked, stage, progressVars, script, todo>>

Crash(m) ==
  /\ container[m] = "ready" /\ crashes < MaxCrashes
  /\ container' = [container EXCEPT ![m] = "loading"]
  /\ crashes' = crashes + 1
  /\ UNCHANGED <<portVars, faultVars, locked, stage, progressVars, script, todo>>

Stop == (\A r \in Runs : stage[r] = "exited") /\ UNCHANGED vars

RunStep(r) ==
  \/ Launch(r) \/ StopProxy(r) \/ Down(r) \/ DownDone(r) \/ Up(r) \/ Healthy(r)
  \/ FreePort(r) \/ StartProxy(r) \/ StartFails(r) \/ LaunchTimesOut(r)
  \/ Lock(r) \/ Ensure(r) \/ PollReady(r) \/ PollTimeout(r) \/ Answered(r) \/ CallFails(r)

Next ==
  \/ \E r \in Runs : RunStep(r)
  \/ \E m \in Models : Load(m) \/ Crash(m)
  \/ \E c \in orphans : OrphanStep(c)
  \/ Stop

Spec == Init /\ [][Next]_vars

(* Every run takes its next step or its timeout; a model that is left      *)
(* alone finishes loading.                                                 *)
FairSpec == Spec /\ \A r \in Runs : WF_vars(RunStep(r))

-----------------------------------------------------------------------------
(***************************************************************************)
(* Properties.                                                             *)
(***************************************************************************)
Stages == {"launch", "clear", "lock", "ensure", "starting", "poll", "call",
           "shutdown", "exited"}

ScriptSteps == {"none", "stop_proxy", "down", "up", "health", "proxy", "listen"}

Commands ==
  [of : Runs, step : {"down", "up", "proxy", "listen"}, model : Models]
    \cup {Command(r, "stop_proxy", NoModel) : r \in Runs}

TypeOK ==
  /\ container \in [Models -> {"absent", "loading", "ready"}]
  /\ proxy \in [pid : 0 .. lastpid, target : Models \cup {NoModel}]
  /\ lastpid \in Nat /\ pidfile \in 0 .. lastpid /\ crashes \in 0 .. MaxCrashes
  /\ orphans \subseteq Commands /\ unruly \subseteq Models /\ faults \in 0 .. MaxFaults
  /\ stray \in BOOLEAN
  /\ locked \in [Workspaces -> Runs \cup {NoRun}]
  /\ stage \in [Runs -> Stages]
  /\ pos \in [Runs -> Nat] /\ \A r \in Runs : pos[r] \in 1 .. Len(Wanted[r])
  /\ calls \in [Runs -> 0 .. CallsEach - 1]
  /\ attempt \in [Runs -> 0 .. Attempts - 1]
  /\ script \in [Runs -> ScriptSteps]
  /\ todo \in [Runs -> SUBSET Models]
  /\ answer \in [Runs -> [wanted : Models \cup {NoModel}, by : Models \cup {NoModel},
                      stray : BOOLEAN]]

(* A run is answered by the model it asked for, though nothing after the   *)
(* readiness check looks at it again: whatever was loaded before, however  *)
(* containers crash and reload, and if a refused run stops all models.     *)
(* Only a proxy that a killed start script left behind may answer for      *)
(* another model.                                                          *)
AnsweredByWanted == \A r \in Runs : answer[r].by = answer[r].wanted \/ answer[r].stray

(* CRITIC_WORKFLOW.txt:9, "Only one large model is loaded on the DGX Spark *)
(* at a time", and modelctl.sh:17, "Only one model stack is started at a   *)
(* time".  stop_all ignores a docker compose down that fails, and the      *)
(* launch timeout leaves docker compose up behind: such a command may add  *)
(* its own model to the loaded one, and no other, until the next stop that *)
(* works.                                                                  *)
OneModelLoaded ==
  Cardinality({m \in Models \ unruly : container[m] # "absent"}) <= 1

(* As long as no other run was launched, a start script that succeeded     *)
(* leaves a proxy to the model it started (its last message), and the PID  *)
(* file by which it can be stopped, whichever model a proxy served before, *)
(* and if the PID file it found named nobody.                              *)
ProxyServesStarted ==
  \A r \in Runs :
    stage[r] = "poll" /\ (\A q \in Runs \ {r} : stage[q] = "launch") =>
      proxy.target = Want(r) /\ pidfile = proxy.pid

(* CRITIC_WORKFLOW.txt:21, "All Llamacpp model containers stop for idle    *)
(* standby": after the last run has exited nothing is loaded and nothing   *)
(* listens, wherever the runs failed, with two exceptions: a model whose   *)
(* own last command went wrong, and what an offline_proxy.sh start that    *)
(* the launch timeout left behind has done to the port since the last stop *)
(* that freed it.                                                          *)
IdleAfterwards ==
  (\A r \in Runs : stage[r] = "exited") =>
    /\ \A m \in Models \ unruly : container[m] = "absent"
    /\ stray \/ (proxy = NoProxy /\ pidfile = 0)

(* Every launched run exits: a model that never loads, a crashing          *)
(* container or another run on the same machine cannot hold it for ever.   *)
EveryRunExits == \A r \in Runs : <>(stage[r] = "exited")
=============================================================================
