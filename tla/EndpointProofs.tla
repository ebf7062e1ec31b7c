--------------------------- MODULE EndpointProofs ---------------------------
(* Proofs about ModelEndpoint, for any number of runs and models, any      *)
(* sequence of models a run wants, and any number of faults; and about     *)
(* StreamProxy, a connection through the endpoint's proxy, for buffers and *)
(* streams of any size.                                                    *)
EXTENDS ModelEndpoint, StreamProxy, FiniteSetTheorems, TLAPS

Scripts == {"clear", "starting", "shutdown"}
Holding == {"ensure", "starting", "poll", "call"}

(* What the lock is for: without it two runs load models at a time.        *)
OneWorkspace == \A q, r \in Runs : Workspace[q] = Workspace[r]

(* No two runs are past the lock, for a reason of one kind or the other.   *)
Launched == {r \in Runs : stage[r] # "launch"}

Exclusive == OneWorkspace \/ \A q, r \in Launched : q = r

Dirty(m) == container[m] # "absent" /\ m \notin unruly

ScriptInv ==
  \A r \in Runs :
    /\ script[r] # "none" <=> stage[r] \in Scripts
    /\ script[r] \in {"up", "health", "proxy", "listen"} => stage[r] = "starting"

(* Commands left behind are those of runs that will not go on.             *)
OrphanInv ==
  orphans # {} \/ stray => \E r \in Runs : stage[r] \in {"shutdown", "exited"}

(* The PID file names the process that owns the port, and a script that    *)
(* has read it finds the port free.                                        *)
PidInv ==
  Exclusive /\ ~ stray =>
    /\ proxy = NoProxy \/ (proxy.pid = pidfile /\ pidfile # 0)
    /\ \A r \in Runs : script[r] = "listen" => proxy = NoProxy

LockInv == \A r \in Runs : stage[r] \in Holding => locked[Workspace[r]] = r

(* Whatever is loaded, some run has still to bring down, and whatever      *)
(* listens, to kill.                                                       *)
WillStop(r, m) ==
  stage[r] # "exited" /\ ~ (stage[r] = "shutdown" /\ script[r] = "down" /\ m \notin todo[r])

WillKill(r) == stage[r] # "exited" /\ ~ (stage[r] = "shutdown" /\ script[r] = "down")

IdleInv ==
  /\ \A m \in Models : Dirty(m) => \E r \in Runs : WillStop(r, m)
  /\ pidfile # 0 /\ ~ stray => \E r \in Runs : WillKill(r)

(* A start script loads its model when all others are down.                *)
LoadedInv ==
  OneWorkspace =>
    /\ \A m, k \in Models : Dirty(m) /\ Dirty(k) => m = k
    /\ \A r \in Runs : stage[r] = "starting" /\ script[r] = "down" =>
         \A m \in Models \ todo[r] : ~ Dirty(m)
    /\ \A r \in Runs : stage[r] = "starting" /\ script[r] = "up" =>
         \A m \in Models : ~ Dirty(m)

(* A run that calls has its model behind the proxy, or nothing.            *)
CallInv ==
  OneWorkspace =>
    /\ \A r \in Runs : stage[r] = "call" /\ ~ stray => proxy.target \in {NoModel, Want(r)}
    /\ AnsweredByWanted

IInv ==
  /\ TypeOK /\ ScriptInv /\ OrphanInv /\ PidInv /\ LockInv
  /\ ProxyServesStarted /\ IdleInv /\ LoadedInv /\ CallInv

LEMMA AtMostOne ==
  ASSUME NEW S, IsFiniteSet(S)
  PROVE  Cardinality(S) <= 1 <=> \A x, y \in S : x = y
<1>1. ASSUME \A x, y \in S : x = y PROVE Cardinality(S) <= 1
  <2>1. CASE S = {}
    BY <2>1, FS_EmptySet
  <2>2. CASE S # {}
    <3>1. PICK x \in S : S = {x}
      BY <1>1, <2>2
    <3>2. QED
      BY <3>1, FS_Singleton
  <2>3. QED
    BY <2>1, <2>2
<1>2. ASSUME Cardinality(S) <= 1, NEW x \in S, NEW y \in S PROVE x = y
  <2>1. Cardinality(S) \in Nat /\ Cardinality(S) # 0
    BY FS_CardinalityType, FS_EmptySet
  <2>2. Cardinality(S) = 1
    BY <1>2, <2>1
  <2>3. QED
    BY <2>2, FS_Singleton
<1>3. QED
  BY <1>1, <1>2

LEMMA DirtySet ==
  IsFiniteSet({m \in Models \ unruly : container[m] # "absent"})
  BY EndpointAssumption, FS_Subset

LEMMA InitInv == Init => IInv
<1> SUFFICES ASSUME Init PROVE IInv
  OBVIOUS
<1>1. PICK m \in Models \cup {NoModel} :
        /\ m # NoModel => container[m] = "ready"
        /\ proxy = IF m = NoModel THEN NoProxy ELSE [pid |-> 1, target |-> m]
        /\ pidfile = proxy.pid \/ (m = NoModel /\ pidfile = 1)
  BY DEF Init
<1>2. /\ proxy = NoProxy \/ (proxy.pid = pidfile /\ pidfile # 0)
      /\ pidfile \in 0 .. 1 /\ proxy \in [pid : 0 .. 1, target : Models \cup {NoModel}]
  BY <1>1 DEF NoProxy
<1>3. TypeOK
  <2>1. \A r \in Runs : Len(Wanted[r]) \in Nat \ {0}
    BY EndpointAssumption
  <2>2. pos \in [Runs -> Nat] /\ \A r \in Runs : pos[r] \in 1 .. Len(Wanted[r])
    BY <2>1 DEF Init
  <2>3. calls \in [Runs -> 0 .. CallsEach - 1] /\ attempt \in [Runs -> 0 .. Attempts - 1]
    BY EndpointAssumption DEF Init
  <2>4. answer \in [Runs -> [wanted : Models \cup {NoModel}, by : Models \cup {NoModel},
                             stray : BOOLEAN]]
    BY DEF Init
  <2>5. script \in [Runs -> ScriptSteps] /\ stage \in [Runs -> Stages] /\ stray \in BOOLEAN
    BY DEF Init, ScriptSteps, Stages
  <2>6. orphans \subseteq Commands /\ unruly \subseteq Models /\ faults \in 0 .. MaxFaults
    BY EndpointAssumption DEF Init
  <2>7. /\ lastpid \in Nat /\ pidfile \in 0 .. lastpid /\ crashes \in 0 .. MaxCrashes
        /\ proxy \in [pid : 0 .. lastpid, target : Models \cup {NoModel}]
    BY <1>2, EndpointAssumption DEF Init
  <2>8. container \in [Models -> {"absent", "loading", "ready"}]
    BY DEF Init
  <2>9. /\ locked \in [Workspaces -> Runs \cup {NoRun}]
        /\ todo \in [Runs -> SUBSET Models]
    BY DEF Init
  <2>10. QED
    BY <2>2, <2>3, <2>4, <2>5, <2>6, <2>7, <2>8, <2>9 DEF TypeOK
<1>4. ScriptInv /\ OrphanInv /\ PidInv /\ LockInv /\ ProxyServesStarted
  BY <1>2 DEF Init, ScriptInv, OrphanInv, PidInv, LockInv, ProxyServesStarted, Scripts, Holding
<1>5. IdleInv
  BY EndpointAssumption DEF Init, IdleInv, WillStop, WillKill
<1>6. LoadedInv
  <2>1. IsFiniteSet({k \in Models : container[k] # "absent"})
    BY EndpointAssumption, FS_Subset
  <2>2. \A x, y \in {k \in Models : container[k] # "absent"} : x = y
    BY <2>1, AtMostOne DEF Init
  <2>3. QED
    BY <2>2 DEF Init, LoadedInv, Dirty
<1>7. CallInv
  BY DEF Init, CallInv, AnsweredByWanted
<1>8. QED
  BY <1>2, <1>3, <1>4, <1>5, <1>6, <1>7 DEF IInv

-----------------------------------------------------------------------------
LEMMA WantFacts ==
  ASSUME TypeOK, NEW r \in Runs PROVE Want(r) \in Models
  BY EndpointAssumption DEF TypeOK, Want

(* One run at a time is between lock and release.                          *)
LEMMA OneHolder ==
  ASSUME IInv, Exclusive, NEW q \in Runs, NEW r \in Runs,
         stage[q] \in Holding, stage[r] \in Holding
  PROVE  q = r
<1>1. q \in Launched /\ r \in Launched
  BY DEF Launched, Holding
<1>2. QED
  BY <1>1 DEF IInv, LockInv, Exclusive, OneWorkspace

(* A step that launches no run but one that is launched already.           *)
LEMMA StaysExclusive ==
  ASSUME \A q \in Runs : stage[q] # "launch" => stage'[q] # "launch", Exclusive'
  PROVE  Exclusive
  BY DEF Exclusive, OneWorkspace, Launched

(* A step of one run that leaves containers, proxy and PID file alone.     *)
LEMMA ProgressInv ==
  ASSUME IInv, NEW r \in Runs, TypeOK',
         UNCHANGED <<container, proxy, pidfile, stray, unruly, todo>>,
         orphans' = orphans \/ stage'[r] \in {"shutdown", "exited"},
         \A q \in Runs \ {r} :
           /\ stage'[q] = stage[q] /\ script'[q] = script[q]
           /\ pos'[q] = pos[q] /\ answer'[q] = answer[q],
         \A q \in Runs \ {r} :
           locked[Workspace[q]] = q => locked'[Workspace[q]] = q,
         stage[r] # "exited", stage'[r] # "launch",
         stage'[r] \in Holding => locked'[Workspace[r]] = r,
         script'[r] # "none" <=> stage'[r] \in Scripts,
         script'[r] \in {"up", "health", "proxy", "listen"} => stage'[r] = "starting",
         stage'[r] # "poll", script'[r] \notin {"down", "listen"},
         stage'[r] = "exited" => stage[r] = "shutdown" /\ script[r] = "down" /\ todo[r] = {},
         script'[r] = "up" => stage[r] = "starting" /\ script[r] = "down" /\ todo[r] = {},
         stage'[r] = "call" =>
           \/ proxy.target = Want(r)'
           \/ stage[r] = "call" /\ pos'[r] = pos[r],
         stage[r] = "shutdown" => stage'[r] \in {"shutdown", "exited"},
         OneWorkspace => answer'[r].by = answer'[r].wanted \/ answer'[r].stray
  PROVE  IInv'
<1>1. \A m \in Models : Dirty(m)' = Dirty(m)
  BY DEF Dirty
<1>2. ScriptInv' /\ OrphanInv' /\ PidInv'
  <2>1. \A q \in Runs : stage[q] # "launch" => stage'[q] # "launch"
    OBVIOUS
  <2>2. Exclusive' => Exclusive
    BY <2>1, StaysExclusive
  <2>3. QED
    BY <2>2 DEF IInv, ScriptInv, OrphanInv, PidInv, NoProxy
<1>3. LockInv'
  BY DEF IInv, LockInv
<1>4. ProxyServesStarted'
  BY DEF IInv, ProxyServesStarted, Want
<1>5. IdleInv'
  <2>1. \A m \in Models, q \in Runs : Dirty(m) /\ WillStop(q, m) => WillStop(q, m)'
    BY DEF WillStop
  <2>2. \A q \in Runs : WillKill(q) => WillKill(q)'
    BY DEF WillKill
  <2>3. QED
    BY <1>1, <2>1, <2>2 DEF IInv, IdleInv
<1>6. LoadedInv'
  BY <1>1 DEF IInv, LoadedInv, OneWorkspace
<1>7. CallInv'
  BY DEF IInv, CallInv, OneWorkspace, AnsweredByWanted, Want
<1>8. QED
  BY <1>2, <1>3, <1>4, <1>5, <1>6, <1>7 DEF IInv

(* What Goto does to the run that takes it, and to no other.               *)
LEMMA GotoFacts ==
  ASSUME TypeOK, NEW r \in Runs, NEW s \in Stages, Goto(r, s)
  PROVE  /\ stage' \in [Runs -> Stages] /\ stage'[r] = s
         /\ script' \in [Runs -> ScriptSteps]
         /\ script'[r] \in {"none", "stop_proxy"}
         /\ script'[r] # "none" <=> s \in Scripts
         /\ \A q \in Runs \ {r} : stage'[q] = stage[q] /\ script'[q] = script[q]
  BY DEF TypeOK, ScriptSteps, Goto, Scripts

LEMMA ReleaseFacts ==
  ASSUME TypeOK, NEW r \in Runs, Release(r)
  PROVE  /\ locked' \in [Workspaces -> Runs \cup {NoRun}]
         /\ \A q \in Runs \ {r} :
              locked[Workspace[q]] = q => locked'[Workspace[q]] = q
  BY DEF TypeOK, Release, Workspaces

(* A step that goes to another stage, except to poll.                      *)
LEMMA GotoInv ==
  ASSUME IInv, NEW r \in Runs, NEW s \in Stages \ {"launch", "poll"}, Goto(r, s),
         UNCHANGED <<container, portVars, crashes, unruly, todo, calls, attempt, answer, pos>>,
         orphans' \subseteq Commands, faults' \in 0 .. MaxFaults,
         orphans' = orphans \/ s = "shutdown",
         locked' \in [Workspaces -> Runs \cup {NoRun}],
         \A q \in Runs \ {r} :
           locked[Workspace[q]] = q => locked'[Workspace[q]] = q,
         stage[r] # "exited", stage[r] = "shutdown" => s = "exited",
         s \in Holding => locked'[Workspace[r]] = r,
         s = "exited" => stage[r] = "shutdown" /\ script[r] = "down" /\ todo[r] = {},
         s = "call" => proxy.target = Want(r)
  PROVE  IInv'
<1>1. /\ stage' \in [Runs -> Stages] /\ stage'[r] = s
      /\ script' \in [Runs -> ScriptSteps]
      /\ script'[r] \in {"none", "stop_proxy"}
      /\ script'[r] # "none" <=> s \in Scripts
      /\ \A q \in Runs \ {r} : stage'[q] = stage[q] /\ script'[q] = script[q]
  BY GotoFacts DEF IInv
<1>2. TypeOK'
  BY <1>1 DEF IInv, TypeOK, portVars
<1>3. OneWorkspace => answer'[r].by = answer'[r].wanted \/ answer'[r].stray
  BY DEF IInv, CallInv, AnsweredByWanted
<1>4. Want(r)' = Want(r)
  BY DEF Want
<1>5. QED
  BY <1>1, <1>2, <1>3, <1>4, ProgressInv DEF portVars

LEMMA StageFacts == Holding \subseteq Stages /\ Scripts \subseteq Stages
  BY DEF Holding, Scripts, Stages

LEMMA LaunchInv == ASSUME IInv, NEW r \in Runs, Launch(r) PROVE IInv'
<1>1. PICK s \in {"clear", "lock"} : Goto(r, s)
  BY DEF Launch
<1>2. QED
  BY <1>1, GotoInv
     DEF Launch, hostVars, faultVars, progressVars, IInv, TypeOK, Stages, Holding

LEMMA LockingInv == ASSUME IInv, NEW r \in Runs, Lock(r) PROVE IInv'
<1>1. stage[r] = "lock" /\ UNCHANGED <<container, portVars, crashes, unruly, todo>>
      /\ UNCHANGED <<calls, attempt, answer, pos, orphans, faults>>
  BY DEF Lock, hostVars, faultVars, progressVars
<1>2. Workspace[r] \in Workspaces
  BY DEF Workspaces
<1>3. CASE locked[Workspace[r]] = NoRun
  <2>1. Goto(r, "ensure") /\ locked' = [locked EXCEPT ![Workspace[r]] = r]
    BY <1>3 DEF Lock
  <2>2. /\ locked' \in [Workspaces -> Runs \cup {NoRun}] /\ locked'[Workspace[r]] = r
        /\ \A w \in Workspaces : locked[w] # NoRun => locked'[w] = locked[w]
    BY <1>2, <1>3, <2>1 DEF IInv, TypeOK
  <2>3. \A q \in Runs \ {r} : locked[Workspace[q]] = q => locked'[Workspace[q]] = q
    BY <2>2, NothingIsReal DEF Workspaces
  <2>4. QED
    BY <1>1, <2>1, <2>2, <2>3, GotoInv DEF IInv, TypeOK, Stages
<1>4. CASE locked[Workspace[r]] # NoRun
  <2>1. Goto(r, "shutdown") /\ locked' = locked
    BY <1>4 DEF Lock
  <2>2. QED
    BY <1>1, <2>1, GotoInv DEF IInv, TypeOK, Stages, Holding
<1>5. QED
  BY <1>3, <1>4

LEMMA LeftBehindFacts ==
  ASSUME IInv, NEW r \in Runs, stage[r] = "starting"
  PROVE  LeftBehind(r) \subseteq Commands
<1>1. script[r] \in ScriptSteps \ {"none"} /\ todo[r] \subseteq Models /\ Want(r) \in Models
  BY WantFacts DEF IInv, TypeOK, ScriptInv, Scripts
<1>2. CASE script[r] = "stop_proxy"
  BY <1>2 DEF LeftBehind, Command, Commands
<1>3. CASE script[r] = "down"
  BY <1>1, <1>3 DEF LeftBehind, Command, Commands
<1>4. CASE script[r] = "health"
  BY <1>4 DEF LeftBehind
<1>5. CASE script[r] \in {"up", "proxy", "listen"}
  BY <1>1, <1>5 DEF LeftBehind, Command, Commands
<1>6. QED
  BY <1>1, <1>2, <1>3, <1>4, <1>5 DEF ScriptSteps

LEMMA FailuresInv ==
  ASSUME IInv, NEW r \in Runs, StartFails(r) \/ LaunchTimesOut(r) \/ PollTimeout(r)
  PROVE  IInv'
<1>1. /\ stage[r] \in {"starting", "poll"} /\ Goto(r, "shutdown") /\ Release(r)
      /\ UNCHANGED <<container, portVars, crashes, unruly, todo>>
      /\ UNCHANGED <<calls, attempt, answer, pos>>
      /\ orphans' \subseteq Commands /\ faults' \in 0 .. MaxFaults
  <2>1. CASE StartFails(r) \/ PollTimeout(r)
    BY <2>1 DEF StartFails, PollTimeout, hostVars, faultVars, progressVars, IInv, TypeOK
  <2>2. CASE LaunchTimesOut(r)
    <3>1. faults + 1 \in 0 .. MaxFaults
      BY <2>2, EndpointAssumption DEF LaunchTimesOut, IInv, TypeOK
    <3>2. LeftBehind(r) \subseteq Commands
      BY <2>2, LeftBehindFacts DEF LaunchTimesOut
    <3>3. QED
      BY <2>2, <3>1, <3>2 DEF LaunchTimesOut, progressVars, IInv, TypeOK
  <2>3. QED
    BY <2>1, <2>2
<1>2. /\ locked' \in [Workspaces -> Runs \cup {NoRun}]
      /\ \A q \in Runs \ {r} :
           locked[Workspace[q]] = q => locked'[Workspace[q]] = q
  BY <1>1, ReleaseFacts DEF IInv
<1>3. QED
  BY <1>1, <1>2, GotoInv DEF Stages, Holding

LEMMA ReadyInv == ASSUME IInv, NEW r \in Runs, Ensure(r) \/ PollReady(r) PROVE IInv'
<1>1. /\ stage[r] \in {"ensure", "poll"} /\ locked' = locked
      /\ \/ Goto(r, "call") /\ EndpointReady(Want(r))
         \/ Goto(r, "starting")
      /\ UNCHANGED <<container, portVars, crashes, unruly, todo>>
      /\ UNCHANGED <<calls, attempt, answer, pos, orphans, faults>>
  BY DEF Ensure, PollReady, hostVars, faultVars, progressVars
<1>2. locked[Workspace[r]] = r
  BY <1>1 DEF IInv, LockInv, Holding
<1>3. EndpointReady(Want(r)) => proxy.target = Want(r)
  BY WantFacts, NothingIsReal DEF EndpointReady, Endpoint, IInv
<1>4. QED
  BY <1>1, <1>2, <1>3, GotoInv DEF IInv, TypeOK, Stages

LEMMA DownDoneInv == ASSUME IInv, NEW r \in Runs, DownDone(r) PROVE IInv'
<1>1. /\ script[r] = "down" /\ todo[r] = {} /\ stage[r] \in Scripts
      /\ UNCHANGED <<container, portVars, crashes, unruly, todo, locked>>
      /\ UNCHANGED <<calls, attempt, answer, pos, orphans, faults>>
  BY DEF DownDone, hostVars, faultVars, progressVars, IInv, ScriptInv
<1>2. CASE stage[r] = "starting"
  <2>1. script' = [script EXCEPT ![r] = "up"] /\ stage' = stage
    BY <1>1, <1>2 DEF DownDone
  <2>2. TypeOK'
    BY <1>1, <2>1 DEF IInv, TypeOK, ScriptSteps, portVars
  <2>3. /\ script'[r] = "up" /\ \A q \in Runs \ {r} : script'[q] = script[q]
        /\ locked[Workspace[r]] = r
    BY <1>2, <2>1 DEF IInv, TypeOK, LockInv, Holding
  <2>4. OneWorkspace => answer'[r].by = answer'[r].wanted \/ answer'[r].stray
    BY <1>1 DEF IInv, CallInv, AnsweredByWanted
  <2>5. QED
    BY <1>1, <1>2, <2>1, <2>2, <2>3, <2>4, ProgressInv DEF portVars, Scripts
<1>3. CASE stage[r] # "starting"
  <2>1. PICK s \in {"lock", "exited"} : Goto(r, s) /\ (s = "exited" <=> stage[r] = "shutdown")
    BY <1>1, <1>3 DEF DownDone, Scripts
  <2>2. QED
    BY <1>1, <2>1, GotoInv DEF IInv, TypeOK, Stages, ScriptSteps, Holding, Scripts
<1>4. QED
  BY <1>2, <1>3

LEMMA HealthyInv == ASSUME IInv, NEW r \in Runs, Healthy(r) PROVE IInv'
<1>1. /\ stage[r] = "starting" /\ script' = [script EXCEPT ![r] = "proxy"]
      /\ UNCHANGED <<container, portVars, crashes, unruly, todo, locked, stage>>
      /\ UNCHANGED <<calls, attempt, answer, pos, orphans, faults>>
  BY DEF Healthy, Running, hostVars, faultVars, progressVars
<1>2. TypeOK'
  BY <1>1 DEF IInv, TypeOK, ScriptSteps, portVars
<1>3. /\ script'[r] = "proxy" /\ \A q \in Runs \ {r} : script'[q] = script[q]
      /\ locked[Workspace[r]] = r
  BY <1>1 DEF IInv, TypeOK, LockInv, Holding
<1>4. OneWorkspace => answer'[r].by = answer'[r].wanted \/ answer'[r].stray
  BY <1>1 DEF IInv, CallInv, AnsweredByWanted
<1>5. QED
  BY <1>1, <1>2, <1>3, <1>4, ProgressInv DEF portVars, Scripts

-----------------------------------------------------------------------------
(* Requests.                                                               *)
LEMMA CallDoneFacts ==
  ASSUME IInv, NEW r \in Runs, stage[r] = "call", CallDone(r)
  PROVE  /\ attempt' \in [Runs -> 0 .. Attempts - 1]
         /\ calls' \in [Runs -> 0 .. CallsEach - 1]
         /\ pos' \in [Runs -> Nat] /\ \A q \in Runs : pos'[q] \in 1 .. Len(Wanted[q])
         /\ stage' \in [Runs -> Stages]
         /\ script' \in [Runs -> ScriptSteps]
         /\ locked' \in [Workspaces -> Runs \cup {NoRun}]
         /\ \A q \in Runs \ {r} :
              /\ stage'[q] = stage[q] /\ script'[q] = script[q] /\ pos'[q] = pos[q]
              /\ locked[Workspace[q]] = q => locked'[Workspace[q]] = q
         /\ script'[r] # "none" <=> stage'[r] \in Scripts
         /\ script'[r] \in {"none", "stop_proxy"}
         /\ \/ stage'[r] = "call" /\ pos'[r] = pos[r] /\ locked' = locked
            \/ stage'[r] = "ensure" /\ locked' = locked
            \/ stage'[r] = "shutdown"
<1>1. attempt' \in [Runs -> 0 .. Attempts - 1]
  <2>1. 0 \in 0 .. Attempts - 1
    BY EndpointAssumption
  <2>2. QED
    BY <2>1 DEF CallDone, IInv, TypeOK
<1>2. script[r] = "none"
  BY DEF IInv, TypeOK, ScriptInv, Scripts
<1>3. CASE calls[r] + 1 < CallsEach
  <2>1. /\ calls' = [calls EXCEPT ![r] = calls[r] + 1]
        /\ UNCHANGED <<pos, stage, script, locked>>
    BY <1>3 DEF CallDone
  <2>2. calls[r] + 1 \in 0 .. CallsEach - 1
    BY <1>3, EndpointAssumption DEF IInv, TypeOK
  <2>3. calls' \in [Runs -> 0 .. CallsEach - 1]
    BY <2>1, <2>2 DEF IInv, TypeOK
  <2>4. QED
    BY <1>1, <1>2, <2>1, <2>3 DEF IInv, TypeOK, Scripts
<1>4. CASE ~ (calls[r] + 1 < CallsEach)
  <2>1. calls' \in [Runs -> 0 .. CallsEach - 1]
    <3>1. 0 \in 0 .. CallsEach - 1
      BY EndpointAssumption
    <3>2. QED
      BY <1>4, <3>1 DEF CallDone, IInv, TypeOK
  <2>2. CASE pos[r] < Len(Wanted[r])
    <3>1. pos' = [pos EXCEPT ![r] = pos[r] + 1] /\ Goto(r, "ensure") /\ locked' = locked
      BY <1>4, <2>2 DEF CallDone
    <3>2. pos[r] + 1 \in 1 .. Len(Wanted[r]) /\ pos[r] + 1 \in Nat
      BY <2>2, EndpointAssumption DEF IInv, TypeOK
    <3>3. /\ pos' \in [Runs -> Nat] /\ \A q \in Runs : pos'[q] \in 1 .. Len(Wanted[q])
          /\ \A q \in Runs \ {r} : pos'[q] = pos[q]
      BY <3>1, <3>2 DEF IInv, TypeOK
    <3>4. /\ stage' \in [Runs -> Stages] /\ stage'[r] = "ensure"
          /\ script' \in [Runs -> ScriptSteps]
          /\ script'[r] \in {"none", "stop_proxy"}
          /\ script'[r] # "none" <=> "ensure" \in Scripts
          /\ \A q \in Runs \ {r} : stage'[q] = stage[q] /\ script'[q] = script[q]
      BY <3>1, GotoFacts DEF IInv, Stages
    <3>5. QED
      BY <1>1, <2>1, <3>1, <3>3, <3>4 DEF IInv, TypeOK
  <2>3. CASE ~ (pos[r] < Len(Wanted[r]))
    <3>1. pos' = pos /\ Goto(r, "shutdown") /\ Release(r)
      BY <1>4, <2>3 DEF CallDone
    <3>2. /\ locked' \in [Workspaces -> Runs \cup {NoRun}]
          /\ \A q \in Runs \ {r} : locked[Workspace[q]] = q => locked'[Workspace[q]] = q
      BY <3>1, ReleaseFacts DEF IInv
    <3>3. /\ stage' \in [Runs -> Stages] /\ stage'[r] = "shutdown"
          /\ script' \in [Runs -> ScriptSteps]
          /\ script'[r] \in {"none", "stop_proxy"}
          /\ script'[r] # "none" <=> "shutdown" \in Scripts
          /\ \A q \in Runs \ {r} : stage'[q] = stage[q] /\ script'[q] = script[q]
      BY <3>1, GotoFacts DEF IInv, Stages
    <3>4. QED
      BY <1>1, <2>1, <3>1, <3>2, <3>3 DEF IInv, TypeOK
  <2>4. QED
    BY <2>2, <2>3
<1>5. QED
  BY <1>3, <1>4

LEMMA CallingInv ==
  ASSUME IInv, NEW r \in Runs, Answered(r) \/ CallFails(r) PROVE IInv'
<1>1. /\ stage[r] = "call" /\ locked[Workspace[r]] = r /\ script[r] = "none"
      /\ UNCHANGED <<container, portVars, crashes, unruly, orphans, faults, todo>>
  BY DEF Answered, CallFails, hostVars, faultVars, IInv, LockInv, Holding, TypeOK,
         ScriptInv, Scripts
<1>2. /\ answer' \in [Runs -> [wanted : Models \cup {NoModel}, by : Models \cup {NoModel},
                            stray : BOOLEAN]]
      /\ \A q \in Runs \ {r} : answer'[q] = answer[q]
      /\ OneWorkspace => answer'[r].by = answer'[r].wanted \/ answer'[r].stray
  <2>1. CASE answer' = answer
    BY <2>1 DEF IInv, TypeOK, CallInv, AnsweredByWanted
  <2>2. CASE Answered(r)
    <3>1. /\ Endpoint \in Models /\ Want(r) \in Models
          /\ answer' = [answer EXCEPT ![r] = [wanted |-> Want(r), by |-> Endpoint,
                                              stray |-> stray]]
      BY <2>2, WantFacts DEF Answered, Endpoint, IInv, TypeOK
    <3>2. OneWorkspace => Endpoint = Want(r) \/ stray
      BY <1>1, <2>2 DEF Answered, Endpoint, IInv, CallInv
    <3>3. QED
      BY <3>1, <3>2 DEF IInv, TypeOK
  <2>3. QED
    BY <2>1, <2>2 DEF CallFails
<1>3. CASE CallDone(r)
  <2>1. /\ attempt' \in [Runs -> 0 .. Attempts - 1]
        /\ calls' \in [Runs -> 0 .. CallsEach - 1]
        /\ pos' \in [Runs -> Nat] /\ \A q \in Runs : pos'[q] \in 1 .. Len(Wanted[q])
        /\ stage' \in [Runs -> Stages]
        /\ script' \in [Runs -> ScriptSteps]
        /\ locked' \in [Workspaces -> Runs \cup {NoRun}]
        /\ \A q \in Runs \ {r} :
             /\ stage'[q] = stage[q] /\ script'[q] = script[q] /\ pos'[q] = pos[q]
             /\ locked[Workspace[q]] = q => locked'[Workspace[q]] = q
        /\ script'[r] # "none" <=> stage'[r] \in Scripts
        /\ script'[r] \in {"none", "stop_proxy"}
        /\ \/ stage'[r] = "call" /\ pos'[r] = pos[r] /\ locked' = locked
           \/ stage'[r] = "ensure" /\ locked' = locked
           \/ stage'[r] = "shutdown"
    BY <1>1, <1>3, CallDoneFacts
  <2>2. TypeOK'
    BY <1>1, <1>2, <2>1 DEF IInv, TypeOK, portVars
  <2>3. QED
    BY <1>1, <1>2, <2>1, <2>2, ProgressInv DEF portVars, Holding
<1>4. CASE /\ attempt[r] + 1 < Attempts
           /\ attempt' = [attempt EXCEPT ![r] = attempt[r] + 1]
           /\ UNCHANGED <<locked, stage, pos, calls, script>>
  <2>1. attempt[r] + 1 \in 0 .. Attempts - 1
    BY <1>4, EndpointAssumption DEF IInv, TypeOK
  <2>2. attempt' \in [Runs -> 0 .. Attempts - 1]
    BY <1>4, <2>1 DEF IInv, TypeOK
  <2>3. TypeOK'
    BY <1>1, <1>2, <1>4, <2>2 DEF IInv, TypeOK, portVars
  <2>4. QED
    BY <1>1, <1>2, <1>4, <2>3, ProgressInv DEF portVars, Scripts
<1>5. QED
  BY <1>3, <1>4 DEF Answered, CallFails

-----------------------------------------------------------------------------
(* Steps of the scripts, and of the host.                                  *)
(* What stopping the proxy by its PID file leaves of it.                   *)
LEMMA StopNamedFacts ==
  ASSUME IInv, StopNamed
  PROVE  /\ pidfile' = 0 /\ lastpid' = lastpid /\ stray' \in BOOLEAN
         /\ proxy' \in [pid : 0 .. lastpid, target : Models \cup {NoModel}]
         /\ stray' => stray
         /\ Exclusive /\ ~ stray' => proxy' = NoProxy
<1>1. /\ proxy' = KillNamed /\ pidfile' = 0 /\ lastpid' = lastpid
      /\ stray' = (stray /\ KillNamed # NoProxy)
  BY DEF StopNamed
<1>2. proxy' \in [pid : 0 .. lastpid, target : Models \cup {NoModel}]
  BY <1>1 DEF KillNamed, NoProxy, IInv, TypeOK
<1>3. Exclusive /\ ~ stray => KillNamed = NoProxy
  BY DEF KillNamed, IInv, PidInv
<1>4. QED
  BY <1>1, <1>2, <1>3 DEF IInv, TypeOK

LEMMA StopProxyInv ==
  ASSUME IInv, NEW r \in Runs, StopProxy(r) \/ FreePort(r) PROVE IInv'
<1>1. /\ stage[r] \in Scripts /\ StopNamed
      /\ \/ /\ script' = [script EXCEPT ![r] = "down"]
            /\ todo' = [todo EXCEPT ![r] = Models]
         \/ /\ stage[r] = "starting" /\ script[r] = "proxy"
            /\ script' = [script EXCEPT ![r] = "listen"] /\ todo' = todo
      /\ UNCHANGED <<container, crashes, orphans, unruly, faults, locked, stage>>
      /\ UNCHANGED <<pos, calls, attempt, answer>>
  BY DEF StopProxy, FreePort, Running, Scripts, faultVars, progressVars
<1>2. /\ \/ script'[r] = "down" /\ todo'[r] = Models
         \/ stage[r] = "starting" /\ script'[r] = "listen" /\ todo'[r] = todo[r]
      /\ \A q \in Runs \ {r} : script'[q] = script[q] /\ todo'[q] = todo[q]
  BY <1>1 DEF IInv, TypeOK
<1>3. /\ pidfile' = 0 /\ lastpid' = lastpid /\ stray' \in BOOLEAN
      /\ proxy' \in [pid : 0 .. lastpid, target : Models \cup {NoModel}]
      /\ stray' => stray
      /\ Exclusive /\ ~ stray' => proxy' = NoProxy
  BY <1>1, StopNamedFacts
<1>4. TypeOK'
  <2>1. /\ script \in [Runs -> ScriptSteps] /\ todo \in [Runs -> SUBSET Models]
        /\ "down" \in ScriptSteps /\ "listen" \in ScriptSteps
    BY DEF IInv, TypeOK, ScriptSteps
  <2>2. script' \in [Runs -> ScriptSteps] /\ todo' \in [Runs -> SUBSET Models]
    BY <1>1, <2>1
  <2>3. QED
    BY <1>1, <1>3, <2>2 DEF IInv, TypeOK
<1>5. ScriptInv' /\ OrphanInv' /\ LockInv'
  BY <1>1, <1>2, <1>3 DEF IInv, ScriptInv, OrphanInv, LockInv, Scripts
<1>6. PidInv'
  BY <1>1, <1>3 DEF PidInv, Exclusive, OneWorkspace, Launched
<1>7. ProxyServesStarted'
  BY <1>1 DEF IInv, ProxyServesStarted, Want, Scripts
<1>8. \A m \in Models : Dirty(m)' = Dirty(m)
  BY <1>1 DEF Dirty
<1>9. IdleInv'
  <2>1. \A m \in Models, q \in Runs : WillStop(q, m) => WillStop(q, m)'
    BY <1>1, <1>2 DEF WillStop
  <2>2. QED
    BY <1>1, <1>3, <1>8, <2>1 DEF IInv, IdleInv
<1>10. LoadedInv'
  BY <1>1, <1>2, <1>8 DEF IInv, LoadedInv, OneWorkspace
<1>11. CallInv'
  <2>1. OneWorkspace /\ ~ stray' => proxy'.target = NoModel
    BY <1>3 DEF Exclusive, NoProxy
  <2>2. QED
    BY <1>1, <2>1 DEF IInv, CallInv, OneWorkspace, AnsweredByWanted, Want
<1>12. QED
  BY <1>4, <1>5, <1>6, <1>7, <1>9, <1>10, <1>11 DEF IInv

LEMMA DownInv == ASSUME IInv, NEW r \in Runs, Down(r) PROVE IInv'
<1>1. PICK m \in todo[r] :
        /\ todo' = [todo EXCEPT ![r] = todo[r] \ {m}]
        /\ \/ /\ container' = [container EXCEPT ![m] = "absent"]
              /\ unruly' = unruly \ {m} /\ faults' = faults
           \/ /\ faults < MaxFaults /\ unruly' = unruly \cup {m}
              /\ faults' = faults + 1 /\ container' = container
  BY DEF Down
<1>2. /\ script[r] = "down" /\ m \in Models
      /\ UNCHANGED <<proxy, pidfile, lastpid, stray, crashes, orphans, locked, stage, script>>
      /\ UNCHANGED <<pos, calls, attempt, answer>>
  BY DEF Down, Running, portVars, progressVars, IInv, TypeOK
<1>3. /\ todo'[r] = todo[r] \ {m} /\ \A q \in Runs \ {r} : todo'[q] = todo[q]
      /\ todo' \in [Runs -> SUBSET Models]
  BY <1>1 DEF IInv, TypeOK
<1>4. /\ container' \in [Models -> {"absent", "loading", "ready"}]
      /\ ~ Dirty(m)' /\ \A k \in Models \ {m} : Dirty(k)' = Dirty(k)
  BY <1>1, <1>2 DEF IInv, TypeOK, Dirty
<1>5. faults' \in 0 .. MaxFaults /\ unruly' \subseteq Models
  BY <1>1, <1>2, EndpointAssumption DEF IInv, TypeOK
<1>6. TypeOK'
  BY <1>2, <1>3, <1>4, <1>5 DEF IInv, TypeOK
<1>7. ScriptInv' /\ OrphanInv' /\ PidInv' /\ LockInv'
  BY <1>2 DEF IInv, ScriptInv, OrphanInv, PidInv, Exclusive, OneWorkspace, Launched, LockInv,
              NoProxy
<1>8. ProxyServesStarted' /\ CallInv'
  BY <1>2 DEF IInv, ProxyServesStarted, CallInv, OneWorkspace, AnsweredByWanted, Want
<1>9. IdleInv'
  <2>1. \A k \in Models \ {m}, q \in Runs : WillStop(q, k) => WillStop(q, k)'
    BY <1>2, <1>3 DEF WillStop
  <2>2. \A q \in Runs : WillKill(q) => WillKill(q)'
    BY <1>2 DEF WillKill
  <2>3. QED
    BY <1>2, <1>4, <2>1, <2>2 DEF IInv, IdleInv
<1>10. LoadedInv'
  <2>1. \A k \in Models : Dirty(k)' => Dirty(k) /\ k # m
    BY <1>4
  <2>2. QED
    BY <1>2, <1>3, <2>1 DEF IInv, LoadedInv, OneWorkspace
<1>11. QED
  BY <1>6, <1>7, <1>8, <1>9, <1>10 DEF IInv

LEMMA UpInv == ASSUME IInv, NEW r \in Runs, Up(r) PROVE IInv'
<1>1. /\ stage[r] = "starting" /\ script[r] = "up"
      /\ container' = [container EXCEPT ![Want(r)] =
                         IF container[Want(r)] = "absent" THEN "loading"
                         ELSE container[Want(r)]]
      /\ \E t \in {"health", "proxy"} : script' = [script EXCEPT ![r] = t]
      /\ UNCHANGED <<proxy, pidfile, lastpid, stray, crashes, orphans, unruly, faults, locked>>
      /\ UNCHANGED <<stage, todo, pos, calls, attempt, answer>>
  BY DEF Up, Running, portVars, faultVars, progressVars
<1>2. Want(r) \in Models
  BY WantFacts DEF IInv
<1>3. /\ script'[r] \in {"health", "proxy"} /\ \A q \in Runs \ {r} : script'[q] = script[q]
      /\ container' \in [Models -> {"absent", "loading", "ready"}]
      /\ \A k \in Models \ {Want(r)} : container'[k] = container[k]
  BY <1>1, <1>2 DEF IInv, TypeOK
<1>4. TypeOK'
  BY <1>1, <1>3 DEF IInv, TypeOK, ScriptSteps
<1>5. ScriptInv' /\ OrphanInv' /\ PidInv' /\ LockInv'
  BY <1>1, <1>3 DEF IInv, ScriptInv, OrphanInv, PidInv, Exclusive, OneWorkspace, Launched,
                    LockInv, NoProxy, Scripts
<1>6. ProxyServesStarted' /\ CallInv'
  BY <1>1 DEF IInv, ProxyServesStarted, CallInv, OneWorkspace, AnsweredByWanted, Want
<1>7. IdleInv'
  <2>1. stage'[r] \notin {"exited", "shutdown"}
    BY <1>1
  <2>2. QED
    BY <2>1 DEF IdleInv, WillStop, WillKill
<1>8. LoadedInv'
  <2> SUFFICES ASSUME OneWorkspace
               PROVE  /\ \A m, k \in Models : Dirty(m)' /\ Dirty(k)' => m = k
                      /\ \A q \in Runs : stage'[q] = "starting" => script'[q] \notin {"down", "up"}
    BY DEF LoadedInv, OneWorkspace
  <2>1. \A m \in Models : ~ Dirty(m)
    BY <1>1 DEF IInv, LoadedInv
  <2>2. \A k \in Models \ {Want(r)} : ~ Dirty(k)'
    BY <1>1, <1>3, <2>1 DEF Dirty
  <2>3. \A q \in Runs : stage[q] = "starting" => q = r
    BY <1>1, OneHolder DEF Holding, Exclusive
  <2>4. QED
    BY <1>1, <1>3, <2>2, <2>3
<1>9. QED
  BY <1>4, <1>5, <1>6, <1>7, <1>8 DEF IInv

LEMMA StartProxyInv == ASSUME IInv, NEW r \in Runs, StartProxy(r) PROVE IInv'
<1>1. /\ stage[r] = "starting" /\ script[r] = "listen" /\ Goto(r, "poll")
      /\ lastpid' = lastpid + 1 /\ pidfile' = lastpid + 1
      /\ proxy' = IF proxy = NoProxy THEN [pid |-> lastpid + 1, target |-> Want(r)] ELSE proxy
      /\ UNCHANGED <<container, stray, crashes, orphans, unruly, faults, locked, todo>>
      /\ UNCHANGED <<pos, calls, attempt, answer>>
  BY DEF StartProxy, Running, Listen, faultVars, progressVars
<1>2. /\ stage' \in [Runs -> Stages] /\ stage'[r] = "poll"
      /\ script' \in [Runs -> ScriptSteps]
      /\ script'[r] = "none"
      /\ \A q \in Runs \ {r} : stage'[q] = stage[q] /\ script'[q] = script[q]
  BY <1>1, GotoFacts DEF IInv, Stages, Scripts
<1>3. Want(r) \in Models /\ lastpid \in Nat /\ Want(r)' = Want(r)
  BY <1>1, WantFacts DEF IInv, TypeOK, Want
<1>4. TypeOK'
  <2>1. proxy' \in [pid : 0 .. lastpid', target : Models \cup {NoModel}]
    BY <1>1, <1>3 DEF IInv, TypeOK
  <2>2. lastpid' \in Nat /\ pidfile' \in 0 .. lastpid'
    BY <1>1, <1>3
  <2>3. QED
    BY <1>1, <1>2, <2>1, <2>2 DEF IInv, TypeOK
<1>5. ScriptInv' /\ OrphanInv' /\ LockInv'
  BY <1>1, <1>2, <1>3 DEF IInv, ScriptInv, OrphanInv, LockInv, Scripts, Holding
<1>6. Exclusive /\ ~ stray => proxy' = [pid |-> lastpid + 1, target |-> Want(r)]
  BY <1>1 DEF IInv, PidInv
<1>7. PidInv'
  <2> SUFFICES ASSUME Exclusive', ~ stray'
               PROVE  /\ proxy'.pid = pidfile' /\ pidfile' # 0
                      /\ \A q \in Runs : script'[q] # "listen"
    BY DEF PidInv
  <2>1. \A q \in Runs : stage[q] # "launch" => stage'[q] # "launch"
    BY <1>2
  <2>2. Exclusive
    BY <2>1, StaysExclusive
  <2>3. \A q \in Runs : script[q] = "listen" => q = r
    BY <1>1, <2>2, OneHolder DEF IInv, ScriptInv, Holding
  <2>4. QED
    BY <1>1, <1>2, <1>3, <1>6, <2>2, <2>3
<1>8. ProxyServesStarted'
  <2> SUFFICES ASSUME \A q \in Runs \ {r} : stage'[q] = "launch"
               PROVE  proxy'.target = Want(r) /\ pidfile' = proxy'.pid
    BY <1>2, <1>3 DEF ProxyServesStarted
  <2>1. Exclusive
    BY <1>2 DEF Exclusive, Launched
  <2>2. ~ stray
    BY <1>1, <1>2 DEF IInv, OrphanInv
  <2>3. QED
    BY <1>1, <1>6, <2>1, <2>2
<1>9. IdleInv'
  <2>1. stage'[r] \notin {"exited", "shutdown"}
    BY <1>2
  <2>2. QED
    BY <2>1 DEF IdleInv, WillStop, WillKill
<1>10. LoadedInv'
  <2>1. \A m \in Models : Dirty(m)' = Dirty(m)
    BY <1>1 DEF Dirty
  <2>2. QED
    BY <1>1, <1>2, <2>1 DEF IInv, LoadedInv, OneWorkspace
<1>11. CallInv'
  <2>1. OneWorkspace => \A q \in Runs : stage'[q] # "call"
    BY <1>1, <1>2, OneHolder DEF Holding, Exclusive
  <2>2. QED
    BY <1>1, <2>1 DEF IInv, CallInv, OneWorkspace, AnsweredByWanted
<1>12. QED
  BY <1>4, <1>5, <1>7, <1>8, <1>9, <1>10, <1>11 DEF IInv

(* A step of a container, or of docker on a command left behind.           *)
LEMMA HostInv ==
  ASSUME IInv, TypeOK',
         UNCHANGED <<proxy, pidfile, stray, locked, stage, script, todo, pos, answer>>,
         orphans' = {} \/ orphans # {},
         \A k \in Models : Dirty(k)' => Dirty(k)
  PROVE  IInv'
<1>1. ScriptInv' /\ OrphanInv' /\ PidInv' /\ LockInv'
  BY DEF IInv, ScriptInv, OrphanInv, PidInv, Exclusive, OneWorkspace, Launched, LockInv,
         NoProxy
<1>2. ProxyServesStarted' /\ CallInv'
  BY DEF IInv, ProxyServesStarted, CallInv, OneWorkspace, AnsweredByWanted, Want
<1>3. IdleInv'
  BY DEF IInv, IdleInv, WillStop, WillKill
<1>4. LoadedInv'
  BY DEF IInv, LoadedInv, OneWorkspace
<1>5. QED
  BY <1>1, <1>2, <1>3, <1>4 DEF IInv

LEMMA ContainerInv == ASSUME IInv, NEW m \in Models, Load(m) \/ Crash(m) PROVE IInv'
<1>1. /\ UNCHANGED <<proxy, pidfile, lastpid, stray, orphans, unruly, faults>>
      /\ UNCHANGED <<locked, stage, script, todo, pos, calls, attempt, answer>>
      /\ container[m] # "absent"
      /\ \E c \in {"loading", "ready"} : container' = [container EXCEPT ![m] = c]
  BY DEF Load, Crash, portVars, faultVars, progressVars
<1>2. crashes' \in 0 .. MaxCrashes
  BY EndpointAssumption DEF Load, Crash, IInv, TypeOK
<1>3. TypeOK'
  BY <1>1, <1>2 DEF IInv, TypeOK
<1>4. \A k \in Models : Dirty(k)' => Dirty(k)
  BY <1>1 DEF IInv, TypeOK, Dirty
<1>5. QED
  BY <1>1, <1>3, <1>4, HostInv

LEMMA OrphanUpInv ==
  ASSUME IInv, NEW c \in orphans, OrphanStep(c), OrphanUp(c) \/ OrphanDown(c) PROVE IInv'
<1>1. /\ UNCHANGED <<proxy, pidfile, lastpid, stray, crashes, faults>>
      /\ UNCHANGED <<locked, stage, script, todo, pos, calls, attempt, answer>>
      /\ orphans' = orphans \ {c} /\ c \in Commands
  BY DEF OrphanStep, OrphanUp, OrphanDown, portVars, progressVars, IInv, TypeOK
<1>2. /\ container' \in [Models -> {"absent", "loading", "ready"}]
      /\ unruly' \subseteq Models
      /\ \A k \in Models : Dirty(k)' => Dirty(k)
  <2>1. CASE OrphanUp(c)
    <3>1. /\ unruly' = unruly \cup {c.model} /\ c.model \in Models
          /\ container' = [container EXCEPT ![c.model] =
                              IF container[c.model] = "absent" THEN "loading"
                              ELSE container[c.model]]
      BY <2>1, <1>1 DEF OrphanUp, Commands, Command
    <3>2. /\ container' \in [Models -> {"absent", "loading", "ready"}]
          /\ \A k \in Models \ {c.model} : container'[k] = container[k]
      BY <3>1 DEF IInv, TypeOK
    <3>3. QED
      BY <3>1, <3>2 DEF IInv, TypeOK, Dirty
  <2>2. CASE OrphanDown(c)
    <3>1. /\ unruly' = unruly \ {c.model}
          /\ container' = [container EXCEPT ![c.model] = "absent"]
      BY <2>2 DEF OrphanDown
    <3>2. /\ container' \in [Models -> {"absent", "loading", "ready"}]
          /\ \A k \in Models \ {c.model} : container'[k] = container[k]
          /\ c.model \in Models => container'[c.model] = "absent"
      BY <3>1 DEF IInv, TypeOK
    <3>3. QED
      BY <3>1, <3>2 DEF IInv, TypeOK, Dirty
  <2>3. QED
    BY <2>1, <2>2
<1>3. TypeOK'
  BY <1>1, <1>2 DEF IInv, TypeOK
<1>4. QED
  BY <1>1, <1>2, <1>3, HostInv

LEMMA OrphanProxyInv ==
  ASSUME IInv, NEW c \in orphans, OrphanStep(c), OrphanStop(c) \/ OrphanListens(c) PROVE IInv'
<1>1. /\ UNCHANGED <<container, unruly, crashes, faults>>
      /\ UNCHANGED <<locked, stage, script, todo, pos, calls, attempt, answer>>
      /\ c \in Commands /\ \A m \in Models : Dirty(m)' = Dirty(m)
  BY DEF OrphanStep, OrphanStop, OrphanListens, progressVars, Dirty, IInv, TypeOK
<1>2. orphans' \subseteq Commands
  <2>1. c.step = "proxy" => Command(c.of, "listen", c.model) \in Commands
    BY <1>1 DEF Commands, Command
  <2>2. QED
    BY <2>1 DEF OrphanStop, OrphanListens, IInv, TypeOK
<1>3. /\ lastpid' \in Nat /\ pidfile' \in 0 .. lastpid' /\ stray' \in BOOLEAN
      /\ proxy' \in [pid : 0 .. lastpid', target : Models \cup {NoModel}]
      /\ stray' \/ (pidfile' = 0 /\ (Exclusive => proxy' = NoProxy))
  <2>1. CASE OrphanStop(c)
    BY <2>1, StopNamedFacts DEF OrphanStop, IInv, TypeOK
  <2>2. CASE OrphanListens(c)
    <3>1. /\ stray' = TRUE /\ lastpid' = lastpid + 1 /\ pidfile' = lastpid + 1
          /\ proxy' = IF proxy = NoProxy THEN [pid |-> lastpid + 1, target |-> c.model]
                      ELSE proxy
      BY <2>2 DEF OrphanListens, Listen
    <3>2. c.model \in Models \cup {NoModel} /\ lastpid \in Nat
      BY <1>1 DEF Commands, Command, IInv, TypeOK
    <3>3. proxy' \in [pid : 0 .. lastpid', target : Models \cup {NoModel}]
      BY <3>1, <3>2 DEF IInv, TypeOK
    <3>4. QED
      BY <3>1, <3>2, <3>3
  <2>3. QED
    BY <2>1, <2>2
<1>4. TypeOK'
  BY <1>1, <1>2, <1>3 DEF IInv, TypeOK
<1>5. PICK q \in Runs : stage[q] \in {"shutdown", "exited"}
  BY DEF IInv, OrphanInv
<1>6. ScriptInv' /\ OrphanInv' /\ LockInv'
  BY <1>1, <1>5 DEF IInv, ScriptInv, OrphanInv, LockInv
<1>7. PidInv'
  BY <1>1, <1>3 DEF PidInv, Exclusive, OneWorkspace, Launched
<1>8. ProxyServesStarted'
  BY <1>1, <1>5 DEF ProxyServesStarted
<1>9. IdleInv'
  BY <1>1, <1>3 DEF IInv, IdleInv, WillStop, WillKill
<1>10. LoadedInv'
  BY <1>1 DEF IInv, LoadedInv, OneWorkspace
<1>11. CallInv'
  <2>1. OneWorkspace /\ ~ stray' => proxy'.target = NoModel
    BY <1>3 DEF Exclusive, NoProxy
  <2>2. QED
    BY <1>1, <2>1 DEF IInv, CallInv, OneWorkspace, AnsweredByWanted, Want
<1>12. QED
  BY <1>4, <1>6, <1>7, <1>8, <1>9, <1>10, <1>11 DEF IInv

LEMMA NextInv == IInv /\ [Next]_vars => IInv'
<1> SUFFICES ASSUME IInv, [Next]_vars PROVE IInv'
  OBVIOUS
<1>1. ASSUME NEW r \in Runs, RunStep(r) PROVE IInv'
  <2>1. CASE Launch(r) \/ Lock(r) \/ StartFails(r) \/ LaunchTimesOut(r) \/ PollTimeout(r)
    BY <2>1, LaunchInv, LockingInv, FailuresInv
  <2>2. CASE Ensure(r) \/ PollReady(r) \/ DownDone(r) \/ Healthy(r)
    BY <2>2, ReadyInv, DownDoneInv, HealthyInv
  <2>3. CASE Answered(r) \/ CallFails(r)
    BY <2>3, CallingInv
  <2>4. CASE StopProxy(r) \/ FreePort(r) \/ Down(r) \/ Up(r) \/ StartProxy(r)
    BY <2>4, StopProxyInv, DownInv, UpInv, StartProxyInv
  <2>5. QED
    BY <1>1, <2>1, <2>2, <2>3, <2>4 DEF RunStep
<1>2. ASSUME NEW m \in Models, Load(m) \/ Crash(m) PROVE IInv'
  BY <1>2, ContainerInv
<1>3. ASSUME NEW c \in orphans, OrphanStep(c) PROVE IInv'
  BY <1>3, OrphanUpInv, OrphanProxyInv DEF OrphanStep
<1>4. CASE UNCHANGED vars
  <2>1. /\ UNCHANGED <<container, proxy, pidfile, lastpid, stray, crashes, orphans, unruly>>
        /\ UNCHANGED <<faults, locked, stage, pos, calls, attempt, answer, script, todo>>
    BY <1>4 DEF vars, hostVars, portVars, faultVars, progressVars
  <2>2. TypeOK'
    BY <2>1 DEF IInv, TypeOK
  <2>3. QED
    BY <2>1, <2>2, HostInv DEF Dirty
<1>5. QED
  BY <1>1, <1>2, <1>3, <1>4 DEF Next, Stop

(* The inductive invariant holds at every step of the runs and containers. *)
THEOREM Invariance == Spec => []IInv
  BY InitInv, NextInv, PTL DEF Spec

(* Every variable has its type.                                            *)
THEOREM TypeCorrect == Spec => []TypeOK
<1>1. IInv => TypeOK
  BY DEF IInv
<1>2. QED
  BY <1>1, Invariance, PTL

(* A start script that nothing disturbs leaves a proxy to its model, and   *)
(* the PID file that names it.                                             *)
THEOREM ServesSound == Spec => []ProxyServesStarted
<1>1. IInv => ProxyServesStarted
  BY DEF IInv
<1>2. QED
  BY <1>1, Invariance, PTL

(* Whatever the workspaces, nothing is loaded after the last run.          *)
THEOREM UnloadedSound ==
  Spec => []((\A r \in Runs : stage[r] = "exited") =>
               \A m \in Models \ unruly : container[m] = "absent")
<1>1. IInv => ((\A r \in Runs : stage[r] = "exited") =>
                 \A m \in Models \ unruly : container[m] = "absent")
  BY DEF IInv, IdleInv, WillStop, Dirty
<1>2. QED
  BY <1>1, Invariance, PTL

(* With one workspace nothing is loaded and nothing listens after the last *)
(* run, but for what the commands did that went wrong or were left behind. *)
THEOREM IdleSound == OneWorkspace => (Spec => []IdleAfterwards)
<1>1. IInv /\ OneWorkspace => IdleAfterwards
  <2> SUFFICES ASSUME IInv, OneWorkspace, \A r \in Runs : stage[r] = "exited"
               PROVE  /\ \A m \in Models \ unruly : container[m] = "absent"
                      /\ stray \/ (proxy = NoProxy /\ pidfile = 0)
    BY DEF IdleAfterwards
  <2>1. \A m \in Models : ~ Dirty(m)
    BY DEF IInv, IdleInv, WillStop
  <2>2. ~ stray => pidfile = 0
    BY DEF IInv, IdleInv, WillKill
  <2>3. ~ stray => proxy = NoProxy
    BY <2>2 DEF IInv, PidInv, Exclusive
  <2>4. QED
    BY <2>1, <2>2, <2>3 DEF Dirty
<1>2. OneWorkspace => []OneWorkspace
  BY DEF OneWorkspace
<1>3. QED
  BY <1>1, <1>2, Invariance, PTL

(* With one workspace at most one model is loaded whose last command went  *)
(* right.                                                                  *)
THEOREM LoadedSound == OneWorkspace => (Spec => []OneModelLoaded)
<1>1. IInv /\ OneWorkspace => OneModelLoaded
  BY DirtySet, AtMostOne DEF IInv, LoadedInv, Dirty, OneModelLoaded
<1>2. OneWorkspace => []OneWorkspace
  BY DEF OneWorkspace
<1>3. QED
  BY <1>1, <1>2, Invariance, PTL

(* With one workspace every answer is of the model that was asked.         *)
THEOREM AnswerSound == OneWorkspace => (Spec => []AnsweredByWanted)
<1>1. IInv /\ OneWorkspace => AnsweredByWanted
  BY DEF IInv, CallInv
<1>2. OneWorkspace => []OneWorkspace
  BY DEF OneWorkspace
<1>3. QED
  BY <1>1, <1>2, Invariance, PTL

-----------------------------------------------------------------------------
(***************************************************************************)
(* Why a run exits: the measure that every step of it lowers, and that no  *)
(* step of another run, or of the host, touches.  First comes what the     *)
(* launcher has before it, then the models still wanted, the way to the    *)
(* next request, the stacks a script has to bring down, the requests and   *)
(* their attempts.  All of them are bounded by the types.                  *)
(***************************************************************************)
Ahead(r) ==
  CASE stage[r] = "launch"   -> 5
    [] stage[r] = "clear"    -> 4
    [] stage[r] = "lock"     -> 3
    [] stage[r] \in Holding  -> 2
    [] stage[r] = "shutdown" -> 1
    [] stage[r] = "exited"   -> 0

WayFrom(at, step) ==
  IF at = "ensure" THEN 8
  ELSE IF at = "poll" THEN 1
  ELSE CASE step = "stop_proxy" -> 7
         [] step = "down"       -> 6
         [] step = "up"         -> 5
         [] step = "health"     -> 4
         [] step = "proxy"      -> 3
         [] step = "listen"     -> 2
         [] step = "none"       -> 0

Way(r) == WayFrom(stage[r], script[r])

Progress(r) == <<stage[r], script[r], pos[r], todo[r], calls[r], attempt[r]>>

CallsOn(r) ==
  \/ calls'[r] > calls[r]
  \/ calls'[r] = calls[r] /\ attempt'[r] > attempt[r]

Shortens(r) ==
  \/ Ahead(r)' < Ahead(r)
  \/ /\ Ahead(r)' = Ahead(r)
     /\ \/ pos'[r] > pos[r]
        \/ /\ pos'[r] = pos[r]
           /\ \/ Way(r)' < Way(r)
              \/ /\ Way(r)' = Way(r)
                 /\ \/ todo'[r] \subseteq todo[r] /\ todo'[r] # todo[r]
                    \/ todo'[r] = todo[r] /\ CallsOn(r)

StepsShorten ==
  [][\A r \in Runs : /\ RunStep(r) => Shortens(r)
                     /\ Shortens(r) \/ UNCHANGED Progress(r)]_vars

(* A run goes to a stage nearer to its exit.                               *)
LEMMA GoesOn ==
  ASSUME TypeOK, NEW r \in Runs, NEW s \in Stages, Goto(r, s),
         \/ stage[r] = "launch" /\ s \in {"clear", "lock"}
         \/ stage[r] = "clear" /\ s = "lock"
         \/ stage[r] = "lock" /\ s \in {"ensure", "shutdown"}
         \/ stage[r] \in Holding /\ s = "shutdown"
         \/ stage[r] = "shutdown" /\ s = "exited"
  PROVE  Shortens(r)
<1>1. stage'[r] = s
  BY GotoFacts
<1>2. Ahead(r)' < Ahead(r)
  BY <1>1 DEF Ahead, Holding
<1>3. QED
  BY <1>2 DEF Shortens

(* It comes nearer to the next request.                                    *)
LEMMA ComesNear ==
  ASSUME NEW r \in Runs, pos'[r] = pos[r],
         stage[r] \in Holding, stage'[r] \in Holding, Way(r)' < Way(r)
  PROVE  Shortens(r)
<1>1. Ahead(r)' = Ahead(r)
  BY DEF Ahead, Holding
<1>2. QED
  BY <1>1 DEF Shortens

LEMMA CallDoneShortens ==
  ASSUME IInv, NEW r \in Runs, stage[r] = "call", CallDone(r), UNCHANGED todo
  PROVE  Shortens(r)
<1>1. /\ pos \in [Runs -> Nat] /\ calls \in [Runs -> 0 .. CallsEach - 1]
      /\ stage \in [Runs -> Stages] /\ TypeOK /\ CallsEach \in Nat
  BY EndpointAssumption DEF IInv, TypeOK
<1>2. CASE calls[r] + 1 < CallsEach
  <2>1. UNCHANGED <<pos, stage, script>>
    BY <1>2 DEF CallDone
  <2>2. calls'[r] > calls[r]
    <3>1. calls' = [calls EXCEPT ![r] = calls[r] + 1]
      BY <1>2 DEF CallDone
    <3>2. QED
      BY <1>1, <3>1
  <2>3. Ahead(r)' = Ahead(r) /\ Way(r)' = Way(r)
    BY <2>1 DEF Ahead, Way
  <2>4. QED
    BY <2>1, <2>2, <2>3 DEF Shortens, CallsOn
<1>3. CASE ~ (calls[r] + 1 < CallsEach) /\ pos[r] < Len(Wanted[r])
  <2>1. pos' = [pos EXCEPT ![r] = pos[r] + 1] /\ Goto(r, "ensure")
    BY <1>3 DEF CallDone
  <2>2. pos'[r] > pos[r] /\ stage'[r] = "ensure"
    BY <1>1, <2>1, GotoFacts DEF Stages
  <2>3. Ahead(r)' = Ahead(r)
    BY <2>2 DEF Ahead, Holding
  <2>4. QED
    BY <2>2, <2>3 DEF Shortens
<1>4. CASE ~ (calls[r] + 1 < CallsEach) /\ ~ (pos[r] < Len(Wanted[r]))
  <2>1. Goto(r, "shutdown")
    BY <1>4 DEF CallDone
  <2>2. QED
    BY <1>1, <2>1, GoesOn DEF Stages, Holding
<1>5. QED
  BY <1>2, <1>3, <1>4

LEMMA RunStepShortens ==
  ASSUME IInv, NEW r \in Runs, RunStep(r) PROVE Shortens(r)
<1>1. /\ TypeOK /\ ScriptInv
      /\ stage \in [Runs -> Stages] /\ todo \in [Runs -> SUBSET Models]
      /\ script \in [Runs -> ScriptSteps]
      /\ script[r] # "none" => stage[r] \in Scripts
      /\ script[r] \in {"up", "health", "proxy", "listen"} => stage[r] = "starting"
  BY DEF IInv, TypeOK, ScriptInv
<1>2. CASE Launch(r) \/ Lock(r) \/ StartFails(r) \/ LaunchTimesOut(r) \/ PollTimeout(r)
  BY <1>1, <1>2, GoesOn DEF Launch, Lock, StartFails, LaunchTimesOut, PollTimeout, Running,
     Holding, Stages
<1>3. CASE StopProxy(r)
  <2>1. /\ script[r] = "stop_proxy" /\ script'[r] = "down" /\ UNCHANGED <<stage, pos>>
        /\ stage[r] \in Scripts
    BY <1>1, <1>3 DEF StopProxy, Running, progressVars
  <2>2. Way(r)' < Way(r) /\ Ahead(r)' = Ahead(r)
    BY <2>1 DEF Way, WayFrom, Ahead, Scripts
  <2>3. QED
    BY <2>1, <2>2 DEF Shortens
<1>4. CASE Down(r)
  <2>1. UNCHANGED <<stage, script, pos>>
    BY <1>4 DEF Down, progressVars
  <2>2. todo'[r] \subseteq todo[r] /\ todo'[r] # todo[r]
    <3>1. \E m \in todo[r] : todo' = [todo EXCEPT ![r] = todo[r] \ {m}]
      BY <1>4 DEF Down
    <3>2. QED
      BY <1>1, <3>1
  <2>3. Way(r)' = Way(r) /\ Ahead(r)' = Ahead(r)
    BY <2>1 DEF Way, Ahead
  <2>4. QED
    BY <2>1, <2>2, <2>3 DEF Shortens
<1>5. CASE DownDone(r)
  <2>1. script[r] = "down" /\ stage[r] \in Scripts /\ pos' = pos
    BY <1>1, <1>5 DEF DownDone, progressVars
  <2>2. CASE stage[r] = "starting"
    <3>1. script'[r] = "up" /\ stage' = stage
      BY <1>1, <1>5, <2>2 DEF DownDone
    <3>2. Way(r)' < Way(r)
      BY <2>1, <2>2, <3>1 DEF Way, WayFrom
    <3>3. QED
      BY <2>1, <2>2, <3>1, <3>2, ComesNear DEF Holding
  <2>3. CASE stage[r] # "starting"
    BY <1>1, <1>5, <2>1, <2>3, GoesOn DEF DownDone, Scripts, Stages
  <2>4. QED
    BY <2>2, <2>3
<1>6. CASE Up(r) \/ Healthy(r) \/ FreePort(r)
  <2>1. /\ stage[r] = "starting" /\ UNCHANGED <<stage, pos>>
        /\ \/ script[r] = "up" /\ script'[r] \in {"health", "proxy"}
           \/ script[r] = "health" /\ script'[r] = "proxy"
           \/ script[r] = "proxy" /\ script'[r] = "listen"
    BY <1>1, <1>6 DEF Up, Healthy, FreePort, Running, progressVars
  <2>2. Way(r)' < Way(r)
    BY <2>1 DEF Way, WayFrom
  <2>3. QED
    BY <2>1, <2>2, ComesNear DEF Holding
<1>7. CASE StartProxy(r)
  <2>1. stage[r] = "starting" /\ script[r] = "listen" /\ pos' = pos /\ Goto(r, "poll")
    BY <1>7 DEF StartProxy, Running, progressVars
  <2>2. stage'[r] = "poll"
    BY <1>1, <2>1, GotoFacts DEF Stages
  <2>3. Way(r)' < Way(r)
    BY <2>1, <2>2 DEF Way, WayFrom
  <2>4. QED
    BY <2>1, <2>2, <2>3, ComesNear DEF Holding
<1>8. CASE Ensure(r) \/ PollReady(r)
  <2>1. /\ pos' = pos
        /\ \/ stage[r] = "ensure" /\ Goto(r, "call")
           \/ stage[r] = "ensure" /\ Goto(r, "starting")
           \/ stage[r] = "poll" /\ Goto(r, "call")
    BY <1>8 DEF Ensure, PollReady, progressVars
  <2>2. /\ pos' = pos
        /\ \/ stage[r] = "ensure" /\ stage'[r] = "call" /\ script'[r] = "none"
           \/ stage[r] = "ensure" /\ stage'[r] = "starting" /\ script'[r] = "stop_proxy"
           \/ stage[r] = "poll" /\ stage'[r] = "call" /\ script'[r] = "none"
    BY <1>1, <2>1 DEF Goto
  <2>3. Way(r)' < Way(r)
    BY <2>2 DEF Way, WayFrom
  <2>4. QED
    BY <2>2, <2>3, ComesNear DEF Holding
<1>9. CASE Answered(r)
  BY <1>9, CallDoneShortens DEF Answered
<1>10. CASE CallFails(r)
  <2>1. CASE CallDone(r)
    BY <1>10, <2>1, CallDoneShortens DEF CallFails
  <2>2. CASE ~ CallDone(r)
    <3>1. /\ attempt' = [attempt EXCEPT ![r] = attempt[r] + 1]
          /\ UNCHANGED <<stage, pos, calls, script, todo>>
      BY <1>10, <2>2 DEF CallFails
    <3>2. attempt'[r] > attempt[r]
      BY <3>1, EndpointAssumption DEF IInv, TypeOK
    <3>3. Ahead(r)' = Ahead(r) /\ Way(r)' = Way(r)
      BY <3>1 DEF Ahead, Way
    <3>4. QED
      BY <3>1, <3>2, <3>3 DEF Shortens, CallsOn
  <2>3. QED
    BY <2>1, <2>2
<1>11. QED
  BY <1>2, <1>3, <1>4, <1>5, <1>6, <1>7, <1>8, <1>9, <1>10 DEF RunStep

(* No run is in the way of another one's progress.                         *)
LEMMA OthersStay ==
  ASSUME TypeOK, NEW r \in Runs, NEW q \in Runs \ {r}, RunStep(q)
  PROVE  UNCHANGED Progress(r)
<1>1. ASSUME NEW s, Goto(q, s) PROVE stage'[r] = stage[r] /\ script'[r] = script[r]
  BY <1>1 DEF Goto, TypeOK
<1>2. CASE Launch(q) \/ Lock(q) \/ Ensure(q) \/ PollReady(q) \/ PollTimeout(q) \/ StartFails(q)
           \/ LaunchTimesOut(q) \/ StartProxy(q)
  <2>1. /\ \E s \in Stages : Goto(q, s)
        /\ UNCHANGED <<pos, todo, calls, attempt>>
    BY <1>2 DEF Launch, Lock, Ensure, PollReady, PollTimeout, StartFails, LaunchTimesOut,
       StartProxy, progressVars, Stages
  <2>2. QED
    BY <1>1, <2>1 DEF Progress
<1>3. CASE StopProxy(q) \/ FreePort(q) \/ Down(q) \/ Up(q) \/ Healthy(q)
  <2>1. UNCHANGED <<stage, pos, calls, attempt>>
    BY <1>3 DEF StopProxy, FreePort, Down, Up, Healthy, progressVars
  <2>2. todo'[r] = todo[r] /\ script'[r] = script[r]
    BY <1>3 DEF StopProxy, FreePort, Down, Up, Healthy, TypeOK
  <2>3. QED
    BY <2>1, <2>2 DEF Progress
<1>4. CASE DownDone(q)
  <2>1. UNCHANGED <<pos, todo, calls, attempt>>
    BY <1>4 DEF DownDone, progressVars
  <2>2. stage'[r] = stage[r] /\ script'[r] = script[r]
    BY <1>1, <1>4 DEF DownDone, TypeOK
  <2>3. QED
    BY <2>1, <2>2 DEF Progress
<1>5. ASSUME CallDone(q), todo' = todo PROVE UNCHANGED Progress(r)
  <2>1. /\ attempt'[r] = attempt[r] /\ calls'[r] = calls[r] /\ pos'[r] = pos[r]
    BY <1>5 DEF CallDone, TypeOK
  <2>2. stage'[r] = stage[r] /\ script'[r] = script[r]
    BY <1>1, <1>5 DEF CallDone
  <2>3. QED
    BY <1>5, <2>1, <2>2 DEF Progress
<1>6. CASE Answered(q) \/ CallFails(q)
  <2>1. CASE CallDone(q)
    BY <1>5, <1>6, <2>1 DEF Answered, CallFails
  <2>2. CASE ~ CallDone(q)
    BY <1>6, <2>2 DEF Answered, CallFails, TypeOK, Progress
  <2>3. QED
    BY <2>1, <2>2
<1>7. QED
  BY <1>2, <1>3, <1>4, <1>6 DEF RunStep

(* Every step of a run brings that run nearer to its exit, in a measure    *)
(* the types bound, and nothing else moves it: neither another run that    *)
(* stops its models, nor a container that crashes, sets it back.           *)
THEOREM RunsShorten == Spec => StepsShorten
<1>1. IInv /\ [Next]_vars =>
        [\A r \in Runs : /\ RunStep(r) => Shortens(r)
                         /\ Shortens(r) \/ UNCHANGED Progress(r)]_vars
  <2> SUFFICES ASSUME IInv, Next, NEW r \in Runs
               PROVE  /\ RunStep(r) => Shortens(r)
                      /\ Shortens(r) \/ UNCHANGED Progress(r)
    OBVIOUS
  <2>1. RunStep(r) => Shortens(r)
    BY RunStepShortens
  <2>2. ASSUME NEW q \in Runs, RunStep(q) PROVE Shortens(r) \/ UNCHANGED Progress(r)
    <3>1. CASE q = r
      BY <2>1, <2>2, <3>1
    <3>2. CASE q # r
      BY <2>2, <3>2, OthersStay DEF IInv
    <3>3. QED
      BY <3>1, <3>2
  <2>3. ASSUME \/ \E m \in Models : Load(m) \/ Crash(m)
               \/ \E c \in orphans : OrphanStep(c)
        PROVE  UNCHANGED Progress(r)
    BY <2>3 DEF Load, Crash, OrphanStep, progressVars, Progress
  <2>4. CASE Stop
    <3>1. UNCHANGED <<stage, script, pos, todo, calls, attempt>>
      BY <2>4 DEF Stop, vars, progressVars
    <3>2. QED
      BY <2>1, <3>1 DEF Progress
  <2>5. QED
    BY <2>1, <2>2, <2>3, <2>4 DEF Next
<1>2. QED
  BY <1>1, Invariance, PTL DEF Spec, StepsShorten

-----------------------------------------------------------------------------
(***************************************************************************)
(* A connection through the proxy.                                         *)
(***************************************************************************)
(* What lies between the ends of a direction.                              *)
Held(d) == outbuf[d] + chunk[d] + inbuf[d]

(* No byte is made up, and none is lost unless the socket it was to leave  *)
(* by was closed with bytes unread.                                        *)
Conserved ==
  \A d \in Dir :
    /\ got[d] + Held(d) <= written[d]
    /\ Dest(d) \in broken \/ got[d] + Held(d) = written[d]

(* A thread that is through has passed on all of a direction that is       *)
(* ended, or one of the ends was reset.                                    *)
ThreadsInv ==
  \A d \in Dir :
    /\ thread[d] \in {"none", "recv"} => chunk[d] = 0
    /\ thread[d] = "send" => chunk[d] > 0
    /\ shut[d] => thread[d] = "ended"
    /\ thread[d] \in {"end", "ended"} =>
         \/ fin[d] /\ inbuf[d] = 0 /\ chunk[d] = 0
         \/ peer[Source(d)] = "reset" \/ peer[Dest(d)] = "reset"

ClosedInv ==
  conn = "closed" =>
    /\ \A d \in Dir : thread[d] = "ended"
    /\ broken = {} \/ \E p \in End : peer[p] = "reset"

OpenInv ==
  /\ conn \in {"connect", "forward"} => broken = {}
  /\ conn = "connect" => \A d \in Dir : thread[d] = "none"

ProxyInv == ProxyTypeOK /\ Conserved /\ ThreadsInv /\ ClosedInv /\ OpenInv

LEMMA DirFacts ==
  /\ \A d \in Dir : Source(d) \in End /\ Dest(d) \in End /\ Source(d) # Dest(d)
  /\ \A d \in Dir : Reverse(d) \in Dir
  BY DEF Dir, End, Source, Dest, Reverse

LEMMA ProxyInitInv == ProxyInit => ProxyInv
<1> SUFFICES ASSUME ProxyInit PROVE ProxyInv
  OBVIOUS
<1>1. ProxyTypeOK
  BY ProxyAssumption DEF ProxyInit, ProxyTypeOK, None
<1>2. Conserved
  BY DEF ProxyInit, None, Conserved, Held
<1>3. ThreadsInv /\ ClosedInv /\ OpenInv
  BY DEF ProxyInit, None, ThreadsInv, ClosedInv, OpenInv
<1>4. QED
  BY <1>1, <1>2, <1>3 DEF ProxyInv

(* Steps of proxy_connection.                                              *)
LEMMA ConnectionInv ==
  ASSUME ProxyInv, ConnectStep \/ CloseBoth \/ Kill PROVE ProxyInv'
<1>1. CASE Connect
  <2>1. /\ conn = "connect" /\ conn' = "forward" /\ thread' = [d \in Dir |-> "recv"]
        /\ UNCHANGED <<peer, broken, written, fin, inbuf, chunk, outbuf, got, shut>>
        /\ \A d \in Dir : thread[d] = "none"
    BY <1>1 DEF Connect, flowVars, ProxyInv, OpenInv
  <2>2. ProxyTypeOK' /\ Conserved'
    BY <2>1 DEF ProxyInv, ProxyTypeOK, Conserved, Held
  <2>3. ThreadsInv' /\ ClosedInv' /\ OpenInv'
    BY <2>1 DEF ProxyInv, ThreadsInv, ClosedInv, OpenInv
  <2>4. QED
    BY <2>2, <2>3 DEF ProxyInv
<1>2. CASE ConnectFails \/ Kill
  <2>1. /\ conn' \in {"refused", "killed"} /\ broken' \subseteq End /\ broken = {}
        /\ UNCHANGED <<peer, written, fin, inbuf, chunk, outbuf, got, thread, shut>>
    BY <1>2 DEF ConnectFails, Kill, flowVars, Unread, ProxyInv, OpenInv
  <2>2. ProxyTypeOK'
    BY <2>1 DEF ProxyInv, ProxyTypeOK
  <2>3. Conserved'
    BY <2>1 DEF ProxyInv, Conserved, Held
  <2>4. ThreadsInv' /\ ClosedInv' /\ OpenInv'
    BY <2>1 DEF ProxyInv, ThreadsInv, ClosedInv, OpenInv
  <2>5. QED
    BY <2>2, <2>3, <2>4 DEF ProxyInv
<1>3. CASE CloseBoth
  <2>1. /\ conn = "forward" /\ conn' = "closed" /\ broken = {} /\ broken' = Unread
        /\ \A d \in Dir : thread[d] = "ended"
        /\ UNCHANGED <<peer, written, fin, inbuf, chunk, got, thread, shut>>
    BY <1>3 DEF CloseBoth, Joined, ProxyInv, OpenInv
  <2>2. PICK rest \in [Dir -> 0 .. Capacity] :
          /\ \A d \in Dir : IF Dest(d) \in broken' THEN rest[d] <= outbuf[d]
                            ELSE rest[d] = outbuf[d]
          /\ outbuf' = rest
    BY <1>3 DEF CloseBoth
  <2>3. ProxyTypeOK'
    BY <2>1, <2>2 DEF ProxyInv, ProxyTypeOK, Unread
  <2>4. Conserved'
    <3> SUFFICES ASSUME NEW d \in Dir
                 PROVE  /\ got'[d] + Held(d)' <= written'[d]
                        /\ Dest(d) \in broken' \/ got'[d] + Held(d)' = written'[d]
      BY DEF Conserved, Dest
    <3>1. got[d] + Held(d) <= written[d] /\ got[d] + Held(d) = written[d]
      BY <2>1 DEF ProxyInv, Conserved
    <3>2. /\ got[d] \in Int /\ outbuf[d] \in Int /\ chunk[d] \in Int /\ inbuf[d] \in Int
          /\ written[d] \in Int /\ outbuf'[d] \in Int
      BY <2>2, ProxyAssumption DEF ProxyInv, ProxyTypeOK
    <3>3. CASE Dest(d) \in broken'
      <4>1. outbuf'[d] <= outbuf[d]
        BY <2>2, <3>3
      <4>2. QED
        BY <2>1, <3>1, <3>2, <3>3, <4>1 DEF Held
    <3>4. CASE Dest(d) \notin broken'
      <4>1. outbuf'[d] = outbuf[d]
        BY <2>2, <3>4
      <4>2. QED
        BY <2>1, <3>1, <3>2, <4>1 DEF Held
    <3>5. QED
      BY <3>3, <3>4
  <2>5. ThreadsInv'
    BY <2>1 DEF ProxyInv, ThreadsInv
  <2>6. ClosedInv' /\ OpenInv'
    <3>1. CASE \E p \in End : peer[p] = "reset"
      BY <2>1, <3>1 DEF ClosedInv, OpenInv
    <3>2. CASE \A p \in End : peer[p] # "reset"
      <4>1. \A d \in Dir : inbuf[d] = 0
        BY <2>1, <3>2, DirFacts DEF ProxyInv, ThreadsInv
      <4>2. broken' = {}
        BY <2>1, <4>1 DEF Unread
      <4>3. QED
        BY <2>1, <4>2 DEF ClosedInv, OpenInv
    <3>3. QED
      BY <3>1, <3>2
  <2>7. QED
    BY <2>3, <2>4, <2>5, <2>6 DEF ProxyInv
<1>4. QED
  BY <1>1, <1>2, <1>3 DEF ConnectStep

(* A step of one direction: what it must show.                             *)
LEMMA DirectionInv ==
  ASSUME ProxyInv, conn \in {"connect", "forward"}, NEW d \in Dir, ProxyTypeOK',
         UNCHANGED <<conn, broken>>,
         \A e \in Dir \ {d} :
           /\ got'[e] = got[e] /\ written'[e] = written[e] /\ inbuf'[e] = inbuf[e]
           /\ chunk'[e] = chunk[e] /\ outbuf'[e] = outbuf[e]
           /\ fin'[e] = fin[e] /\ shut'[e] = shut[e] /\ thread'[e] = thread[e],
         got'[d] + outbuf'[d] + chunk'[d] + inbuf'[d] - written'[d]
           = got[d] + outbuf[d] + chunk[d] + inbuf[d] - written[d],
         \A p \in End : peer[p] = "reset" => peer'[p] = "reset",
         conn = "connect" => thread'[d] = "none",
         thread'[d] \in {"none", "recv"} => chunk'[d] = 0,
         thread'[d] = "send" => chunk'[d] > 0,
         shut'[d] => thread'[d] = "ended",
         thread'[d] \in {"end", "ended"} =>
           \/ fin'[d] /\ inbuf'[d] = 0 /\ chunk'[d] = 0
           \/ peer'[Source(d)] = "reset" \/ peer'[Dest(d)] = "reset"
  PROVE  ProxyInv'
<1>1. Conserved'
  <2> SUFFICES ASSUME NEW e \in Dir
               PROVE  /\ got'[e] + Held(e)' <= written'[e]
                      /\ got'[e] + Held(e)' = written'[e]
    BY DEF Conserved, Dest
  <2>1. got[e] + Held(e) = written[e]
    BY DEF ProxyInv, OpenInv, Conserved
  <2>2. /\ got[e] \in Int /\ outbuf[e] \in Int /\ chunk[e] \in Int /\ inbuf[e] \in Int
        /\ written[e] \in Int /\ got'[e] \in Int /\ outbuf'[e] \in Int
        /\ chunk'[e] \in Int /\ inbuf'[e] \in Int /\ written'[e] \in Int
    BY ProxyAssumption DEF ProxyInv, ProxyTypeOK
  <2>3. CASE e = d
    <3>1. got[d] + outbuf[d] + chunk[d] + inbuf[d] - written[d] = 0
      BY <2>1, <2>2, <2>3 DEF Held
    <3>2. got'[d] + outbuf'[d] + chunk'[d] + inbuf'[d] - written'[d] = 0
      BY <3>1
    <3>3. got'[d] + (outbuf'[d] + chunk'[d] + inbuf'[d]) = written'[d]
      BY <2>2, <2>3, <3>2
    <3>4. QED
      BY <2>2, <2>3, <3>3 DEF Held
  <2>4. CASE e # d
    BY <2>1, <2>2, <2>4 DEF Held
  <2>5. QED
    BY <2>3, <2>4
<1>2. ThreadsInv'
  <2> SUFFICES ASSUME NEW e \in Dir
               PROVE  /\ thread'[e] \in {"none", "recv"} => chunk'[e] = 0
                      /\ thread'[e] = "send" => chunk'[e] > 0
                      /\ shut'[e] => thread'[e] = "ended"
                      /\ thread'[e] \in {"end", "ended"} =>
                           \/ fin'[e] /\ inbuf'[e] = 0 /\ chunk'[e] = 0
                           \/ peer'[Source(e)] = "reset" \/ peer'[Dest(e)] = "reset"
    BY DEF ThreadsInv
  <2>1. CASE e = d
    BY <2>1
  <2>2. CASE e # d
    BY <2>2, DirFacts DEF ProxyInv, ThreadsInv
  <2>3. QED
    BY <2>1, <2>2
<1>3. ClosedInv' /\ OpenInv'
  BY DEF ProxyInv, ClosedInv, OpenInv
<1>4. QED
  BY <1>1, <1>2, <1>3 DEF ProxyInv

LEMMA Counts ==
  ASSUME ProxyInv, NEW d \in Dir
  PROVE  /\ got[d] \in Nat /\ outbuf[d] \in Nat /\ chunk[d] \in Nat /\ inbuf[d] \in Nat
         /\ written[d] \in Nat /\ outbuf[d] <= Capacity /\ chunk[d] <= Capacity
         /\ inbuf[d] <= Capacity /\ written[d] <= MaxBytes
         /\ got[d] + outbuf[d] <= written[d]
  BY ProxyAssumption DEF ProxyInv, ProxyTypeOK, Conserved, Held

(* Steps of copy_stream.                                                   *)
LEMMA RecvInv == ASSUME ProxyInv, NEW d \in Dir, Recv(d) PROVE ProxyInv'
<1>1. /\ conn = "forward" /\ thread[d] = "recv" /\ chunk[d] = 0
      /\ UNCHANGED <<conn, peer, broken, written, fin, outbuf, got, shut>>
  BY DEF Recv, At, ProxyInv, ThreadsInv
<1>2. ASSUME NEW n \in 1 .. inbuf[d],
             chunk' = [chunk EXCEPT ![d] = n],
             inbuf' = [inbuf EXCEPT ![d] = inbuf[d] - n],
             thread' = [thread EXCEPT ![d] = "send"]
      PROVE  ProxyInv'
  <2>1. ProxyTypeOK'
    <3>1. n \in 0 .. Capacity /\ inbuf[d] - n \in 0 .. Capacity
      BY Counts, ProxyAssumption
    <3>2. chunk' \in [Dir -> 0 .. Capacity] /\ inbuf' \in [Dir -> 0 .. Capacity]
      BY <1>2, <3>1 DEF ProxyInv, ProxyTypeOK
    <3>3. QED
      BY <1>1, <1>2, <3>2 DEF ProxyInv, ProxyTypeOK
  <2>2. chunk'[d] = n /\ inbuf'[d] = inbuf[d] - n /\ thread'[d] = "send"
    BY <1>2 DEF ProxyInv, ProxyTypeOK
  <2>3. got'[d] + outbuf'[d] + chunk'[d] + inbuf'[d] - written'[d]
           = got[d] + outbuf[d] + chunk[d] + inbuf[d] - written[d]
    BY <1>1, <2>2, Counts
  <2>4. QED
    BY <1>1, <1>2, <2>1, <2>2, <2>3, DirectionInv DEF ProxyInv, ThreadsInv
<1>3. CASE /\ (fin[d] /\ inbuf[d] = 0) \/ peer[Source(d)] = "reset"
           /\ thread' = [thread EXCEPT ![d] = "end"] /\ UNCHANGED <<chunk, inbuf>>
  <2>1. ProxyTypeOK'
    BY <1>1, <1>3 DEF ProxyInv, ProxyTypeOK
  <2>2. thread'[d] = "end"
    BY <1>3 DEF ProxyInv, ProxyTypeOK
  <2>3. QED
    BY <1>1, <1>3, <2>1, <2>2, DirectionInv DEF ProxyInv, ThreadsInv
<1>4. QED
  BY <1>2, <1>3 DEF Recv, GoesTo

LEMMA SendInv == ASSUME ProxyInv, NEW d \in Dir, Send(d) PROVE ProxyInv'
<1>1. /\ conn = "forward" /\ thread[d] = "send" /\ outbuf[d] < Capacity
      /\ outbuf' = [outbuf EXCEPT ![d] = outbuf[d] + 1]
      /\ chunk' = [chunk EXCEPT ![d] = chunk[d] - 1]
      /\ thread' = [thread EXCEPT ![d] = IF chunk[d] - 1 = 0 THEN "recv" ELSE "send"]
      /\ UNCHANGED <<conn, peer, broken, written, fin, inbuf, got, shut>>
  BY DEF Send, At, LeftOver, GoesTo
<1>2. chunk[d] > 0
  BY <1>1, Counts DEF ProxyInv, ThreadsInv
<1>3. ProxyTypeOK'
  <2>1. outbuf[d] + 1 \in 0 .. Capacity /\ chunk[d] - 1 \in 0 .. Capacity
    BY <1>1, <1>2, Counts, ProxyAssumption
  <2>2. outbuf' \in [Dir -> 0 .. Capacity] /\ chunk' \in [Dir -> 0 .. Capacity]
    BY <1>1, <2>1 DEF ProxyInv, ProxyTypeOK
  <2>3. QED
    BY <1>1, <2>2 DEF ProxyInv, ProxyTypeOK
<1>4. /\ outbuf'[d] = outbuf[d] + 1 /\ chunk'[d] = chunk[d] - 1
      /\ thread'[d] = IF chunk[d] - 1 = 0 THEN "recv" ELSE "send"
  BY <1>1 DEF ProxyInv, ProxyTypeOK
<1>5. got'[d] + outbuf'[d] + chunk'[d] + inbuf'[d] - written'[d]
         = got[d] + outbuf[d] + chunk[d] + inbuf[d] - written[d]
  <2>1. got[d] + (outbuf[d] + 1) + (chunk[d] - 1) + inbuf[d] - written[d]
         = got[d] + outbuf[d] + chunk[d] + inbuf[d] - written[d]
    BY Counts
  <2>2. QED
    BY <1>1, <1>4, <2>1
<1>6. /\ thread'[d] \in {"none", "recv"} => chunk'[d] = 0
      /\ thread'[d] = "send" => chunk'[d] > 0
      /\ thread'[d] \notin {"end", "ended", "none"}
  BY <1>2, <1>4, Counts
<1>7. \A e \in Dir \ {d} :
        /\ outbuf'[e] = outbuf[e] /\ chunk'[e] = chunk[e] /\ thread'[e] = thread[e]
  BY <1>1 DEF ProxyInv, ProxyTypeOK
<1>8. ~ shut'[d]
  BY <1>1 DEF ProxyInv, ThreadsInv
<1>9. QED
  BY <1>1, <1>3, <1>5, <1>6, <1>7, <1>8, DirectionInv

LEMMA SendFailsInv == ASSUME ProxyInv, NEW d \in Dir, SendFails(d) PROVE ProxyInv'
<1>1. /\ conn = "forward" /\ thread[d] = "send" /\ peer[Dest(d)] # "open"
      /\ peer' = [peer EXCEPT ![Dest(d)] = "reset"]
      /\ \/ thread' = [thread EXCEPT ![d] = "end"]
         \/ thread' = thread
      /\ UNCHANGED <<conn, broken, written, fin, inbuf, chunk, outbuf, got, shut>>
  BY DEF SendFails, At, GoesTo, flowVars
<1>2. ProxyTypeOK'
  BY <1>1 DEF ProxyInv, ProxyTypeOK
<1>3. peer'[Dest(d)] = "reset" /\ \A p \in End : peer[p] = "reset" => peer'[p] = "reset"
  BY <1>1, DirFacts DEF ProxyInv, ProxyTypeOK
<1>4. thread'[d] \in {"end", "send"} /\ \A e \in Dir \ {d} : thread'[e] = thread[e]
  BY <1>1 DEF ProxyInv, ProxyTypeOK
<1>5. QED
  BY <1>1, <1>2, <1>3, <1>4, DirectionInv DEF ProxyInv, ThreadsInv

LEMMA ShutdownInv == ASSUME ProxyInv, NEW d \in Dir, Shutdown(d) PROVE ProxyInv'
<1>1. /\ conn = "forward" /\ thread[d] = "end"
      /\ shut' = [shut EXCEPT ![d] = TRUE] /\ thread' = [thread EXCEPT ![d] = "ended"]
      /\ UNCHANGED <<conn, peer, broken, written, fin, inbuf, chunk, outbuf, got>>
  BY DEF Shutdown, At, GoesTo, flowVars
<1>2. ProxyTypeOK'
  BY <1>1 DEF ProxyInv, ProxyTypeOK
<1>3. thread'[d] = "ended"
  BY <1>1 DEF ProxyInv, ProxyTypeOK
<1>4. QED
  BY <1>1, <1>2, <1>3, DirectionInv DEF ProxyInv, ProxyTypeOK, ThreadsInv

(* Steps of the ends.                                                      *)
LEMMA WriteInv == ASSUME ProxyInv, NEW d \in Dir, Write(d) PROVE ProxyInv'
<1>1. /\ conn \in {"connect", "forward"} /\ ~ fin[d]
      /\ written[d] < MaxBytes /\ inbuf[d] < Capacity
      /\ written' = [written EXCEPT ![d] = written[d] + 1]
      /\ inbuf' = [inbuf EXCEPT ![d] = inbuf[d] + 1]
      /\ UNCHANGED <<conn, peer, broken, fin, chunk, outbuf, got, thread, shut>>
  BY DEF Write, Here
<1>2. ProxyTypeOK'
  <2>1. written[d] + 1 \in 0 .. MaxBytes /\ inbuf[d] + 1 \in 0 .. Capacity
    BY <1>1, Counts, ProxyAssumption
  <2>2. written' \in [Dir -> 0 .. MaxBytes] /\ inbuf' \in [Dir -> 0 .. Capacity]
    BY <1>1, <2>1 DEF ProxyInv, ProxyTypeOK
  <2>3. QED
    BY <1>1, <2>2 DEF ProxyInv, ProxyTypeOK
<1>3. written'[d] = written[d] + 1 /\ inbuf'[d] = inbuf[d] + 1
  BY <1>1 DEF ProxyInv, ProxyTypeOK
<1>4. got'[d] + outbuf'[d] + chunk'[d] + inbuf'[d] - written'[d]
         = got[d] + outbuf[d] + chunk[d] + inbuf[d] - written[d]
  BY <1>1, <1>3, Counts
<1>5. QED
  BY <1>1, <1>2, <1>3, <1>4, DirectionInv DEF ProxyInv, ThreadsInv, OpenInv

LEMMA EndsInv == ASSUME ProxyInv, NEW d \in Dir, Finish(d) \/ Leave(d) PROVE ProxyInv'
<1>1. /\ conn \in {"connect", "forward"} /\ fin' = [fin EXCEPT ![d] = TRUE]
      /\ peer[Source(d)] = "open"
      /\ \/ peer' = peer
         \/ \E q \in {"reset", "closed"} : peer' = [peer EXCEPT ![Source(d)] = q]
      /\ UNCHANGED <<conn, broken, written, inbuf, chunk, outbuf, got, thread, shut>>
  BY DEF Finish, Leave, Here
<1>2. ProxyTypeOK'
  BY <1>1 DEF ProxyInv, ProxyTypeOK
<1>3. /\ fin'[d] /\ \A e \in Dir \ {d} : fin'[e] = fin[e]
      /\ \A p \in End : peer[p] = "reset" => peer'[p] = "reset"
  BY <1>1, DirFacts DEF ProxyInv, ProxyTypeOK
<1>4. QED
  BY <1>1, <1>2, <1>3, DirectionInv, DirFacts DEF ProxyInv, ThreadsInv, OpenInv

LEMMA ResetInv == ASSUME ProxyInv, NEW p \in End, Reset(p) PROVE ProxyInv'
<1>1. /\ conn \in {"connect", "forward"} /\ peer' = [peer EXCEPT ![p] = "reset"]
      /\ UNCHANGED <<conn, broken, written, fin, inbuf, chunk, outbuf, got, thread, shut>>
  BY DEF Reset, Here, flowVars
<1>2. ProxyTypeOK' /\ \A q \in End : peer[q] = "reset" => peer'[q] = "reset"
  BY <1>1 DEF ProxyInv, ProxyTypeOK
<1>3. QED
  BY <1>1, <1>2, DirectionInv, DirFacts DEF ProxyInv, ThreadsInv, OpenInv, Dir

(* Reading goes on when the proxy is done with the connection.             *)
LEMMA ReadInv == ASSUME ProxyInv, NEW d \in Dir, Read(d) PROVE ProxyInv'
<1>1. /\ outbuf[d] > 0
      /\ outbuf' = [outbuf EXCEPT ![d] = outbuf[d] - 1]
      /\ got' = [got EXCEPT ![d] = got[d] + 1]
      /\ UNCHANGED <<conn, peer, broken, written, fin, inbuf, chunk, thread, shut>>
  BY DEF Read
<1>2. ProxyTypeOK'
  <2>1. got[d] + 1 \in 0 .. MaxBytes /\ outbuf[d] - 1 \in 0 .. Capacity
    BY <1>1, Counts, ProxyAssumption
  <2>2. got' \in [Dir -> 0 .. MaxBytes] /\ outbuf' \in [Dir -> 0 .. Capacity]
    BY <1>1, <2>1 DEF ProxyInv, ProxyTypeOK
  <2>3. QED
    BY <1>1, <2>2 DEF ProxyInv, ProxyTypeOK
<1>3. Conserved'
  <2> SUFFICES ASSUME NEW e \in Dir
               PROVE  got'[e] + Held(e)' = got[e] + Held(e)
    BY <1>1 DEF Conserved, ProxyInv
  <2>1. CASE e = d
    BY <1>1, <2>1, Counts DEF Held, ProxyInv, ProxyTypeOK
  <2>2. CASE e # d
    BY <1>1, <2>2 DEF Held, ProxyInv, ProxyTypeOK
  <2>3. QED
    BY <2>1, <2>2
<1>4. ThreadsInv' /\ ClosedInv' /\ OpenInv'
  BY <1>1 DEF ProxyInv, ThreadsInv, ClosedInv, OpenInv
<1>5. QED
  BY <1>2, <1>3, <1>4 DEF ProxyInv

LEMMA ProxyNextInv == ProxyInv /\ [ProxyNext]_proxyVars => ProxyInv'
<1> SUFFICES ASSUME ProxyInv, [ProxyNext]_proxyVars PROVE ProxyInv'
  OBVIOUS
<1>1. CASE ConnectStep \/ CloseBoth \/ Kill
  BY <1>1, ConnectionInv
<1>2. ASSUME NEW d \in Dir, CopyStep(d) \/ EndStep(d) \/ Read(d) PROVE ProxyInv'
  BY <1>2, RecvInv, SendInv, SendFailsInv, ShutdownInv, WriteInv, EndsInv, ReadInv
     DEF CopyStep, EndStep
<1>3. ASSUME NEW p \in End, Reset(p) PROVE ProxyInv'
  BY <1>3, ResetInv
<1>4. CASE UNCHANGED proxyVars
  <2>1. ProxyTypeOK' /\ Conserved'
    BY <1>4 DEF proxyVars, flowVars, ProxyInv, ProxyTypeOK, Conserved, Held
  <2>2. ThreadsInv' /\ ClosedInv' /\ OpenInv'
    BY <1>4 DEF proxyVars, flowVars, ProxyInv, ThreadsInv, ClosedInv, OpenInv
  <2>3. QED
    BY <2>1, <2>2 DEF ProxyInv
<1>5. QED
  BY <1>1, <1>2, <1>3, <1>4 DEF ProxyNext, ProxyStop, Waiting

(* The inductive invariant holds at every step of a connection.            *)
THEOREM ProxyInvariance == ProxySpec => []ProxyInv
  BY ProxyInitInv, ProxyNextInv, PTL DEF ProxySpec

(* Every variable has its type, and the buffers their bounds.              *)
THEOREM ProxyTypeCorrect == ProxySpec => []ProxyTypeOK
<1>1. ProxyInv => ProxyTypeOK
  BY DEF ProxyInv
<1>2. QED
  BY <1>1, ProxyInvariance, PTL

(* An end that is told in order that no more will come is owed nothing.    *)
THEOREM OrderlySound == ProxySpec => []OrderlyEndIsComplete
<1>1. ProxyInv => OrderlyEndIsComplete
  <2> SUFFICES ASSUME ProxyInv, NEW d \in Dir, shut[d], peer[Source(d)] # "reset",
                      peer[Dest(d)] = "open", Dest(d) \notin broken
               PROVE  fin[d] /\ got[d] + outbuf[d] = written[d]
    BY DEF OrderlyEndIsComplete
  <2>1. fin[d] /\ inbuf[d] = 0 /\ chunk[d] = 0
    BY DEF ProxyInv, ThreadsInv
  <2>2. got[d] + outbuf[d] + chunk[d] + inbuf[d] = written[d]
    BY Counts DEF ProxyInv, Conserved, Held
  <2>3. QED
    BY <2>1, <2>2, Counts
<1>2. QED
  BY <1>1, ProxyInvariance, PTL

(* The proxy closes a connection only when both directions are through.    *)
THEOREM ClosedSound == ProxySpec => []ClosedOnNobody
<1>1. ProxyInv => ClosedOnNobody
  <2> SUFFICES ASSUME ProxyInv, conn = "closed", \A p \in End : peer[p] # "reset",
                      NEW d \in Dir
               PROVE  fin[d] /\ got[d] + outbuf[d] = written[d]
    BY DEF ClosedOnNobody
  <2>1. thread[d] = "ended" /\ broken = {}
    BY DEF ProxyInv, ClosedInv
  <2>2. fin[d] /\ inbuf[d] = 0 /\ chunk[d] = 0
    BY <2>1, DirFacts DEF ProxyInv, ThreadsInv
  <2>3. got[d] + outbuf[d] + chunk[d] + inbuf[d] = written[d]
    BY <2>1, Counts DEF ProxyInv, Conserved, Held
  <2>4. QED
    BY <2>2, <2>3, Counts
<1>2. QED
  BY <1>1, ProxyInvariance, PTL
=============================================================================
