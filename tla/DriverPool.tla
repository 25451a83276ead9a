----------------------------- MODULE DriverPool -----------------------------
(***************************************************************************)
(* The driver pool of daemon/pool.go: the goroutines that Start launches   *)
(* (manageDrivers, runSpawn, runPolicy), the client goroutines that run    *)
(* ExecuteCtx, the caller of Start, and the callers of Stop.               *)
(*                                                                         *)
(* Every goroutine is a process with a label pc[p] and a driver held[p]    *)
(* that it owns.  A step is one critical section, one atomic operation or  *)
(* one communication.  get, put, spawn, spawnErr and a request's out are   *)
(* unbuffered channels: sending and receiving is one joint step of the two *)
(* goroutines.  rescale has a buffer of one (a Boolean), so has a          *)
(* request's err.  A select is a choice among the cases that are ready.    *)
(***************************************************************************)
EXTENDS Integers, FiniteSets

CONSTANTS
    Clients,        \* goroutines that call ExecuteCtx
    Stoppers,       \* who, besides Start, may call Stop: "daemon", "giveUp"
    Drivers,        \* driver instances; one that is gone may be used again
    NoDriver,       \* "holds no driver"
    NoReq,          \* "the request is over": served, cancelled or failed
    MaxTarget,      \* the largest size a scaling policy asks for
    MaxFaults,      \* bound: driver exits and Status errors in a behaviour
    MaxParseKills   \* bound: requests killing their driver on a timeout

Callers == Clients \cup {"starter"}

Procs == Callers \cup Stoppers \cup {"manager", "spawner", "policy"}

ASSUME ClientsAssumption ==
    /\ IsFiniteSet(Clients)
    /\ Clients \cap {"starter", "daemon", "giveUp", "manager", "spawner", "policy"} = {}
    /\ Stoppers \subseteq {"daemon", "giveUp"}
    /\ NoReq \notin Callers

ASSUME DriversAssumption == IsFiniteSet(Drivers) /\ NoDriver \notin Drivers

ASSUME BoundsAssumption ==
    /\ MaxTarget \in Nat \ {0}
    /\ MaxFaults \in Nat
    /\ MaxParseKills \in Nat

VARIABLES
    pc,          \* where each goroutine is
    held,        \* the driver it owns
    ret,         \* where it continues after killDriver or setIdle
    closed,      \* poolCtx.Done() is closed
    stopped,     \* the channel stopped is closed
    rescale,     \* the buffer of the channel rescale is full
    idle,        \* drivers.idle
    all,         \* drivers.all
    up,          \* instances the factory returned whose container runs
    running,     \* the four atomic counters of the pool
    spawning,
    targetSize,
    requests,
    req,         \* the caller whose request the manager is serving
    dn,          \* scale's and waitOrScale's local variable, 0 when dead
    i,           \* scale's loop counter when scaling up, 0 when dead
    ctxDone,     \* callers in getDriver or execute whose context is done
    errc,        \* what the buffer of a request's err holds
    faults,      \* driver faults so far
    parseKills,  \* parse timeouts so far
    repeats      \* history: killDriver calls for a driver not in drivers.all

procVars    == <<pc, held, ret>>
chanVars    == <<closed, stopped, rescale>>
driverVars  == <<idle, all, up, running, repeats>>
counterVars == <<spawning, targetSize, requests>>
requestVars == <<req, ctxDone, errc>>
localVars   == <<dn, i>>
boundVars   == <<faults, parseKills>>
vars        == <<procVars, chanVars, driverVars, counterVars, requestVars,
                 localVars, boundVars>>

-----------------------------------------------------------------------------
(* Where a call returns to, by who made it.                                *)

\* getDriver failed: ExecuteCtx returns the error, Start calls Stop first.
GetFailed(p) == IF p = "starter" THEN "stop" ELSE "ready"

\* getDriver returned a driver: ExecuteCtx runs the function, Start puts the
\* driver back.
GetDone(p) == IF p = "starter" THEN "checkPut" ELSE "execute"

\* putDriver failed: Start returns the error and does not call Stop.
PutFailed(p) ==
    IF p = "starter" THEN "failed"
    ELSE IF p = "spawner" THEN "spawnFailed" ELSE "ready"

PutDone(p) ==
    IF p = "starter" THEN "started"
    ELSE IF p = "spawner" THEN "spawnDone" ELSE "ready"

Goto(p, l) == pc' = [pc EXCEPT ![p] = l]

Held(d) == \E p \in Procs : held[p] = d

Init ==
    /\ pc = [p \in Procs |->
               IF p = "manager" THEN "manage"
               ELSE IF p = "spawner" THEN "runSpawn"
               ELSE IF p = "policy" THEN "tick"
               ELSE IF p = "starter" THEN "getIdle"
               ELSE "ready"]
    /\ held = [p \in Procs |-> NoDriver]
    /\ ret = [p \in Procs |-> "ready"]
    /\ closed = FALSE /\ stopped = FALSE /\ rescale = FALSE
    /\ idle = {} /\ all = {} /\ up = {}
    /\ running = 0 /\ spawning = 0 /\ targetSize = 1 /\ requests = 0
    /\ req = NoReq /\ dn = 0 /\ i = 0
    /\ ctxDone = {} /\ errc = [c \in Callers |-> "none"]
    /\ faults = 0 /\ parseKills = 0 /\ repeats = 0

-----------------------------------------------------------------------------
(* The environment: contexts expire and driver processes exit.             *)

\* The request's context expires or is cancelled.  Only the labels at which
\* somebody looks at it next are listed.
Cancel(c) ==
    /\ pc[c] \in {"getIdle", "sendGet", "await", "execute"}
    /\ c \notin ctxDone
    /\ ctxDone' = ctxDone \cup {c}
    /\ UNCHANGED <<procVars, chanVars, driverVars, counterVars, localVars,
                   boundVars, req, errc>>

\* The process in a driver's container exits by itself.
Exit(d) ==
    /\ d \in up
    /\ faults < MaxFaults
    /\ faults' = faults + 1
    /\ up' = up \ {d}
    /\ UNCHANGED <<procVars, chanVars, counterVars, requestVars, localVars,
                   idle, all, running, repeats, parseKills>>

-----------------------------------------------------------------------------
(* What every goroutine may do with a driver it owns.                      *)

\* checkStatus, at the end of getDriver ("checkGet") and at the start of
\* putDriver ("checkPut").  A driver that is down, or whose status cannot be
\* read, is killed; getDriver then tries again, putDriver fails.
CheckStatus(p) ==
    /\ pc[p] \in {"checkGet", "checkPut"}
    /\ \/ /\ held[p] \in up
          /\ Goto(p, IF pc[p] = "checkGet" THEN GetDone(p) ELSE "put")
          /\ UNCHANGED <<ret, faults>>
       \/ /\ \/ held[p] \notin up /\ UNCHANGED faults
             \/ held[p] \in up /\ faults < MaxFaults /\ faults' = faults + 1
          /\ Goto(p, "kill")
          /\ ret' = [ret EXCEPT ![p] = IF pc[p] = "checkGet" THEN "getIdle"
                                       ELSE PutFailed(p)]
    /\ ctxDone' = IF pc[p] = "checkGet" THEN ctxDone ELSE ctxDone \ {p}
    /\ UNCHANGED <<chanVars, driverVars, counterVars, localVars, held, req,
                   errc, parseKills>>

\* Faulty variant: killDriver calls d.Stop() before it unlocks the sets, so that
\* everybody who needs a driver waits for the container.
KillDriverLocked(p) ==
    /\ pc[p] = "kill"
    /\ all' = all \ {held[p]}
    /\ idle' = idle \ {held[p]}
    /\ running' = running - 1
    /\ repeats' = IF held[p] \in all THEN repeats ELSE repeats + 1
    /\ up' = up \ {held[p]}
    /\ Goto(p, ret[p])
    /\ held' = IF ret[p] = "checkPut" THEN held
               ELSE [held EXCEPT ![p] = NoDriver]
    /\ ret' = [ret EXCEPT ![p] = "ready"]
    /\ UNCHANGED <<chanVars, counterVars, requestVars, localVars, boundVars>>

\* killDriver up to d.Stop(): the critical section.
KillDriver(p) ==
    /\ pc[p] = "kill"
    /\ all' = all \ {held[p]}
    /\ idle' = idle \ {held[p]}
    /\ running' = running - 1
    /\ repeats' = IF held[p] \in all THEN repeats ELSE repeats + 1
    /\ Goto(p, "stopDriver")
    /\ UNCHANGED <<chanVars, counterVars, requestVars, localVars, boundVars,
                   held, ret, up>>

\* Faulty variant: killDriver forgets d.Stop().
StopDriverForgotten(p) ==
    /\ pc[p] = "stopDriver"
    /\ Goto(p, ret[p])
    /\ held' = IF ret[p] = "checkPut" THEN held
               ELSE [held EXCEPT ![p] = NoDriver]
    /\ ret' = [ret EXCEPT ![p] = "ready"]
    /\ UNCHANGED <<chanVars, counterVars, requestVars, localVars, boundVars,
                   driverVars>>

\* d.Stop() at the end of killDriver.  A request that killed its driver on a
\* timeout still owns it: its deferred putDriver follows.
StopDriver(p) ==
    /\ pc[p] = "stopDriver"
    /\ up' = up \ {held[p]}
    /\ Goto(p, ret[p])
    /\ held' = IF ret[p] = "checkPut" THEN held
               ELSE [held EXCEPT ![p] = NoDriver]
    /\ ret' = [ret EXCEPT ![p] = "ready"]
    /\ UNCHANGED <<chanVars, counterVars, requestVars, localVars, boundVars,
                   idle, all, running, repeats>>

\* putDriver finds the pool closed and kills the driver it was to return.
PutClosed(p) ==
    /\ pc[p] = "put"
    /\ closed
    /\ Goto(p, "kill")
    /\ ret' = [ret EXCEPT ![p] = PutFailed(p)]
    /\ UNCHANGED <<chanVars, driverVars, counterVars, requestVars, localVars,
                   boundVars, held>>

-----------------------------------------------------------------------------
(* The callers of getDriver: clients in ExecuteCtx, and Start.             *)

\* A request arrives.  Start has returned: only then is the pool published.
ExecuteCtx(c) ==
    /\ pc[c] = "ready"
    /\ pc["starter"] = "started"
    /\ Goto(c, "getIdle")
    /\ UNCHANGED <<chanVars, driverVars, counterVars, requestVars, localVars,
                   boundVars, held, ret>>

\* getIdle up to the send on get: the context check, the fast path through
\* peekIdle, or registering as a waiting request.
GetIdle(c) ==
    /\ pc[c] = "getIdle"
    /\ \/ /\ c \in ctxDone
          /\ ctxDone' = ctxDone \ {c}
          /\ Goto(c, GetFailed(c))
          /\ UNCHANGED <<held, idle, requests>>
       \/ /\ c \notin ctxDone
          /\ \E d \in idle :
                /\ idle' = idle \ {d}
                /\ held' = [held EXCEPT ![c] = d]
          /\ Goto(c, "checkGet")
          /\ UNCHANGED <<requests, ctxDone>>
       \/ /\ c \notin ctxDone
          /\ idle = {}
          /\ requests' = requests + 1
          /\ Goto(c, "sendGet")
          /\ UNCHANGED <<held, idle, ctxDone>>
    /\ UNCHANGED <<chanVars, localVars, boundVars, ret, all, up, running,
                   repeats, spawning, targetSize, req, errc>>

\* Faulty variants: no deferred cancel; no case for the closing pool.
LeaveGetIdleUncancelled(c) ==
    /\ \/ pc[c] = "sendGet" /\ (c \in ctxDone \/ closed)
       \/ pc[c] = "await" /\ (c \in ctxDone \/ closed \/ errc[c] # "none")
    /\ Goto(c, GetFailed(c))
    /\ requests' = requests - 1
    /\ errc' = [errc EXCEPT ![c] = "none"]
    /\ ctxDone' = ctxDone \ {c}
    /\ UNCHANGED <<chanVars, driverVars, localVars, boundVars, held, ret,
                   spawning, targetSize, req>>

LeaveGetIdleNoStop(c) ==
    /\ \/ pc[c] = "sendGet" /\ c \in ctxDone
       \/ pc[c] = "await" /\ (c \in ctxDone \/ errc[c] # "none")
    /\ Goto(c, GetFailed(c))
    /\ requests' = requests - 1
    /\ errc' = [errc EXCEPT ![c] = "none"]
    /\ req' = IF req = c THEN NoReq ELSE req
    /\ ctxDone' = ctxDone \ {c}
    /\ UNCHANGED <<chanVars, driverVars, localVars, boundVars, held, ret,
                   spawning, targetSize>>

\* getIdle returns without a driver: the context is done, the manager sent an
\* error, or the pool is closed.  Its deferred cancel tells the manager.
LeaveGetIdle(c) ==
    /\ \/ pc[c] = "sendGet" /\ (c \in ctxDone \/ closed)
       \/ pc[c] = "await" /\ (c \in ctxDone \/ closed \/ errc[c] # "none")
    /\ Goto(c, GetFailed(c))
    /\ requests' = requests - 1
    /\ errc' = [errc EXCEPT ![c] = "none"]
    /\ req' = IF req = c THEN NoReq ELSE req
    /\ ctxDone' = ctxDone \ {c}
    /\ UNCHANGED <<chanVars, driverVars, localVars, boundVars, held, ret,
                   spawning, targetSize>>

\* The function given to ExecuteCtx returns; the deferred putDriver follows.
Execute(c) ==
    /\ pc[c] = "execute"
    /\ Goto(c, "checkPut")
    /\ UNCHANGED <<chanVars, driverVars, counterVars, requestVars, localVars,
                   boundVars, held, ret>>

\* parseV1 and parseV2 give up on a driver that does not answer, and kill it.
ParseTimeout(c) ==
    /\ pc[c] = "execute"
    /\ c \in ctxDone
    /\ parseKills < MaxParseKills
    /\ parseKills' = parseKills + 1
    /\ Goto(c, "kill")
    /\ ret' = [ret EXCEPT ![c] = "checkPut"]
    /\ UNCHANGED <<chanVars, driverVars, counterVars, requestVars, localVars,
                   held, faults>>

-----------------------------------------------------------------------------
(* runSpawn and spawnOne.                                                  *)

SpawnerStop ==
    /\ pc["spawner"] = "runSpawn"
    /\ closed
    /\ Goto("spawner", "exited")
    /\ UNCHANGED <<chanVars, driverVars, counterVars, requestVars, localVars,
                   boundVars, held, ret>>

\* spawnOne counts itself in, and its deferred call counts it out.
SpawnCount ==
    /\ \/ /\ pc["spawner"] = "spawnOne"
          /\ spawning' = spawning + 1
          /\ Goto("spawner", "factory")
       \/ /\ pc["spawner"] = "spawnDone"
          /\ spawning' = spawning - 1
          /\ Goto("spawner", "runSpawn")
    /\ UNCHANGED <<chanVars, driverVars, requestVars, localVars, boundVars,
                   held, ret, targetSize, requests>>

\* The factory (Daemon.newDriverPool's closure) starts a new instance or fails.
Factory ==
    /\ pc["spawner"] = "factory"
    /\ \/ \E d \in Drivers \ (up \cup all \cup idle) :
             /\ ~Held(d)
             /\ up' = up \cup {d}
             /\ held' = [held EXCEPT !["spawner"] = d]
             /\ Goto("spawner", "register")
       \/ Goto("spawner", "spawnFailed") /\ UNCHANGED <<up, held>>
    /\ UNCHANGED <<chanVars, counterVars, requestVars, localVars, boundVars,
                   ret, idle, all, running, repeats>>

\* Faulty variant: the counter is not kept beside drivers.all.
RegisterUncounted ==
    /\ pc["spawner"] = "register"
    /\ all' = all \cup {held["spawner"]}
    /\ Goto("spawner", "checkPut")
    /\ UNCHANGED <<chanVars, counterVars, requestVars, localVars, boundVars,
                   held, ret, idle, up, running, repeats>>

\* spawnOne's critical section, followed by putDriver.
Register ==
    /\ pc["spawner"] = "register"
    /\ all' = all \cup {held["spawner"]}
    /\ running' = running + 1
    /\ Goto("spawner", "checkPut")
    /\ UNCHANGED <<chanVars, counterVars, requestVars, localVars, boundVars,
                   held, ret, idle, up, repeats>>

\* After a failure: return when the pool is closed, try again on a tick, or,
\* when the back-off is exhausted (after fifteen minutes, so at most once
\* here), close the pool in a new goroutine.
\* (The fourth case of the select, sending on spawnErr, is RecvSpawnErr.)
SpawnFailed ==
    /\ pc["spawner"] = "spawnFailed"
    /\ \/ closed /\ Goto("spawner", "spawnDone")
       \/ Goto("spawner", "factory")
       \/ /\ "giveUp" \in Stoppers
          /\ pc["giveUp"] = "ready"
          /\ pc' = [pc EXCEPT !["spawner"] = "spawnDone", !["giveUp"] = "stop"]
    /\ UNCHANGED <<chanVars, driverVars, counterVars, requestVars, localVars,
                   boundVars, held, ret>>

-----------------------------------------------------------------------------
(* runPolicy: the policy's answer t is any size up to MaxTarget.           *)

PolicyStop ==
    /\ pc["policy"] = "tick"
    /\ closed
    /\ Goto("policy", "exited")
    /\ UNCHANGED <<chanVars, driverVars, counterVars, requestVars, localVars,
                   boundVars, held, ret>>

\* Faulty variant: the policy's answer is not clamped.
PolicyTickUnclamped(t) ==
    /\ pc["policy"] = "tick"
    /\ targetSize' = t
    /\ Goto("policy", IF targetSize # t THEN "signal" ELSE "tick")
    /\ UNCHANGED <<chanVars, driverVars, requestVars, localVars, boundVars,
                   held, ret, spawning, requests>>

\* A tick: evaluate the policy, clamp its answer and swap targetSize; a change
\* is signalled next.
PolicyTick(t) ==
    LET target == IF t < 1 THEN 1 ELSE t
    IN  /\ pc["policy"] = "tick"
        /\ targetSize' = target
        /\ Goto("policy", IF targetSize # target THEN "signal" ELSE "tick")
        /\ UNCHANGED <<chanVars, driverVars, requestVars, localVars, boundVars,
                       held, ret, spawning, requests>>

\* A send on rescale that does not block.
SignalRescale ==
    /\ pc["policy"] = "signal"
    /\ rescale' = TRUE
    /\ Goto("policy", "tick")
    /\ UNCHANGED <<driverVars, counterVars, requestVars, localVars, boundVars,
                   held, ret, closed, stopped>>

-----------------------------------------------------------------------------
(* Stop, called by the daemon, by Start and by spawnOne.                   *)

\* The daemon removes the pool, or stops.
CallStop ==
    /\ "daemon" \in Stoppers
    /\ pc["daemon"] = "ready"
    /\ pc["starter"] = "started"
    /\ Goto("daemon", "stop")
    /\ UNCHANGED <<chanVars, driverVars, counterVars, requestVars, localVars,
                   boundVars, held, ret>>

\* Stop's select: somebody closed the pool already, or this caller will.
StopSelect(s) ==
    /\ pc[s] = "stop"
    /\ Goto(s, IF closed THEN "waitStopped" ELSE "cancelPool")
    /\ UNCHANGED <<chanVars, driverVars, counterVars, requestVars, localVars,
                   boundVars, held, ret>>

\* dp.stop()
CancelPool(s) ==
    /\ pc[s] = "cancelPool"
    /\ closed' = TRUE
    /\ Goto(s, "wgWait")
    /\ UNCHANGED <<driverVars, counterVars, requestVars, localVars, boundVars,
                   held, ret, stopped, rescale>>

GoroutinesExited ==
    \A p \in {"manager", "spawner", "policy"} : pc[p] = "exited"

\* wg.Wait() and <-dp.stopped.
StopWait(s) ==
    /\ \/ pc[s] = "wgWait" /\ GoroutinesExited /\ Goto(s, "waitStopped")
       \/ /\ pc[s] = "waitStopped"
          /\ stopped
          /\ Goto(s, IF s = "starter" THEN "failed" ELSE "stopReturned")
    /\ UNCHANGED <<chanVars, driverVars, counterVars, requestVars, localVars,
                   boundVars, held, ret>>

-----------------------------------------------------------------------------
(* The manager goroutine.  Its communications first: each is a joint step  *)
(* with the goroutine at the other end of the channel, and takes the       *)
(* manager to label next.                                                  *)

Manager == pc["manager"]

Putters == {p \in Callers \cup {"spawner"} : pc[p] = "put"}

\* d := <-dp.put: the driver changes hands.
RecvPut(next) ==
    \E p \in Putters :
        /\ held' = [held EXCEPT !["manager"] = held[p], ![p] = NoDriver]
        /\ pc' = [pc EXCEPT ![p] = PutDone(p), !["manager"] = next]

\* req := <-dp.get
RecvGet(next) ==
    \E c \in Callers :
        /\ pc[c] = "sendGet"
        /\ req' = c
        /\ pc' = [pc EXCEPT ![c] = "await", !["manager"] = next]

\* dp.spawn <- struct{}{}
SendSpawn(next) ==
    /\ pc["spawner"] = "runSpawn"
    /\ pc' = [pc EXCEPT !["spawner"] = "spawnOne", !["manager"] = next]

\* err := <-dp.spawnErr: the spawner tries again.
RecvSpawnErr(next) ==
    /\ pc["spawner"] = "spawnFailed"
    /\ pc' = [pc EXCEPT !["spawner"] = "factory", !["manager"] = next]

\* Faulty variant: the error is dropped.
SendErrDropped(e) == UNCHANGED errc /\ req' = NoReq

\* req.err <- e: the buffer of one never blocks; a caller that has left does
\* not read it.
SendErr(e) ==
    /\ errc' = IF req = NoReq THEN errc ELSE [errc EXCEPT ![req] = e]
    /\ req' = NoReq

\* <-req.cancel is ready.
Cancelled == req = NoReq \/ req \in ctxDone

\* Faulty variant: the driver stays in the idle set.
TakeIdleKept(d) ==
    /\ d \in idle
    /\ held' = [held EXCEPT !["manager"] = d]
    /\ UNCHANGED idle

\* peekIdle by the manager; the driver becomes the manager's.
TakeIdle(d) ==
    /\ d \in idle
    /\ idle' = idle \ {d}
    /\ held' = [held EXCEPT !["manager"] = d]

\* What no case of the manager's selects changes.
selectRest == <<driverVars, counterVars, boundVars, closed, stopped, ctxDone>>

\* manageDrivers: the four cases of its select.
ManagePut ==
    /\ Manager = "manage"
    /\ RecvPut("setIdle")
    /\ ret' = [ret EXCEPT !["manager"] = "manage"]
    /\ UNCHANGED <<selectRest, req, errc, rescale, localVars>>

ManageGet ==
    /\ Manager = "manage"
    /\ RecvGet("waitOrScale")
    /\ UNCHANGED <<selectRest, held, ret, errc, rescale, localVars>>

ManageRescale ==
    /\ Manager = "manage"
    /\ rescale
    /\ rescale' = FALSE
    /\ Goto("manager", "scale")
    /\ UNCHANGED <<selectRest, held, ret, req, errc, localVars>>

ManageStop ==
    /\ Manager = "manage"
    /\ closed
    /\ Goto("manager", "drainIdle")
    /\ UNCHANGED <<selectRest, held, ret, req, errc, rescale, localVars>>

SetIdle ==
    /\ Manager = "setIdle"
    /\ idle' = idle \cup {held["manager"]}
    /\ held' = [held EXCEPT !["manager"] = NoDriver]
    /\ Goto("manager", ret["manager"])
    /\ ret' = [ret EXCEPT !["manager"] = "ready"]
    /\ UNCHANGED <<chanVars, counterVars, requestVars, localVars, boundVars,
                   all, up, running, repeats>>

\* Faulty variant: a difference one too large.
ScaleDiffOffByOne ==
    /\ Manager \in {"waitOrScale", "scale", "upDiff"}
    /\ dn' = 1 - running
    /\ Goto("manager", [waitOrScale |-> "waitTarget", scale |-> "scaleTarget",
                        upDiff |-> "upTarget"][Manager])
    /\ UNCHANGED <<chanVars, driverVars, counterVars, requestVars, boundVars,
                   held, ret, i>>

\* scaleDiff, called at the start of waitOrScale's loop, at the start of scale
\* and when scale receives a driver: the load of running.  The caller goes on
\* with the load of targetSize.
ScaleDiff ==
    /\ Manager \in {"waitOrScale", "scale", "upDiff"}
    /\ dn' = -running
    /\ Goto("manager", [waitOrScale |-> "waitTarget", scale |-> "scaleTarget",
                        upDiff |-> "upTarget"][Manager])
    /\ UNCHANGED <<chanVars, driverVars, counterVars, requestVars, boundVars,
                   held, ret, i>>

\* waitOrScale, first statement of the loop.
WaitOrScale ==
    /\ Manager = "waitTarget"
    /\ dn' = dn + targetSize
    /\ Goto("manager", "checkRunning")
    /\ UNCHANGED <<chanVars, driverVars, counterVars, requestVars, boundVars,
                   held, ret, i>>

\* waitOrScale's test for a pool without instances; the loads of running and
\* spawning are one step.
CheckRunning ==
    /\ Manager = "checkRunning"
    /\ \/ /\ running + spawning = 0 /\ dn < 0
          /\ SendErr("poolClosed")
          /\ Goto("manager", "manage")
          /\ dn' = 0
       \/ /\ ~(running + spawning = 0 /\ dn < 0)
          /\ dn' = IF running + spawning = 0 /\ dn = 0 THEN 1 ELSE dn
          /\ Goto("manager", "peekIdle")
          /\ UNCHANGED <<req, errc>>
    /\ UNCHANGED <<chanVars, driverVars, counterVars, boundVars, held, ret,
                   i, ctxDone>>

\* waitOrScale's peekIdle and the branch after it.
PeekIdle ==
    /\ Manager = "peekIdle"
    /\ \/ /\ \E d \in idle : TakeIdle(d)
          /\ dn' = 0
          /\ Goto("manager", "returnDriver")
       \/ /\ idle = {} /\ dn > 0
          /\ dn' = 0
          /\ Goto("manager", "scaleUp")
          /\ UNCHANGED <<idle, held>>
       \/ /\ idle = {} /\ dn <= 0
          /\ Goto("manager", "scaleDown")
          /\ UNCHANGED <<idle, held, dn>>
    /\ UNCHANGED <<chanVars, counterVars, requestVars, boundVars, ret, all, up,
                   running, repeats, i>>

\* returnDriver: the request is cancelled and the driver becomes idle, or the
\* caller receives it (and stops counting as a waiting request).
ReturnDriver ==
    /\ Manager = "returnDriver"
    /\ req' = NoReq
    /\ \/ /\ Cancelled
          /\ Goto("manager", "setIdle")
          /\ ret' = [ret EXCEPT !["manager"] = "manage"]
          /\ UNCHANGED <<held, requests>>
       \/ /\ req # NoReq /\ pc[req] = "await"
          /\ held' = [held EXCEPT ![req] = held["manager"], !["manager"] = NoDriver]
          /\ pc' = [pc EXCEPT ![req] = "checkGet", !["manager"] = "manage"]
          /\ requests' = requests - 1
          /\ UNCHANGED ret
    /\ UNCHANGED <<chanVars, driverVars, localVars, boundVars, ctxDone, errc,
                   spawning, targetSize>>

\* scaleUp: the first select ("scaleUp") may ask for an instance, the second
\* ("scaleUpWait") waits for it.
ScaleUpPut ==
    /\ Manager \in {"scaleUp", "scaleUpWait"}
    /\ RecvPut("returnDriver")
    /\ UNCHANGED <<selectRest, ret, req, errc, rescale, localVars>>

ScaleUpSpawn ==
    /\ Manager = "scaleUp"
    /\ SendSpawn("scaleUpWait")
    /\ UNCHANGED <<selectRest, held, ret, req, errc, rescale, localVars>>

\* A spawn error ends the request, in scaleUp and in scaleDown.
RequestFailed ==
    /\ Manager \in {"scaleUp", "scaleUpWait", "scaleDown"}
    /\ RecvSpawnErr("manage")
    /\ SendErr("spawnErr")
    /\ dn' = 0
    /\ UNCHANGED <<selectRest, held, ret, rescale, i>>

\* So does its cancellation.
RequestCancelled ==
    /\ Manager \in {"scaleUp", "scaleUpWait", "scaleDown"}
    /\ Cancelled
    /\ req' = NoReq
    /\ dn' = 0
    /\ Goto("manager", "manage")
    /\ UNCHANGED <<selectRest, held, ret, errc, rescale, i>>

\* scaleDown: a driver comes back.  With exactly the right number of instances
\* it serves the request, otherwise it is killed.
ScaleDownPut ==
    /\ Manager = "scaleDown"
    /\ \/ dn = 0 /\ RecvPut("returnDriver") /\ UNCHANGED ret
       \/ /\ dn # 0
          /\ RecvPut("kill")
          /\ ret' = [ret EXCEPT !["manager"] = "waitOrScale"]
    /\ dn' = 0
    /\ UNCHANGED <<selectRest, req, errc, rescale, i>>

\* scaleDown: the target has changed.
ScaleDownRescale ==
    /\ Manager = "scaleDown"
    /\ rescale
    /\ rescale' = FALSE
    /\ dn' = 0
    /\ Goto("manager", "waitOrScale")
    /\ UNCHANGED <<selectRest, held, ret, req, errc, i>>

\* scale: how far the pool is from its target.  The loop that scales down
\* counts dn up to 0, the loop that scales up counts i up to dn.
Scale ==
    /\ Manager = "scaleTarget"
    /\ dn' = dn + targetSize
    /\ i' = 0
    /\ Goto("manager", IF dn + targetSize = 0 THEN "manage"
                       ELSE IF dn + targetSize < 0 THEN "down" ELSE "up")
    /\ UNCHANGED <<chanVars, driverVars, counterVars, requestVars, boundVars,
                   held, ret>>

\* scale returns.
LeaveScale == dn' = 0 /\ i' = 0

\* rescaleLater: a request arrives while the manager scales; it is served first
\* and a signal is left to go on scaling.
RescaleLater ==
    /\ Manager \in {"down", "downWait", "up"}
    /\ RecvGet("waitOrScale")
    /\ rescale' = TRUE
    /\ LeaveScale
    /\ UNCHANGED <<selectRest, held, ret, errc>>

\* scale sees the pool closing.
ScaleStop ==
    /\ Manager \in {"down", "downWait", "up", "upWait"}
    /\ closed
    /\ Goto("manager", "manage")
    /\ LeaveScale
    /\ UNCHANGED <<selectRest, held, ret, req, errc, rescale>>

\* One more driver is killed by the loop that scales down.
CountDown ==
    /\ dn' = dn + 1
    /\ ret' = [ret EXCEPT !["manager"] = IF dn + 1 = 0 THEN "manage" ELSE "down"]

\* scale down: a driver comes back, and is killed.  The first select ("down")
\* has a default case, the second one ("downWait") blocks.
DownPut ==
    /\ Manager \in {"down", "downWait"}
    /\ RecvPut("kill")
    /\ CountDown
    /\ UNCHANGED <<selectRest, req, errc, rescale, i>>

\* The default case, which a closed pool rules out.  A goroutine at the label of
\* its send may still be on the way to the channel, so it does not.
DownDefault ==
    /\ Manager = "down"
    /\ ~closed
    /\ Goto("manager", "downPeek")
    /\ UNCHANGED <<selectRest, held, ret, req, errc, rescale, localVars>>

\* scale down: kill an idle driver, or wait for one to come back.
DownPeek ==
    /\ Manager = "downPeek"
    /\ \/ (\E d \in idle : TakeIdle(d)) /\ Goto("manager", "kill") /\ CountDown
       \/ /\ idle = {}
          /\ Goto("manager", "downWait")
          /\ UNCHANGED <<idle, held, ret, dn>>
    /\ UNCHANGED <<chanVars, counterVars, requestVars, boundVars, all, up,
                   running, repeats, i>>

\* scale up: ask for an instance.
UpSpawn ==
    /\ Manager = "up"
    /\ SendSpawn("upWait")
    /\ UNCHANGED <<selectRest, held, ret, req, errc, rescale, localVars>>

\* scale up: a driver comes back instead.  It does not count, but the
\* difference is computed again.
UpPut ==
    /\ Manager = "up"
    /\ RecvPut("setIdle")
    /\ ret' = [ret EXCEPT !["manager"] = "upDiff"]
    /\ dn' = 0
    /\ UNCHANGED <<selectRest, req, errc, rescale, i>>

UpDiff ==
    /\ Manager = "upTarget"
    /\ \/ /\ i < dn + targetSize
          /\ Goto("manager", "up")
          /\ dn' = dn + targetSize
          /\ UNCHANGED i
       \/ i >= dn + targetSize /\ Goto("manager", "manage") /\ LeaveScale
    /\ UNCHANGED <<chanVars, driverVars, counterVars, requestVars, boundVars,
                   held, ret>>

\* scale up: the inner select, after the request to spawn was accepted, gets a
\* driver or an error; then the loop goes on or ends.
UpWait ==
    LET more == i + 1 < dn
        next == IF more THEN "up" ELSE "manage"
    IN  /\ Manager = "upWait"
        /\ \/ RecvPut("setIdle") /\ ret' = [ret EXCEPT !["manager"] = next]
           \/ RecvSpawnErr(next) /\ UNCHANGED <<held, ret>>
        /\ dn' = IF more THEN dn ELSE 0
        /\ i' = IF more THEN i + 1 ELSE 0
        /\ UNCHANGED <<selectRest, req, errc, rescale>>

\* Faulty variant: drain only waits for drivers that come back.
DrainIdleSkipped ==
    /\ Manager = "drainIdle"
    /\ Goto("manager", "drainLoop")
    /\ UNCHANGED <<selectRest, held, ret, req, errc, rescale, localVars>>

\* drain, the first loop: kill the idle drivers.
DrainIdle ==
    /\ Manager = "drainIdle"
    /\ \/ /\ \E d \in idle : TakeIdle(d)
          /\ Goto("manager", "kill")
          /\ ret' = [ret EXCEPT !["manager"] = "drainIdle"]
       \/ idle = {} /\ Goto("manager", "drainLoop") /\ UNCHANGED <<idle, held, ret>>
    /\ UNCHANGED <<chanVars, counterVars, requestVars, localVars, boundVars,
                   all, up, running, repeats>>

\* drain, the second loop: its condition ...
DrainRunning ==
    /\ Manager = "drainLoop"
    /\ running > 0
    /\ Goto("manager", "drainRecv")
    /\ UNCHANGED <<selectRest, held, ret, req, errc, rescale, localVars>>

\* ... its body ...
DrainPut ==
    /\ Manager = "drainRecv"
    /\ RecvPut("kill")
    /\ ret' = [ret EXCEPT !["manager"] = "drainLoop"]
    /\ UNCHANGED <<selectRest, req, errc, rescale, localVars>>

\* Faulty variant: drain does not wait.
DrainDoneEarly ==
    /\ Manager = "drainLoop"
    /\ targetSize' = 0
    /\ Goto("manager", "exited")
    /\ UNCHANGED <<chanVars, driverVars, requestVars, localVars, boundVars,
                   held, ret, spawning, requests>>

\* ... and the deferred statement of drain, and wg.Done().
DrainDone ==
    /\ Manager = "drainLoop"
    /\ running <= 0
    /\ targetSize' = 0
    /\ Goto("manager", "exited")
    /\ UNCHANGED <<chanVars, driverVars, requestVars, localVars, boundVars,
                   held, ret, spawning, requests>>

\* close(dp.stopped), after wg.Done().
CloseStopped ==
    /\ Manager = "exited"
    /\ ~stopped
    /\ stopped' = TRUE
    /\ UNCHANGED <<procVars, driverVars, counterVars, requestVars, localVars,
                   boundVars, closed, rescale>>

-----------------------------------------------------------------------------
CallerStep(c) ==
    \/ GetIdle(c) \/ LeaveGetIdle(c) \/ CheckStatus(c) \/ KillDriver(c)
    \/ StopDriver(c) \/ PutClosed(c)

ClientStep(c) == CallerStep(c) \/ Execute(c) \/ ParseTimeout(c)

SpawnerStep ==
    \/ SpawnerStop \/ SpawnCount \/ Factory \/ Register \/ SpawnFailed
    \/ CheckStatus("spawner") \/ KillDriver("spawner")
    \/ StopDriver("spawner") \/ PutClosed("spawner")

PolicyStep ==
    PolicyStop \/ SignalRescale \/ \E t \in 0..MaxTarget : PolicyTick(t)

StopperStep(s) == StopSelect(s) \/ CancelPool(s) \/ StopWait(s)

ManagerStep ==
    \/ ManagePut \/ ManageGet \/ ManageRescale \/ ManageStop \/ SetIdle
    \/ ScaleDiff \/ WaitOrScale \/ CheckRunning \/ PeekIdle \/ ReturnDriver
    \/ ScaleUpPut \/ ScaleUpSpawn \/ RequestFailed \/ RequestCancelled
    \/ ScaleDownPut \/ ScaleDownRescale
    \/ Scale \/ RescaleLater \/ ScaleStop \/ DownPut \/ DownDefault \/ DownPeek
    \/ UpSpawn \/ UpPut \/ UpDiff \/ UpWait
    \/ DrainIdle \/ DrainRunning \/ DrainPut \/ DrainDone \/ CloseStopped
    \/ KillDriver("manager") \/ StopDriver("manager")

Next ==
    \/ \E c \in Clients : ExecuteCtx(c) \/ ClientStep(c)
    \/ CallerStep("starter")
    \/ \E c \in Callers : Cancel(c)
    \/ \E d \in Drivers : Exit(d)
    \/ CallStop
    \/ \E s \in Stoppers \cup {"starter"} : StopperStep(s)
    \/ SpawnerStep
    \/ PolicyStep
    \/ ManagerStep

Spec == Init /\ [][Next]_vars

(* Fairness.  Every goroutine that can run runs.  A select picks among the *)
(* ready cases at random, and the goroutines blocked on a channel are      *)
(* served in order, so a case that is ready again and again is taken in    *)
(* the end.  The function given to ExecuteCtx returns.  Nothing is assumed *)
(* of contexts, of the factory's success or of the policy's answers.       *)

\* The manager's joint step with p, which leaves the send it is blocked in.
Serves(p) == ManagerStep /\ pc[p] \in {"sendGet", "put", "spawnFailed"} /\ pc'[p] # pc[p]

Fairness ==
    /\ \A c \in Clients : WF_vars(ClientStep(c))
    /\ WF_vars(CallerStep("starter"))
    /\ \A s \in Stoppers \cup {"starter"} : WF_vars(StopperStep(s))
    /\ WF_vars(SpawnerStep)
    /\ SF_vars(SpawnFailed /\ closed /\ pc'["spawner"] = "spawnDone")
    /\ SF_vars(PolicyStop)
    /\ WF_vars(SignalRescale)
    /\ WF_vars(ManagerStep)
    /\ SF_vars(ManageStop)
    /\ \A p \in Callers \cup {"spawner"} : SF_vars(Serves(p))

FairSpec == Spec /\ Fairness
-----------------------------------------------------------------------------
Labels ==
    {"ready", "getIdle", "sendGet", "await", "checkGet", "execute", "checkPut",
     "put", "kill", "stopDriver", "started", "failed",
     "stop", "cancelPool", "wgWait", "waitStopped", "stopReturned",
     "runSpawn", "spawnOne", "factory", "register", "spawnFailed", "spawnDone",
     "tick", "signal",
     "manage", "setIdle", "waitOrScale", "waitTarget", "checkRunning",
     "peekIdle", "returnDriver", "scaleUp", "scaleUpWait", "scaleDown",
     "scale", "scaleTarget", "down", "downPeek", "downWait",
     "up", "upDiff", "upTarget", "upWait",
     "drainIdle", "drainLoop", "drainRecv", "exited"}

\* TypeOK: the state is well formed; the target is 0 only once drain has set it.
TypeOK ==
    /\ pc \in [Procs -> Labels]
    /\ held \in [Procs -> Drivers \cup {NoDriver}]
    /\ ret \in [Procs -> Labels]
    /\ closed \in BOOLEAN /\ stopped \in BOOLEAN /\ rescale \in BOOLEAN
    /\ idle \subseteq Drivers /\ all \subseteq Drivers /\ up \subseteq Drivers
    /\ running \in Int /\ spawning \in Int /\ requests \in Int
    /\ targetSize \in 0..MaxTarget
    /\ targetSize = 0 => Manager = "exited"
    /\ req \in Callers \cup {NoReq}
    /\ dn \in Int /\ i \in Int
    /\ ctxDone \subseteq Callers
    /\ errc \in [Callers -> {"none", "spawnErr", "poolClosed"}]
    /\ faults \in 0..MaxFaults /\ parseKills \in 0..MaxParseKills
    /\ repeats \in Nat

\* "Each driver does not get concurrent requests" (DriverPool): a driver has at
\* most one owner, a goroutine that got it from peekIdle, from a channel or
\* from the factory, or the idle set, whoever takes, returns or kills drivers
\* at the same time.
Exclusive ==
    /\ \A p, q \in Procs : p # q /\ held[p] = held[q] => held[p] = NoDriver
    /\ \A p \in Procs : held[p] \notin idle

\* No driver is lost on the way between goroutines: one that is registered in
\* drivers.all, or whose container runs, is idle or owned by a goroutine that
\* will return or kill it; and every idle driver is registered.
Accounted ==
    /\ idle \subseteq all
    /\ \A d \in all \cup up : d \in idle \/ Held(d)

\* The counter running ("synced with len(drivers.all)") and that set, which
\* spawnOne and killDriver change together, differ by exactly the killDriver calls for a driver that
\* was not registered any more (the second kill after a parse timeout).
RunningCount == running = Cardinality(all) - repeats

\* The pool never has more instances than the largest target its policy set,
\* one more for each repeated kill: the difference the manager scales by is
\* stale when it is used, and spawnOne registers concurrently.
InstanceLimit == Cardinality(all) <= MaxTarget + repeats

\* The manager forgets no request: a caller that waits for an answer is the one
\* being served, or has an error to read, or a reason to stop waiting.
NoForgottenRequest ==
    \A c \in Callers :
        pc[c] = "await" => \/ req = c
                           \/ errc[c] # "none"
                           \/ c \in ctxDone \/ closed

\* What Stop's wg.Wait() is for: when manager, spawner and policy goroutines
\* have returned, nothing is idle and nothing is registered, up to repeated
\* kills, which make drain return too early.
ExitedClean == GoroutinesExited => idle = {} /\ Cardinality(all) <= repeats

\* When the pool is stopped, every container that still runs is owned by a
\* goroutine other than the manager, which is about to stop it.
DrainedWhenStopped ==
    stopped => /\ idle = {}
               /\ \A d \in up : \E p \in Procs \ {"manager"} : held[p] = d

\* Every call of ExecuteCtx returns: whatever the scaling does, the caller gets
\* a driver or an error, and gives the driver back.  Nobody waits forever for
\* the manager, for the spawner or for another client.
CallReturns ==
    \A c \in Clients : pc[c] = "getIdle" ~> pc[c] = "ready"

-----------------------------------------------------------------------------
(* What comments, documents and tests say and the code does not do.        *)

StopReturned == \E s \in Stoppers : pc[s] = "stopReturned"

\* README, BBLFSHD_MAX_DRIVER_INSTANCES: "maximal number of driver instances
\* for each language".
MaxInstances == Cardinality(all) <= MaxTarget

\* pool.go, ErrPoolClosed: "returned if the pool was already closed or is being
\* closed".
PoolClosedMeansClosed == \A c \in Callers : errc[c] = "poolClosed" => closed

\* pool.go, Stop: "Stop stop the driver pool, including all its underlying
\* driver instances".
ContainersStopped == StopReturned => up = {}

\* pool.go, manageDrivers: "It will accept all client requests for drivers if
\* there are no drivers in the idle state".
RequestAccepted ==
    \A c \in Clients : pc[c] = "sendGet" ~> pc[c] # "sendGet"

\* pool.go, manageDrivers: "It will also take care of draining instances when
\* the pool closes"; stopped "is closed when the pool stops".
StopCompletes == closed ~> stopped
=============================================================================
