---------------------------- MODULE DriverPoolInv ----------------------------
(***************************************************************************)
(* The inductive invariant of DriverPool, in layers: where each goroutine  *)
(* can be and when it owns a driver, who owns which driver, the accounting *)
(* of drivers, the requests in flight, the limit on the number of          *)
(* instances, and what drain leaves behind.                                *)
(***************************************************************************)
EXTENDS DriverPool

\* Labels at which a goroutine owns a driver.
HoldLabels ==
    {"checkGet", "execute", "checkPut", "put", "kill", "stopDriver",
     "register", "setIdle", "returnDriver"}

Killing(p) == pc[p] \in {"kill", "stopDriver"}

CallerLabels ==
    {"ready", "getIdle", "sendGet", "await", "checkGet", "execute", "checkPut",
     "put", "kill", "stopDriver", "started", "failed", "stop", "cancelPool",
     "wgWait", "waitStopped"}

SpawnerLabels ==
    {"runSpawn", "spawnOne", "factory", "register", "checkPut", "put", "kill",
     "stopDriver", "spawnFailed", "spawnDone", "exited"}

ManagerLabels ==
    {"manage", "setIdle", "waitOrScale", "waitTarget", "checkRunning",
     "peekIdle", "returnDriver", "scaleUp", "scaleUpWait", "scaleDown",
     "scale", "scaleTarget", "down", "downPeek", "downWait",
     "up", "upDiff", "upTarget", "upWait",
     "drainIdle", "drainLoop", "drainRecv", "kill", "stopDriver", "exited"}

OtherLabels ==
    {"ready", "stop", "cancelPool", "wgWait", "waitStopped", "stopReturned",
     "tick", "signal", "exited"}

\* Where each goroutine can be, and where it continues after killDriver or
\* setIdle.
Places ==
    /\ \A c \in Callers :
          /\ pc[c] \in CallerLabels
          /\ Killing(c) => ret[c] \in {"ready", "getIdle", "checkPut", "failed"}
    /\ pc["spawner"] \in SpawnerLabels
    /\ Killing("spawner") => ret["spawner"] = "spawnFailed"
    /\ pc["manager"] \in ManagerLabels
    /\ Killing("manager") => ret["manager"] \in {"manage", "waitOrScale", "down", "drainIdle", "drainLoop"}
    /\ Manager = "setIdle" => ret["manager"] \in {"manage", "up", "upDiff"}
    /\ \A p \in Stoppers \cup {"policy"} : pc[p] \in OtherLabels

\* A goroutine owns a driver exactly where the code has one in hand.
Holding == \A p \in Procs : held[p] = NoDriver <=> pc[p] \notin HoldLabels

\* A driver in hand is registered, except before spawnOne registers it, while
\* killDriver stops it, and when a request that killed it puts it back; in the
\* last case it is down.
Registration ==
    /\ \A p \in Procs :
          held[p] # NoDriver /\ held[p] \notin all =>
              \/ pc[p] \in {"register", "stopDriver"}
              \/ pc[p] \in {"checkPut", "kill"} /\ held[p] \notin up
    /\ \A p \in Procs : pc[p] \in {"register", "stopDriver"} => held[p] \notin all

\* Who owns which driver.
Ownership ==
    /\ TypeOK /\ Places /\ Holding
    /\ Registration /\ Exclusive /\ Accounted /\ RunningCount

\* The manager is inside waitOrScale.
Serving ==
    \/ Manager \in {"waitOrScale", "waitTarget", "checkRunning", "peekIdle",
                    "returnDriver", "scaleUp", "scaleUpWait", "scaleDown"}
    \/ Killing("manager") /\ ret["manager"] = "waitOrScale"

\* The request being served belongs to a caller that waits for its answer.
Requests ==
    /\ req # NoReq => Serving /\ pc[req] = "await" /\ errc[req] = "none"
    /\ \A c \in Callers : errc[c] # "none" => pc[c] = "await"
    /\ NoForgottenRequest

\* 1 while spawnOne has a registered instance that the manager has not received.
Registered == IF pc["spawner"] \in {"checkPut", "put", "kill"} THEN 1 ELSE 0

\* The manager is in the loop of scale that scales up.
ScalingUp ==
    \/ Manager \in {"up", "upWait"}
    \/ Manager = "setIdle" /\ ret["manager"] = "up"

\* There is room for the instance being spawned, and for those that the manager
\* will still ask for from a difference it computed earlier.
Room ==
    /\ running <= MaxTarget
    /\ i >= 0
    /\ spawning = IF pc["spawner"] \in {"runSpawn", "spawnOne", "exited"} THEN 0 ELSE 1
    /\ pc["spawner"] \in {"spawnOne", "factory", "register", "stopDriver", "spawnFailed"}
          => running < MaxTarget
    /\ Manager \in {"waitTarget", "scaleTarget", "upTarget"} => running - Registered + dn <= 0
    /\ Manager \in {"checkRunning", "peekIdle"} /\ dn > 0 => running - Registered < MaxTarget
    /\ Manager = "scaleUp" => running - Registered < MaxTarget
    /\ ScalingUp => i < dn /\ running - Registered + (dn - i) <= MaxTarget

\* drain has emptied the idle set, and later the pool.
Drained ==
    /\ \/ Manager \in {"drainLoop", "drainRecv", "exited"}
       \/ Killing("manager") /\ ret["manager"] = "drainLoop"
       => idle = {}
    /\ Manager = "exited" => running - Registered <= 0
    /\ stopped => Manager = "exited"

\* The pool's drivers are leased as DriverLease says.
Lease == INSTANCE DriverLease WITH Owners <- Procs

\* Every step of every goroutine is one step of the abstract lease of drivers or
\* leaves it alone: killDriver's two parts, the channels put and out, peekIdle
\* and spawnOne keep to its rules in every interleaving.
LeasePromise == Lease!LeaseSpec

\* IndInv: the conjunction of the layers holds in every reachable state.
IndInv ==
    /\ Ownership
    /\ Requests /\ Room /\ Drained
=============================================================================
