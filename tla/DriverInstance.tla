--------------------------- MODULE DriverInstance ---------------------------
(***************************************************************************)
(* Driver instances and their containers (daemon/driver.go and             *)
(* runtime/container.go): what the driver factory of a pool does, one step *)
(* per call into the container runtime or the connection, and what becomes *)
(* of the container when a step fails.                                     *)
(*                                                                         *)
(* A pool runs one factory at a time, here for its first driver.           *)
(***************************************************************************)

CONSTANTS
    Pools           \* identities of pools

VARIABLES
    factory,        \* the next step of the pool's factory: "off", "create", "run",
                    \* "dial", "version", or how it ended: "up", "failed"
    container       \* the pool's container: "none", "created", "running", or "leaked"
                    \* when nobody will destroy it

instanceVars == <<factory, container>>

InstanceInit ==
    /\ factory = [p \in Pools |-> "off"]
    /\ container = [p \in Pools |-> "none"]

Enter(p, step) == factory' = [factory EXCEPT ![p] = step]
Container(p, c) == container' = [container EXCEPT ![p] = c]

\* container.Stop: kill the process, kill what is left of the container, destroy
\* it.  It returns at the first error, and then the container is not destroyed.
ContainerStop(p) == Container(p, "none") \/ Container(p, "leaked")

\* NewDriverInstance: runtime.Container needs the image's directory and
\* configuration file, and creates the container.
NewDriverInstance(p, installed) ==
    /\ factory[p] = "create"
    /\ \/ installed /\ Container(p, "created") /\ Enter(p, "run")
       \/ Enter(p, "failed") /\ UNCHANGED container

\* container.Start destroys the container when it does not run.
ContainerStart(p) ==
    /\ factory[p] = "run"
    /\ \/ Enter(p, "dial") /\ Container(p, "running")
       \/ Enter(p, "failed") /\ Container(p, "none")

\* Mutant: the container is not stopped.
DialLeaves(p) ==
    /\ factory[p] = "dial"
    /\ \/ Enter(p, "version")
       \/ Enter(p, "failed")
    /\ UNCHANGED container

\* Start stops the container when it cannot connect to it.
Dial(p) ==
    /\ factory[p] = "dial"
    /\ \/ Enter(p, "version") /\ UNCHANGED container
       \/ Enter(p, "failed") /\ ContainerStop(p)

\* Start returns the error of the first call, and nobody stops the container.
LoadVersion(p) ==
    /\ factory[p] = "version"
    /\ \/ Enter(p, "up") /\ UNCHANGED container
       \/ Enter(p, "failed") /\ Container(p, "leaked")

\* Stop of the instance: the container, then the connection.
StopInstance(p) ==
    /\ factory[p] = "up"
    /\ Enter(p, "off")
    /\ ContainerStop(p)

Factory(p, installed) ==
    NewDriverInstance(p, installed) \/ ContainerStart(p) \/ Dial(p) \/ LoadVersion(p)
=============================================================================
