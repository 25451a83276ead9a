------------------------------- MODULE Daemon -------------------------------
(***************************************************************************)
(* The daemon (daemon/daemon.go): its map from languages to driver pools,  *)
(* the requests that look a pool up or create one (daemon/service.go), the *)
(* control calls that install and remove drivers, and the server process   *)
(* around it (cmd/bblfshd/main.go).                                        *)
(*                                                                         *)
(* A pool is started, serves, is stopped and closed; DriverPool has what   *)
(* goes on inside, DriverInstance how its first driver comes up.  The      *)
(* images on disk are a set that changes in one step; Storage has the      *)
(* steps.  A section under the read lock is one step that no writer        *)
(* overlaps; one under the write lock, d.mu, names its holder in writer.   *)
(***************************************************************************)
EXTENDS DriverInstance

CONSTANTS
    Users,      \* goroutines that serve parse requests
    Admins,     \* goroutines that serve control calls
    Versions,   \* versions of drivers
    Names,      \* the names of languages, normalised
    Language,   \* the language in the manifest of each version
    Aliases     \* the aliases in the manifest of each version

ASSUME ManifestAssumption ==
    /\ Language \in [Versions -> Names]
    /\ Aliases \in [Versions -> SUBSET Names]

\* "none" stands for what is absent, and a goroutine has one role.
ASSUME RoleAssumption ==
    /\ "none" \notin Pools \cup Names \cup Versions \cup Users \cup Admins
    /\ Users \cap Admins = {} /\ "main" \notin Users \cup Admins

VARIABLES
    installed,  \* the versions on disk
    pool,       \* d.pool: the registered pool of each name, or "none"
    aliases,    \* d.aliases: the language of each alias, or "none"
    writer,     \* who holds d.mu for writing, or "none"
    status,     \* each pool: "unused", "starting", "open", "stopping", "closed", or
                \* "orphan" when it runs but its Start has returned an error
    version,    \* the version each pool runs
    proc,       \* each goroutine: its next step and local variables
    listener,   \* "listening" or "closed", for "user" and "control"
    exited      \* the exit code, or "no"

maps       == <<pool, aliases>>
server     == <<listener, exited>>
daemonVars == <<installed, maps, writer, status, version, proc, server>>
vars == <<instanceVars, daemonVars>>

Procs == Users \cup Admins \cup {"main"}

Idle == [pc |-> "idle", name |-> "none", dp |-> "none", ver |-> "none", update |-> FALSE]

At(x, pc)   == exited = "no" /\ proc[x].pc = pc
Goto(x, pc) == proc' = [proc EXCEPT ![x] = [@ EXCEPT !.pc = pc]]
Answer(x)   == proc' = [proc EXCEPT ![x] = Idle]

\* d.aliases, then d.pool.
Resolve(n) == IF aliases[n] # "none" THEN aliases[n] ELSE n

\* driverWithLang.
WithLang(n) == {v \in installed : n \in {Language[v]} \cup Aliases[v]}

Init ==
    /\ InstanceInit
    /\ installed \in SUBSET Versions
    /\ \A v, w \in installed : Language[v] = Language[w] => v = w
    /\ pool = [n \in Names |-> "none"]
    /\ aliases = [n \in Names |-> "none"]
    /\ writer = "none"
    /\ status = [p \in Pools |-> "unused"]
    /\ version = [p \in Pools |-> "none"]
    /\ proc = [x \in Procs |-> Idle]
    /\ listener = [l \in {"user", "control"} |-> "listening"]
    /\ exited = "no"

-----------------------------------------------------------------------------
(* Parse requests.                                                         *)

\* An empty request is answered with an empty tree; a request whose content is
\* no UTF-8, or whose language cannot be detected, with an error.  These change
\* nothing.  Any other one has a language, given or detected, normalised.
Receive(u, n) ==
    /\ At(u, "idle")
    /\ listener["user"] = "listening"
    /\ proc' = [proc EXCEPT ![u] = [Idle EXCEPT !.pc = "lookup", !.name = n]]
    /\ UNCHANGED <<instanceVars, installed, maps, writer, status, version, server>>

\* DriverPool under the read lock.
Lookup(u) ==
    /\ At(u, "lookup")
    /\ writer = "none"
    /\ LET l == Resolve(proc[u].name)
       IN  proc' = [proc EXCEPT ![u] =
                      [@ EXCEPT !.name = l, !.dp = pool[l],
                                !.pc = IF pool[l] = "none" THEN "lock" ELSE "execute"]]
    /\ UNCHANGED <<instanceVars, installed, maps, writer, status, version, server>>

\* Mutant: the pool is not looked up again under the write lock.
LookupOnce(u) ==
    /\ At(u, "lock")
    /\ writer = "none"
    /\ Goto(u, "image")
    /\ writer' = u
    /\ UNCHANGED <<instanceVars, installed, maps, status, version, server>>

\* DriverPool under the write lock looks again.
LookupLocked(u) ==
    /\ At(u, "lock")
    /\ writer = "none"
    /\ LET l == Resolve(proc[u].name)
       IN  /\ proc' = [proc EXCEPT ![u] =
                         [@ EXCEPT !.name = l, !.dp = pool[l],
                                   !.pc = IF pool[l] = "none" THEN "image" ELSE "execute"]]
           /\ writer' = IF pool[l] = "none" THEN u ELSE "none"
    /\ UNCHANGED <<instanceVars, installed, maps, status, version, server>>

\* Mutant: the lock is not released when there is no image.
NewDriverPoolLocked(u) ==
    /\ At(u, "image")
    /\ \/ /\ Answer(u)
          /\ UNCHANGED <<factory, status, version>>
       \/ \E v \in WithLang(proc[u].name), p \in Pools :
             /\ status[p] = "unused"
             /\ status' = [status EXCEPT ![p] = "starting"]
             /\ version' = [version EXCEPT ![p] = v]
             /\ Enter(p, "create")
             /\ proc' = [proc EXCEPT ![u] = [@ EXCEPT !.pc = "start", !.dp = p]]
    /\ UNCHANGED <<writer, container, installed, maps, server>>

\* getDriverImage fails, or newDriverPool starts a pool.  The lock is kept.
NewDriverPool(u) ==
    /\ At(u, "image")
    /\ \/ /\ Answer(u)
          /\ writer' = "none"
          /\ UNCHANGED <<factory, status, version>>
       \/ /\ \E v \in WithLang(proc[u].name), p \in Pools :
                /\ status[p] = "unused"
                /\ status' = [status EXCEPT ![p] = "starting"]
                /\ version' = [version EXCEPT ![p] = v]
                /\ Enter(p, "create")
                /\ proc' = [proc EXCEPT ![u] = [@ EXCEPT !.pc = "start", !.dp = p]]
          /\ UNCHANGED writer
    /\ UNCHANGED <<container, installed, maps, server>>

\* Mutant: the aliases map to the image.
RegisterImage(u) ==
    /\ At(u, "start")
    /\ factory[proc[u].dp] = "up"
    /\ LET p == proc[u].dp
           v == version[p]
       IN  /\ status' = [status EXCEPT ![p] = "open"]
           /\ pool' = [pool EXCEPT ![Language[v]] = p]
           /\ aliases' = [n \in Names |-> IF n \in Aliases[v] THEN v ELSE aliases[n]]
    /\ writer' = "none"
    /\ Goto(u, "execute")
    /\ UNCHANGED <<instanceVars, installed, version, server>>

\* The pool has a driver: it is registered, with the aliases of its manifest.
Register(u) ==
    /\ At(u, "start")
    /\ factory[proc[u].dp] = "up"
    /\ LET p == proc[u].dp
           v == version[p]
       IN  /\ status' = [status EXCEPT ![p] = "open"]
           /\ pool' = [pool EXCEPT ![Language[v]] = p]
           /\ aliases' = [n \in Names |-> IF n \in Aliases[v] THEN Language[v] ELSE aliases[n]]
    /\ writer' = "none"
    /\ Goto(u, "execute")
    /\ UNCHANGED <<instanceVars, installed, version, server>>

\* The factory failed, or the request was cancelled: the pool is stopped.
StartFails(u) ==
    /\ At(u, "start")
    /\ status' = [status EXCEPT ![proc[u].dp] = "stopping"]
    /\ Goto(u, "abort")
    /\ UNCHANGED <<instanceVars, installed, maps, writer, version, server>>

\* The first driver dies before Start has put it back: Start returns that error
\* and does not stop the pool.
StartOrphans(u) ==
    /\ At(u, "start")
    /\ StopInstance(proc[u].dp)
    /\ status' = [status EXCEPT ![proc[u].dp] = "orphan"]
    /\ writer' = "none"
    /\ Answer(u)
    /\ UNCHANGED <<installed, maps, version, server>>

Abort(u) ==
    /\ At(u, "abort")
    /\ status[proc[u].dp] = "closed"
    /\ writer' = "none"
    /\ Answer(u)
    /\ UNCHANGED <<instanceVars, installed, maps, status, version, server>>

\* Execute takes a driver of the pool that was looked up, if it is still open.
Execute(u) ==
    /\ At(u, "execute")
    /\ IF status[proc[u].dp] = "open" THEN Goto(u, "parse") ELSE Answer(u)
    /\ UNCHANGED <<instanceVars, installed, maps, writer, status, version, server>>

Parsed(u) ==
    /\ At(u, "parse")
    /\ Answer(u)
    /\ UNCHANGED <<instanceVars, installed, maps, writer, status, version, server>>

-----------------------------------------------------------------------------
(* Pools.                                                                  *)

\* The spawn loop of a pool.  A failed start is tried again.  Bound: not after it
\* has leaked a container, so that a pool has at most one.
Spawn(p) ==
    /\ exited = "no"
    /\ Factory(p, version[p] \in installed)
    /\ UNCHANGED daemonVars

Retry(p) ==
    /\ exited = "no"
    /\ factory[p] = "failed" /\ status[p] = "starting"
    /\ container[p] # "leaked"
    /\ Enter(p, "create")
    /\ UNCHANGED <<container, daemonVars>>

\* A pool whose drivers keep failing stops itself.  It stays registered.
GiveUp(p) ==
    /\ exited = "no"
    /\ status[p] = "open"
    /\ status' = [status EXCEPT ![p] = "stopping"]
    /\ UNCHANGED <<instanceVars, installed, maps, writer, version, proc, server>>

\* The pool is drained: its driver is stopped once no request has it.
Drain(p) ==
    /\ exited = "no"
    /\ status[p] = "stopping"
    /\ \A u \in Users : ~(proc[u].pc = "parse" /\ proc[u].dp = p)
    /\ StopInstance(p)
    /\ UNCHANGED daemonVars

Close(p) ==
    /\ exited = "no"
    /\ status[p] = "stopping" /\ factory[p] \in {"off", "failed"}
    /\ status' = [status EXCEPT ![p] = "closed"]
    /\ UNCHANGED <<instanceVars, installed, maps, writer, version, proc, server>>

-----------------------------------------------------------------------------
(* Control calls.                                                          *)

InstallDriver(a, v, update) ==
    /\ At(a, "idle")
    /\ listener["control"] = "listening"
    /\ proc' = [proc EXCEPT ![a] = [Idle EXCEPT !.pc = "find", !.ver = v, !.update = update]]
    /\ UNCHANGED <<instanceVars, installed, maps, writer, status, version, server>>

\* getDriverImage.  A driver that is there is an error, or is removed first.
InstallFind(a) ==
    /\ At(a, "find")
    /\ LET old == WithLang(Language[proc[a].ver])
       IN  \/ Answer(a)
           \/ old = {} /\ Goto(a, "install")
           \/ proc[a].update /\ \E v \in old :
                 proc' = [proc EXCEPT ![a] = [@ EXCEPT !.pc = "replace", !.name = v]]
    /\ UNCHANGED <<instanceVars, installed, maps, writer, status, version, server>>

\* The image found may be gone by now, which is an error.
InstallReplace(a) ==
    /\ At(a, "replace")
    /\ IF proc[a].name \in installed
       THEN /\ installed' = installed \ {proc[a].name}
            /\ Goto(a, "install")
       ELSE Answer(a) /\ UNCHANGED installed
    /\ UNCHANGED <<instanceVars, maps, writer, status, version, server>>

\* The registry may fail, and what was removed stays removed.
InstallImage(a) ==
    /\ At(a, "install")
    /\ installed' \in {installed, installed \cup {proc[a].ver}}
    /\ Answer(a)
    /\ UNCHANGED <<instanceVars, maps, writer, status, version, server>>

RemoveDriver(a, n) ==
    /\ At(a, "idle")
    /\ listener["control"] = "listening"
    /\ proc' = [proc EXCEPT ![a] = [Idle EXCEPT !.pc = "remove", !.name = n]]
    /\ UNCHANGED <<instanceVars, installed, maps, writer, status, version, server>>

RemoveFind(a) ==
    /\ At(a, "remove")
    /\ \/ Answer(a)
       \/ \E v \in WithLang(proc[a].name) :
             proc' = [proc EXCEPT ![a] = [@ EXCEPT !.pc = "delete", !.ver = v]]
    /\ UNCHANGED <<instanceVars, installed, maps, writer, status, version, server>>

RemoveImage(a) ==
    /\ At(a, "delete")
    /\ LET v == proc[a].ver
       IN  IF v \in installed
           THEN /\ installed' = installed \ {v}
                /\ Goto(a, "lock")
           ELSE Answer(a) /\ UNCHANGED installed
    /\ UNCHANGED <<instanceVars, maps, writer, status, version, server>>

\* Mutant: the map is read without the lock.
RemovePoolUnlocked(a) ==
    /\ At(a, "lock")
    /\ LET p == pool[proc[a].name]
       IN  IF p = "none" THEN Answer(a) /\ UNCHANGED <<writer, status>>
           ELSE /\ writer = "none"
                /\ writer' = a
                /\ proc' = [proc EXCEPT ![a] = [@ EXCEPT !.pc = "stop", !.dp = p]]
                /\ status' = [status EXCEPT ![p] = IF @ = "open" THEN "stopping" ELSE @]
    /\ UNCHANGED <<instanceVars, installed, maps, version, server>>

\* removePool: the name is not resolved.
RemovePool(a) ==
    /\ At(a, "lock")
    /\ writer = "none"
    /\ LET p == pool[proc[a].name]
       IN  IF p = "none" THEN Answer(a) /\ UNCHANGED <<writer, status>>
           ELSE /\ writer' = a
                /\ proc' = [proc EXCEPT ![a] = [@ EXCEPT !.pc = "stop", !.dp = p]]
                /\ status' = [status EXCEPT ![p] = IF @ = "open" THEN "stopping" ELSE @]
    /\ UNCHANGED <<instanceVars, installed, maps, version, server>>

\* Mutant: the lock is not released.
UnregisterLocked(a) ==
    /\ At(a, "stop")
    /\ status[proc[a].dp] = "closed"
    /\ pool' = [pool EXCEPT ![proc[a].name] = "none"]
    /\ Answer(a)
    /\ UNCHANGED <<instanceVars, installed, writer, aliases, status, version, server>>

\* Stop has returned, with or without ErrPoolClosed.
Unregister(a) ==
    /\ At(a, "stop")
    /\ status[proc[a].dp] = "closed"
    /\ pool' = [pool EXCEPT ![proc[a].name] = "none"]
    /\ writer' = "none"
    /\ Answer(a)
    /\ UNCHANGED <<instanceVars, installed, aliases, status, version, server>>

-----------------------------------------------------------------------------
(* The server process.                                                     *)

Signal ==
    /\ At("main", "idle")
    /\ Goto("main", "lock")
    /\ UNCHANGED <<instanceVars, installed, maps, writer, status, version, server>>

StopLock ==
    /\ At("main", "lock")
    /\ writer = "none"
    /\ writer' = "main"
    /\ Goto("main", "stop")
    /\ UNCHANGED <<instanceVars, installed, maps, status, version, server>>

\* Stop goes through the registered pools, one after the other.
StopPool(n) ==
    /\ At("main", "stop")
    /\ pool[n] # "none"
    /\ status[pool[n]] = "open"
    /\ \A m \in Names : pool[m] # "none" => status[pool[m]] # "stopping"
    /\ status' = [status EXCEPT ![pool[n]] = "stopping"]
    /\ UNCHANGED <<instanceVars, installed, maps, writer, version, proc, server>>

\* Mutant: Stop does not wait for pools that are being stopped already.
StoppedEarly ==
    /\ At("main", "stop")
    /\ \A n \in Names : pool[n] # "none" => status[pool[n]] \in {"stopping", "closed"}
    /\ writer' = "none"
    /\ Goto("main", "close")
    /\ UNCHANGED <<instanceVars, installed, maps, status, version, server>>

Stopped ==
    /\ At("main", "stop")
    /\ \A n \in Names : pool[n] # "none" => status[pool[n]] = "closed"
    /\ writer' = "none"
    /\ Goto("main", "close")
    /\ UNCHANGED <<instanceVars, installed, maps, status, version, server>>

\* The control listener is closed before the user's.
CloseListener(l) ==
    /\ At("main", "close")
    /\ l = "user" => listener["control"] = "closed"
    /\ listener[l] # "closed"
    /\ listener' = [listener EXCEPT ![l] = "closed"]
    /\ UNCHANGED <<instanceVars, installed, maps, writer, status, version, proc, exited>>

\* The handler exits with 0, unless Serve on a closed listener exits with 1 first.
Exit(l) ==
    /\ exited = "no"
    /\ \/ At("main", "close") /\ listener["user"] = "closed" /\ exited' = "0"
       \/ listener[l] = "closed" /\ exited' = "1"
    /\ UNCHANGED <<instanceVars, installed, maps, writer, status, version, proc, listener>>

-----------------------------------------------------------------------------

PoolStep(p) == Spawn(p) \/ Retry(p) \/ Drain(p) \/ Close(p)

UserStep(u) ==
    \/ Lookup(u) \/ LookupLocked(u) \/ NewDriverPool(u) \/ Register(u) \/ StartFails(u)
    \/ StartOrphans(u) \/ Abort(u) \/ Execute(u) \/ Parsed(u)

AdminStep(a) ==
    \/ InstallFind(a) \/ InstallReplace(a) \/ InstallImage(a)
    \/ RemoveFind(a) \/ RemoveImage(a) \/ RemovePool(a) \/ Unregister(a)

MainStep ==
    \/ StopLock \/ Stopped
    \/ \E n \in Names : StopPool(n)
    \/ \E l \in {"user", "control"} : CloseListener(l) \/ Exit(l)

Next ==
    \/ \E p \in Pools : PoolStep(p) \/ GiveUp(p)
    \/ \E u \in Users : UserStep(u) \/ \E n \in Names : Receive(u, n)
    \/ \E a \in Admins :
          \/ AdminStep(a)
          \/ \E v \in Versions, b \in BOOLEAN : InstallDriver(a, v, b)
          \/ \E n \in Names : RemoveDriver(a, n)
    \/ Signal
    \/ MainStep

\* Goroutines that can go on do.  A factory that keeps failing is not retried for
\* ever: the backoff ticker stops after a while.  The lock is granted to everyone
\* who keeps asking for it, as Go's RWMutex does.
Fairness ==
    /\ \A p \in Pools : WF_vars(Spawn(p) \/ Drain(p) \/ Close(p))
    /\ \A u \in Users :
          /\ WF_vars(NewDriverPool(u) \/ Register(u) \/ Abort(u) \/ Execute(u) \/ Parsed(u))
          /\ SF_vars(At(u, "start") /\ factory[proc[u].dp] = "failed" /\ StartFails(u))
          /\ SF_vars(Lookup(u)) /\ SF_vars(LookupLocked(u))
    /\ \A a \in Admins :
          /\ WF_vars(AdminStep(a))
          /\ SF_vars(RemovePool(a))
    /\ WF_vars(MainStep)
    /\ SF_vars(StopLock)

Spec == Init /\ [][Next]_vars

FairSpec == Spec /\ Fairness

-----------------------------------------------------------------------------

Pcs == {"idle", "lookup", "lock", "image", "start", "abort", "execute", "parse", "find",
        "replace", "install", "remove", "delete", "stop", "close"}

ProcType ==
    [pc : Pcs, name : Names \cup Versions \cup {"none"}, dp : Pools \cup {"none"},
     ver : Versions \cup {"none"}, update : BOOLEAN]

TypeOK ==
    /\ factory \in [Pools -> {"off", "create", "run", "dial", "version", "up", "failed"}]
    /\ container \in [Pools -> {"none", "created", "running", "leaked"}]
    /\ installed \subseteq Versions
    /\ pool \in [Names -> Pools \cup {"none"}]
    /\ aliases \in [Names -> Names \cup {"none"}]
    /\ writer \in Procs \cup {"none"}
    /\ status \in [Pools -> {"unused", "starting", "open", "stopping", "closed", "orphan"}]
    /\ version \in [Pools -> Versions \cup {"none"}]
    /\ proc \in [Procs -> ProcType]
    /\ listener \in [{"user", "control"} -> {"listening", "closed"}]
    /\ exited \in {"no", "0", "1"}

NamesOf(v) == {Language[v]} \cup Aliases[v]

\* Versions that share a name are of one language and have the same aliases.  The
\* three properties of the maps below need this of the manifests.  When an update
\* brings a version with a new alias, a request by that alias is not led to the
\* pool of the language: newDriverPool puts a second pool in its place, and nobody
\* stops the first.
NamesAgree ==
    \A v, w \in Versions : NamesOf(v) \cap NamesOf(w) # {} =>
        Language[v] = Language[w] /\ Aliases[v] = Aliases[w]

\* A pool that serves is registered under its language, so that requests find
\* it and Stop and RemoveDriver stop it: no second pool is started for a language
\* that has one, by whatever name and with whatever timing it is asked for.
NoLostPool ==
    \A p \in Pools : status[p] = "open" => pool[Language[version[p]]] = p

\* When RemoveDriver, called by the name of the language, has returned, no pool of
\* the language is left or on its way, although a request may have found the image
\* before it was deleted.  (Called by an alias it leaves the pool running.)
RemoveLeavesNoPool ==
    [][\A a \in Admins :
          proc[a].pc \in {"lock", "stop"} /\ proc'[a].pc = "idle" =>
              \A p \in Pools : status'[p] \in {"starting", "open"} =>
                                   Language[version[p]] # proc[a].name]_vars

\* A factory that failed and a pool that is closed have no container, except one
\* whose Stop failed or that did not answer the first call.
NoContainerLeft ==
    \A p \in Pools :
        status[p] = "closed" \/ factory[p] = "failed" =>
            container[p] \in {"none", "leaked"}

\* Every request is answered, whoever holds the lock: the lock is never held by a
\* goroutine that waits for one that needs it.
RequestAnswered ==
    \A u \in Users : proc[u].pc # "idle" ~> proc[u].pc = "idle" \/ exited # "no"

\* After a signal the process ends, whatever requests are in progress.
Shutdown == proc["main"].pc = "lock" ~> exited # "no"

\* When Stop of the daemon returns, every pool and container is stopped, except
\* those that nobody has a reference to: a pool whose Start failed at its very end,
\* and a container that a failed call left behind.
StoppedAll ==
    [][proc["main"].pc = "stop" /\ proc'["main"].pc = "close" =>
          \A p \in Pools : /\ status[p] \in {"unused", "closed", "orphan"}
                           /\ container[p] \in {"none", "leaked"}]_vars
=============================================================================
