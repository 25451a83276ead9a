---------------------------- MODULE ParseService ----------------------------
(***************************************************************************)
(* The parse requests of the user service (daemon/service.go): Parse of    *)
(* both protocols and NativeParse, from the check of the content to the    *)
(* response, with the goroutine that talks to the driver, the deadline of  *)
(* the request and the second deadline after which the driver is killed.   *)
(*                                                                         *)
(* Daemon has how a pool is found, DriverPool how it hands out drivers:    *)
(* here either succeeds or fails.                                          *)
(***************************************************************************)
CONSTANTS
    Users,      \* goroutines that serve requests
    Drivers,
    Languages,  \* names of languages, as clients and enry write them; "none" is the
                \* empty name
    Normal      \* normalize: the name that bblfsh uses for each

ASSUME NormalAssumption ==
    /\ DOMAIN Normal = Languages
    /\ "none" \notin Languages
    /\ \A l \in Languages : Normal[l] # "none"

VARIABLES
    pc,         \* the next step of each request
    req,        \* the request
    lang,       \* the language found for it, then the one in the response
    resp,       \* the response: "nil", "empty" or "tree"
    err,        \* the error, returned or written into the response
    ctx,        \* its context: "live", "gone" when the client hung up, "expired" after
                \* the deadline, "overdue" after parseKillDelay as well
    drv,        \* the driver it has
    call,       \* the call to the driver: "none", "running", "ok" or "error"
    stray,      \* the drivers that a goroutine left behind still waits for
    driver      \* each driver: "idle", "leased" or "killed"

vars == <<pc, req, lang, resp, err, ctx, drv, call, stray, driver>>

\* A request has its protocol, what its content is, the language if it names
\* one (which matters only for text), and whether the client set a deadline.
\* Version 1 always has a timeout.
Requests ==
    {r \in [api : {"v1", "v2", "native"}, content : {"empty", "binary", "text"},
            language : Languages \cup {"none"}, deadline : BOOLEAN] :
        /\ r.api # "v2" => r.deadline
        /\ r.content # "text" => r.language = "none" /\ r.deadline}

NoReq == [api |-> "v1", content |-> "empty", language |-> "none", deadline |-> TRUE]

At(u, p)    == pc[u] = p
Goto(u, p)  == pc' = [pc EXCEPT ![u] = p]
CtxDone(u)  == ctx[u] # "live"

\* Mutant: the context for the kill has no deadline of its own.
KillDoneGone(u) == ~req[u].deadline /\ CtxDone(u)

\* ctxKill: the deadline and parseKillDelay after it, or else the context itself.
KillDone(u) == IF req[u].deadline THEN ctx[u] = "overdue" ELSE CtxDone(u)

Init ==
    /\ pc = [u \in Users |-> "idle"]
    /\ req = [u \in Users |-> NoReq]
    /\ lang = [u \in Users |-> "none"]
    /\ resp = [u \in Users |-> "empty"]
    /\ err = [u \in Users |-> "none"]
    /\ ctx = [u \in Users |-> "live"]
    /\ drv = [u \in Users |-> "none"]
    /\ call = [u \in Users |-> "none"]
    /\ stray = {}
    /\ driver = [d \in Drivers |-> "idle"]

-----------------------------------------------------------------------------

Receive(u, r) ==
    /\ At(u, "idle")
    /\ Goto(u, "content")
    /\ req' = [req EXCEPT ![u] = r]
    /\ UNCHANGED <<lang, resp, err, ctx, drv, call, stray, driver>>

\* The response is sent, and the handler's variables are gone.
Reply(u) ==
    /\ At(u, "reply")
    /\ Goto(u, "idle")
    /\ req' = [req EXCEPT ![u] = NoReq]
    /\ lang' = [lang EXCEPT ![u] = "none"]
    /\ resp' = [resp EXCEPT ![u] = "empty"]
    /\ err' = [err EXCEPT ![u] = "none"]
    /\ ctx' = [ctx EXCEPT ![u] = "live"]
    /\ drv' = [drv EXCEPT ![u] = "none"]
    /\ call' = [call EXCEPT ![u] = "none"]
    /\ UNCHANGED <<stray, driver>>

\* Return before there is a driver.  Version 2 returns no response with an error.
Refuse(u, e) ==
    /\ Goto(u, "reply")
    /\ err' = [err EXCEPT ![u] = e]
    /\ resp' = [resp EXCEPT ![u] = IF req[u].api = "v2" THEN "nil" ELSE @]

\* Empty content has an empty tree, and content must be UTF-8.
CheckContent(u) ==
    /\ At(u, "content")
    /\ \/ req[u].content = "empty" /\ Goto(u, "reply") /\ UNCHANGED <<resp, err>>
       \/ req[u].content = "binary" /\ Refuse(u, "encoding")
       \/ req[u].content = "text" /\ Goto(u, "select") /\ UNCHANGED <<resp, err>>
    /\ UNCHANGED <<req, lang, ctx, drv, call, stray, driver>>

\* Mutant: a language that the client names is taken as it is.
DetectedRaw(u) ==
    IF req[u].language # "none" THEN {req[u].language}
    ELSE {Normal[l] : l \in Languages} \cup {"none"}

\* GetLanguage and detectLanguage: enry may not know.
Detected(u) ==
    IF req[u].language # "none" THEN {Normal[req[u].language]}
    ELSE {Normal[l] : l \in Languages} \cup {"none"}

\* selectPool.  When it fails NativeParse does not tell the language it tried.
SelectPool(u) ==
    /\ At(u, "select")
    /\ \E l \in Detected(u) :
          \/ /\ l = "none"
             /\ Refuse(u, "language")
             /\ UNCHANGED lang
          \/ /\ l # "none"
             /\ Refuse(u, "unexpected")
             /\ lang' = [lang EXCEPT ![u] = IF req[u].api = "v1" THEN l ELSE @]
          \/ /\ l # "none"
             /\ Goto(u, "get")
             /\ lang' = [lang EXCEPT ![u] = l]
             /\ UNCHANGED <<resp, err>>
    /\ UNCHANGED <<req, ctx, drv, call, stray, driver>>

\* ExecuteCtx gets a driver, or fails: the pool closed, or the context is done.
GetDriver(u) ==
    /\ At(u, "get")
    /\ \/ /\ Goto(u, "finish")
          /\ err' = [err EXCEPT ![u] = "pool"]
          /\ UNCHANGED <<drv, call, driver>>
       \/ /\ \E d \in Drivers :
                /\ driver[d] = "idle"
                /\ driver' = [driver EXCEPT ![d] = "leased"]
                /\ drv' = [drv EXCEPT ![u] = d]
          /\ call' = [call EXCEPT ![u] = "running"]
          /\ Goto(u, "call")
          /\ UNCHANGED err
    /\ UNCHANGED <<req, lang, resp, ctx, stray>>

\* The driver answers; for version 1 and 2 a goroutine of its own gets the answer.
\* The connection gives up on a call whose context is done.
DriverAnswers(u) ==
    /\ At(u, "call") /\ call[u] = "running"
    /\ \E a \in {"ok", "error"} : call' = [call EXCEPT ![u] = a]
    /\ UNCHANGED <<pc, req, lang, resp, err, ctx, drv, stray, driver>>

ConnectionGivesUp(u) ==
    /\ At(u, "call") /\ call[u] = "running"
    /\ CtxDone(u)
    /\ call' = [call EXCEPT ![u] = "error"]
    /\ UNCHANGED <<pc, req, lang, resp, err, ctx, drv, stray, driver>>

\* parseV1, parseV2: the case of done; and NativeParse, which has no other case.
Answered(u) ==
    /\ At(u, "call") /\ call[u] # "running"
    /\ resp' = [resp EXCEPT ![u] = IF call[u] = "ok" THEN "tree" ELSE "nil"]
    /\ err' = [err EXCEPT ![u] = IF call[u] = "ok" THEN "none" ELSE "driver"]
    /\ Goto(u, "put")
    /\ UNCHANGED <<req, lang, ctx, drv, call, stray, driver>>

\* Mutant: the driver is left alive.
KilledNot(u) ==
    /\ At(u, "call") /\ req[u].api # "native"
    /\ KillDone(u)
    /\ stray' = IF call[u] = "running" THEN stray \cup {drv[u]} ELSE stray
    /\ resp' = [resp EXCEPT ![u] = "nil"]
    /\ err' = [err EXCEPT ![u] = "deadline"]
    /\ Goto(u, "put")
    /\ UNCHANGED <<req, lang, ctx, drv, call, driver>>

\* The case of ctxKill: the driver is killed, and the goroutine that waits for it
\* stays behind.
Killed(u) ==
    /\ At(u, "call") /\ req[u].api # "native"
    /\ KillDone(u)
    /\ driver' = [driver EXCEPT ![drv[u]] = "killed"]
    /\ stray' = IF call[u] = "running" THEN stray \cup {drv[u]} ELSE stray
    /\ resp' = [resp EXCEPT ![u] = "nil"]
    /\ err' = [err EXCEPT ![u] = "deadline"]
    /\ Goto(u, "put")
    /\ UNCHANGED <<req, lang, ctx, drv, call>>

StrayReturns(d) ==
    /\ d \in stray
    /\ stray' = stray \ {d}
    /\ UNCHANGED <<pc, req, lang, resp, err, ctx, drv, call, driver>>

\* The deferred putDriver: a driver that has stopped does not go back.
PutDriver(u) ==
    /\ At(u, "put")
    /\ driver' \in {[driver EXCEPT ![drv[u]] = s] :
                       s \in IF driver[drv[u]] = "killed" THEN {"killed"} ELSE {"idle", "killed"}}
    /\ Goto(u, "finish")
    /\ UNCHANGED <<req, lang, resp, err, ctx, drv, call, stray>>

\* Mutant: version 1 keeps the response it has.
FinishNil(u) ==
    /\ At(u, "finish")
    /\ lang' = [lang EXCEPT ![u] = IF resp[u] = "nil" THEN "none" ELSE @]
    /\ Goto(u, "reply")
    /\ UNCHANGED <<req, resp, err, ctx, drv, call, stray, driver>>

\* Version 1 makes a new response for an error; the language is written into the
\* response if there is one.
Finish(u) ==
    /\ At(u, "finish")
    /\ LET r == IF req[u].api # "v2" /\ err[u] # "none" THEN "empty" ELSE resp[u]
       IN  /\ resp' = [resp EXCEPT ![u] = r]
           /\ lang' = [lang EXCEPT ![u] = IF r = "nil" THEN "none" ELSE @]
    /\ Goto(u, "reply")
    /\ UNCHANGED <<req, err, ctx, drv, call, stray, driver>>

\* The client hangs up, which version 1 does not notice; the deadline passes,
\* with version 1 counted from Execute; parseKillDelay passes.
HangUp(u) ==
    /\ req[u].api = "v2" /\ ctx[u] = "live"
    /\ At(u, "select") \/ At(u, "get") \/ At(u, "call")
    /\ ctx' = [ctx EXCEPT ![u] = "gone"]
    /\ UNCHANGED <<pc, req, lang, resp, err, drv, call, stray, driver>>

Expire(u) ==
    /\ req[u].deadline /\ ctx[u] \in {"live", "gone"}
    /\ At(u, "get") \/ At(u, "call") \/ (req[u].api = "v2" /\ At(u, "select"))
    /\ ctx' = [ctx EXCEPT ![u] = "expired"]
    /\ UNCHANGED <<pc, req, lang, resp, err, drv, call, stray, driver>>

Overdue(u) ==
    /\ At(u, "call") /\ ctx[u] = "expired"
    /\ ctx' = [ctx EXCEPT ![u] = "overdue"]
    /\ UNCHANGED <<pc, req, lang, resp, err, drv, call, stray, driver>>

Handler(u) ==
    CheckContent(u) \/ SelectPool(u) \/ GetDriver(u) \/ Answered(u) \/ Killed(u)
    \/ PutDriver(u) \/ Finish(u) \/ Reply(u)

Next ==
    \/ \E u \in Users :
          \/ \E r \in Requests : Receive(u, r)
          \/ Handler(u) \/ DriverAnswers(u) \/ ConnectionGivesUp(u)
          \/ HangUp(u) \/ Expire(u) \/ Overdue(u)
    \/ \E d \in Drivers : StrayReturns(d)

\* Handlers go on and time passes.  Drivers may never answer, and only NativeParse
\* relies on the connection to give up.
Fairness ==
    \A u \in Users :
        /\ WF_vars(Handler(u))
        /\ WF_vars(Expire(u)) /\ WF_vars(Overdue(u))
        /\ WF_vars(req[u].api = "native" /\ ConnectionGivesUp(u))

Spec == Init /\ [][Next]_vars /\ Fairness

-----------------------------------------------------------------------------

TypeOK ==
    /\ pc \in [Users -> {"idle", "content", "select", "get", "call", "put", "finish",
                     "reply"}]
    /\ req \in [Users -> Requests]
    /\ lang \in [Users -> {Normal[l] : l \in Languages} \cup {"none"}]
    /\ resp \in [Users -> {"nil", "empty", "tree"}]
    /\ err \in [Users -> {"none", "encoding", "language", "unexpected", "pool", "driver",
                          "deadline"}]
    /\ ctx \in [Users -> {"live", "gone", "expired", "overdue"}]
    /\ drv \in [Users -> Drivers \cup {"none"}]
    /\ call \in [Users -> {"none", "running", "ok", "error"}]
    /\ stray \subseteq Drivers
    /\ driver \in [Drivers -> {"idle", "leased", "killed"}]

\* What a request is told when it is answered.  A response of version 1 is never
\* nil, whichever deadline won: the deferred function writes into it.  Without an
\* error, content has the tree that its own driver returned, under the normalised
\* name of the language that was asked for; with one there is no tree.
Told(u) ==
    /\ req[u].api # "v2" \/ err[u] = "none" => resp[u] # "nil"
    /\ resp[u] = "tree" <=>
          err[u] = "none" /\ req[u].content # "empty" /\ call[u] = "ok"
    /\ err[u] = "none" /\ req[u].content = "text" => lang[u] # "none"
    /\ lang[u] # "none" /\ req[u].language # "none" => lang[u] = Normal[req[u].language]

\* A request is told the truth, by whichever of its deadlines it is answered.
Truthful == \A u \in Users : At(u, "reply") => Told(u)

\* A driver that a request gets serves nobody else: not another request, and not
\* one that was answered without waiting for it, by whichever deadline.
FreshDriver ==
    \A u \in Users : At(u, "call") =>
        /\ drv[u] \notin stray
        /\ \A o \in Users \ {u} : At(o, "call") => drv[o] # drv[u]

\* A request with a deadline is answered even if its driver never answers.
DeadlineKept ==
    \A u \in Users : ~At(u, "idle") /\ req[u].deadline ~> At(u, "reply")
=============================================================================
