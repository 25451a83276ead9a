------------------------- MODULE ParseServiceProofs -------------------------
(***************************************************************************)
(* Proofs about ParseService, for any requests, drivers and languages.     *)
(***************************************************************************)
EXTENDS ParseService, TLAPS

USE NormalAssumption, SMTT(30), ZenonT(60)

-----------------------------------------------------------------------------
(* The invariant: who has a driver, and what each step may rely on.        *)

\* A request has a driver from GetDriver to the deferred putDriver.
HasDriver(u) == pc[u] \in {"call", "put"}

DriverOK(u) ==
    /\ HasDriver(u) => drv[u] \in Drivers
    /\ pc[u] = "call" => driver[drv[u]] = "leased"
    /\ pc[u] = "put" => driver[drv[u]] \in {"leased", "killed"}

OneEach == \A u, o \in Users : u # o /\ HasDriver(u) /\ HasDriver(o) => drv[u] # drv[o]

StrayKilled == \A d \in stray : driver[d] = "killed"

\* What the driver returned, or that it did not return in time.
Outcome(u) ==
    \/ err[u] = "none" /\ resp[u] = "tree" /\ call[u] = "ok"
    \/ err[u] \in {"driver", "deadline"} /\ resp[u] = "nil"

\* The response so far.
ResponseOK(u) ==
    /\ pc[u] \in {"idle", "content", "select", "get", "call"} =>
          resp[u] = "empty" /\ err[u] = "none"
    /\ pc[u] \in {"idle", "content", "select", "get"} => call[u] = "none"
    /\ pc[u] = "put" => Outcome(u)
    /\ pc[u] = "finish" =>
          Outcome(u) \/ (err[u] = "pool" /\ resp[u] = "empty" /\ call[u] = "none")

\* The language so far.
LanguageOK(u) ==
    /\ pc[u] \in {"idle", "content", "select"} => lang[u] = "none"
    /\ pc[u] \in {"select", "get", "call", "put", "finish"} => req[u].content = "text"
    /\ pc[u] \in {"get", "call", "put", "finish"} =>
          /\ lang[u] # "none"
          /\ req[u].language # "none" => lang[u] = Normal[req[u].language]

Inv ==
    /\ TypeOK /\ OneEach /\ StrayKilled /\ Truthful
    /\ \A u \in Users : DriverOK(u) /\ ResponseOK(u) /\ LanguageOK(u)

-----------------------------------------------------------------------------
(* Every step is one of a single request.                                  *)

\* The state of the other requests is as it was.
Others(u) ==
    \A o \in Users : o # u =>
        /\ pc'[o] = pc[o] /\ req'[o] = req[o] /\ lang'[o] = lang[o] /\ resp'[o] = resp[o]
        /\ err'[o] = err[o] /\ drv'[o] = drv[o] /\ call'[o] = call[o]

\* What a request must establish by its own step.
OwnOK(u) == DriverOK(u) /\ ResponseOK(u) /\ LanguageOK(u) /\ (At(u, "reply") => Told(u))

\* The other requests keep their drivers.
LEMMA OneStep ==
    ASSUME Inv, NEW u \in Users, Others(u), TypeOK', OwnOK(u)', StrayKilled',
           \A o \in Users : o # u /\ HasDriver(o) => driver'[drv[o]] = driver[drv[o]],
           \A o \in Users : o # u /\ HasDriver(o) /\ HasDriver(u)' => drv[o] # drv'[u]
    PROVE  Inv'
<1>1. ASSUME NEW o \in Users PROVE (DriverOK(o) /\ ResponseOK(o) /\ LanguageOK(o))'
  <2>1. CASE o = u
    BY <2>1 DEF OwnOK
  <2>2. CASE o # u
    BY <2>2 DEF Inv, Others, DriverOK, ResponseOK, LanguageOK, HasDriver, Outcome
  <2> QED BY <2>1, <2>2
<1>2. OneEach'
  BY DEF Inv, OneEach, Others, HasDriver
<1>3. Truthful'
  BY DEF Inv, Truthful, At, Told, Others, OwnOK
<1> QED BY <1>1, <1>2, <1>3 DEF Inv

\* A step that has nothing to do with drivers.
LEMMA LocalStep ==
    ASSUME Inv, NEW u \in Users, Others(u), TypeOK', OwnOK(u)',
           HasDriver(u)' => HasDriver(u),
           UNCHANGED <<stray, driver>>, HasDriver(u) => drv'[u] = drv[u]
    PROVE  Inv'
<1>1. StrayKilled'
  BY DEF Inv, StrayKilled
<1>2. \A o \in Users : o # u /\ HasDriver(o) /\ HasDriver(u)' => drv[o] # drv'[u]
  BY DEF Inv, OneEach
<1> QED BY <1>1, <1>2, OneStep

LEMMA ReceiveStep ==
    ASSUME Inv, NEW u \in Users, NEW r \in Requests, Receive(u, r)
    PROVE  Inv'
<1> USE DEF Receive, At, Goto
<1>1. Others(u) /\ TypeOK'
  BY DEF Inv, TypeOK, Others
<1>2. OwnOK(u)'
  BY DEF Inv, TypeOK, OwnOK, DriverOK, ResponseOK, LanguageOK, HasDriver
<1> QED BY <1>1, <1>2, LocalStep DEF Inv, TypeOK, HasDriver

LEMMA ReplyStep ==
    ASSUME Inv, NEW u \in Users, Reply(u)
    PROVE  Inv'
<1> USE DEF Reply, At, Goto
<1>1. NoReq \in Requests
  BY DEF NoReq, Requests
<1>2. Others(u) /\ TypeOK'
  BY <1>1 DEF Inv, TypeOK, Others
<1>3. OwnOK(u)'
  BY DEF Inv, TypeOK, OwnOK, DriverOK, ResponseOK, LanguageOK, HasDriver
<1> QED BY <1>2, <1>3, LocalStep DEF Inv, TypeOK, HasDriver

LEMMA CheckContentStep ==
    ASSUME Inv, NEW u \in Users, CheckContent(u)
    PROVE  Inv'
<1> USE DEF CheckContent, Refuse, At, Goto
<1>1. Others(u) /\ TypeOK'
  BY DEF Inv, TypeOK, Others
<1>2. OwnOK(u)'
  BY DEF Inv, TypeOK, OwnOK, DriverOK, ResponseOK, LanguageOK, HasDriver, Told, Requests
<1> QED BY <1>1, <1>2, LocalStep DEF Inv, TypeOK, HasDriver

LEMMA SelectPoolStep ==
    ASSUME Inv, NEW u \in Users, SelectPool(u)
    PROVE  Inv'
<1> USE DEF Refuse, At, Goto
<1>1. PICK l \in Detected(u) :
          \/ l = "none" /\ Refuse(u, "language") /\ UNCHANGED lang
          \/ /\ l # "none" /\ Refuse(u, "unexpected")
             /\ lang' = [lang EXCEPT ![u] = IF req[u].api = "v1" THEN l ELSE @]
          \/ l # "none" /\ Goto(u, "get") /\ lang' = [lang EXCEPT ![u] = l] /\ UNCHANGED <<resp, err>>
  BY DEF SelectPool
<1>2. At(u, "select") /\ UNCHANGED <<req, ctx, drv, call, stray, driver>>
  BY DEF SelectPool
<1>3. /\ l \in {Normal[m] : m \in Languages} \cup {"none"}
      /\ req[u].language # "none" => l = Normal[req[u].language]
  BY DEF Detected, Inv, TypeOK, Requests
<1>4. Others(u) /\ TypeOK'
  BY <1>1, <1>2, <1>3 DEF Inv, TypeOK, Others
<1>5. OwnOK(u)'
  BY <1>1, <1>2, <1>3
     DEF Inv, TypeOK, OwnOK, DriverOK, ResponseOK, LanguageOK, HasDriver, Told, Requests
<1> QED BY <1>1, <1>2, <1>4, <1>5, LocalStep DEF Inv, TypeOK, HasDriver

LEMMA GetDriverStep ==
    ASSUME Inv, NEW u \in Users, GetDriver(u)
    PROVE  Inv'
<1> USE DEF At, Goto
<1>1. At(u, "get") /\ UNCHANGED <<req, lang, resp, ctx, stray>>
  BY DEF GetDriver
<1>2. CASE /\ Goto(u, "finish") /\ err' = [err EXCEPT ![u] = "pool"]
           /\ UNCHANGED <<drv, call, driver>>
  <2>1. Others(u) /\ TypeOK'
    BY <1>1, <1>2 DEF Inv, TypeOK, Others
  <2>2. OwnOK(u)'
    BY <1>1, <1>2 DEF Inv, TypeOK, OwnOK, DriverOK, ResponseOK, LanguageOK, HasDriver
  <2> QED BY <1>1, <1>2, <2>1, <2>2, LocalStep DEF Inv, TypeOK, HasDriver
<1>3. ASSUME NEW d \in Drivers, driver[d] = "idle",
             driver' = [driver EXCEPT ![d] = "leased"], drv' = [drv EXCEPT ![u] = d],
             call' = [call EXCEPT ![u] = "running"], Goto(u, "call"), UNCHANGED err
      PROVE  Inv'
  <2>1. Others(u) /\ TypeOK'
    BY <1>1, <1>3 DEF Inv, TypeOK, Others
  <2>2. OwnOK(u)'
    BY <1>1, <1>3 DEF Inv, TypeOK, OwnOK, DriverOK, ResponseOK, LanguageOK, HasDriver
  <2>3. \A o \in Users : HasDriver(o) => drv[o] # d
    BY <1>3 DEF Inv, DriverOK, HasDriver
  <2>4. StrayKilled'
    BY <1>1, <1>3 DEF Inv, TypeOK, StrayKilled
  <2>5. \A o \in Users : o # u /\ HasDriver(o) => driver'[drv[o]] = driver[drv[o]]
    BY <1>3, <2>3 DEF Inv, TypeOK
  <2>6. \A o \in Users : o # u /\ HasDriver(o) /\ HasDriver(u)' => drv[o] # drv'[u]
    BY <1>3, <2>3 DEF Inv, TypeOK
  <2> QED BY <2>1, <2>2, <2>4, <2>5, <2>6, OneStep
<1> QED BY <1>2, <1>3 DEF GetDriver

LEMMA CallReturns ==
    ASSUME Inv, NEW u \in Users, DriverAnswers(u) \/ ConnectionGivesUp(u)
    PROVE  Inv'
<1> USE DEF DriverAnswers, ConnectionGivesUp, At
<1>1. Others(u) /\ TypeOK'
  BY DEF Inv, TypeOK, Others
<1>2. OwnOK(u)'
  BY DEF Inv, TypeOK, OwnOK, DriverOK, ResponseOK, LanguageOK, HasDriver
<1> QED BY <1>1, <1>2, LocalStep DEF HasDriver

LEMMA AnsweredStep ==
    ASSUME Inv, NEW u \in Users, Answered(u)
    PROVE  Inv'
<1> USE DEF Answered, At, Goto
<1>1. Others(u) /\ TypeOK'
  BY DEF Inv, TypeOK, Others
<1>2. OwnOK(u)'
  BY DEF Inv, TypeOK, OwnOK, DriverOK, ResponseOK, LanguageOK, HasDriver, Outcome
<1> QED BY <1>1, <1>2, LocalStep DEF Inv, TypeOK, HasDriver

LEMMA KilledStep ==
    ASSUME Inv, NEW u \in Users, Killed(u)
    PROVE  Inv'
<1> USE DEF Killed, At, Goto
<1>1. drv[u] \in Drivers /\ HasDriver(u)
  BY DEF Inv, DriverOK, HasDriver
<1>2. Others(u) /\ TypeOK'
  BY <1>1 DEF Inv, TypeOK, Others
<1>3. OwnOK(u)'
  BY <1>1 DEF Inv, TypeOK, OwnOK, DriverOK, ResponseOK, LanguageOK, HasDriver, Outcome
<1>4. StrayKilled'
  BY <1>1 DEF Inv, TypeOK, StrayKilled
<1>5. \A o \in Users : o # u /\ HasDriver(o) => drv[o] # drv[u] /\ drv[o] \in Drivers
  BY <1>1 DEF Inv, OneEach, DriverOK
<1>6. \A o \in Users : o # u /\ HasDriver(o) => driver'[drv[o]] = driver[drv[o]]
  BY <1>1, <1>5 DEF Inv, TypeOK
<1>7. \A o \in Users : o # u /\ HasDriver(o) /\ HasDriver(u)' => drv[o] # drv'[u]
  BY <1>5
<1> QED BY <1>2, <1>3, <1>4, <1>6, <1>7, OneStep

LEMMA PutDriverStep ==
    ASSUME Inv, NEW u \in Users, PutDriver(u)
    PROVE  Inv'
<1> USE DEF At, Goto
<1>1. /\ pc[u] = "put" /\ pc' = [pc EXCEPT ![u] = "finish"]
      /\ UNCHANGED <<req, lang, resp, err, ctx, drv, call, stray>>
  BY DEF PutDriver
<1>2. PICK s \in {"idle", "killed"} :
          driver' = [driver EXCEPT ![drv[u]] = s] /\ (driver[drv[u]] = "killed" => s = "killed")
  BY DEF PutDriver
<1>3. drv[u] \in Drivers /\ HasDriver(u)
  BY <1>1 DEF Inv, DriverOK, HasDriver
<1>4. Others(u) /\ TypeOK'
  BY <1>1, <1>2, <1>3 DEF Inv, TypeOK, Others
<1>5. OwnOK(u)'
  BY <1>1 DEF Inv, TypeOK, OwnOK, DriverOK, ResponseOK, LanguageOK, HasDriver, Outcome
<1>6. StrayKilled'
  BY <1>1, <1>2, <1>3 DEF Inv, TypeOK, StrayKilled
<1>7. \A o \in Users : o # u /\ HasDriver(o) => drv[o] # drv[u] /\ drv[o] \in Drivers
  BY <1>3 DEF Inv, OneEach, DriverOK
<1>8. ~HasDriver(u)'
  BY <1>1 DEF Inv, TypeOK, HasDriver
<1>9. \A o \in Users : o # u /\ HasDriver(o) => driver'[drv[o]] = driver[drv[o]]
  BY <1>2, <1>3, <1>7 DEF Inv, TypeOK
<1> QED BY <1>4, <1>5, <1>6, <1>8, <1>9, OneStep

LEMMA FinishStep ==
    ASSUME Inv, NEW u \in Users, Finish(u)
    PROVE  Inv'
<1> USE DEF Finish, At, Goto
<1>1. Others(u) /\ TypeOK'
  BY DEF Inv, TypeOK, Others
<1>2. OwnOK(u)'
  BY DEF Inv, TypeOK, OwnOK, DriverOK, ResponseOK, LanguageOK, HasDriver, Outcome, Told
<1> QED BY <1>1, <1>2, LocalStep DEF Inv, TypeOK, HasDriver

LEMMA TimeStep ==
    ASSUME Inv, NEW u \in Users, HangUp(u) \/ Expire(u) \/ Overdue(u)
    PROVE  Inv'
<1>1. UNCHANGED <<pc, req, lang, resp, err, drv, call, stray, driver>>
  BY DEF HangUp, Expire, Overdue
<1>2. TypeOK'
  BY <1>1 DEF Inv, TypeOK, HangUp, Expire, Overdue
<1>3. Others(u) /\ OwnOK(u)'
  BY <1>1 DEF Inv, Others, OwnOK, DriverOK, ResponseOK, LanguageOK, HasDriver, Outcome, Truthful, At, Told
<1> QED BY <1>1, <1>2, <1>3, LocalStep DEF HasDriver

LEMMA StrayReturnsStep ==
    ASSUME Inv, NEW d \in Drivers, StrayReturns(d)
    PROVE  Inv'
<1> USE DEF StrayReturns
<1>1. TypeOK' /\ StrayKilled' /\ OneEach' /\ Truthful'
  BY DEF Inv, TypeOK, StrayKilled, OneEach, HasDriver, Truthful, At, Told
<1>2. ASSUME NEW u \in Users PROVE (DriverOK(u) /\ ResponseOK(u) /\ LanguageOK(u))'
  BY DEF Inv, DriverOK, ResponseOK, LanguageOK, HasDriver, Outcome
<1> QED BY <1>1, <1>2 DEF Inv

-----------------------------------------------------------------------------
(* The theorems.                                                           *)

LEMMA InitInv == Init => Inv
<1>1. NoReq \in Requests
  BY DEF NoReq, Requests
<1> QED
  BY <1>1 DEF Init, Inv, TypeOK, OneEach, StrayKilled, Truthful, At, DriverOK, ResponseOK, LanguageOK,
              HasDriver

LEMMA NextInv == Inv /\ [Next]_vars => Inv'
<1> SUFFICES ASSUME Inv, [Next]_vars PROVE Inv'
  OBVIOUS
<1>1. CASE UNCHANGED vars
  <2>1. TypeOK' /\ StrayKilled' /\ OneEach' /\ Truthful'
    BY <1>1 DEF vars, Inv, TypeOK, StrayKilled, OneEach, HasDriver, Truthful, At, Told
  <2>2. ASSUME NEW u \in Users PROVE (DriverOK(u) /\ ResponseOK(u) /\ LanguageOK(u))'
    BY <1>1 DEF vars, Inv, DriverOK, ResponseOK, LanguageOK, HasDriver, Outcome
  <2> QED BY <2>1, <2>2 DEF Inv
<1>2. ASSUME NEW u \in Users, NEW r \in Requests, Receive(u, r) PROVE Inv'
  BY <1>2, ReceiveStep
<1>3. ASSUME NEW u \in Users, Handler(u) PROVE Inv'
  BY <1>3, CheckContentStep, SelectPoolStep, GetDriverStep, AnsweredStep, KilledStep, PutDriverStep,
     FinishStep, ReplyStep DEF Handler
<1>4. ASSUME NEW u \in Users, DriverAnswers(u) \/ ConnectionGivesUp(u) PROVE Inv'
  BY <1>4, CallReturns
<1>5. ASSUME NEW u \in Users, HangUp(u) \/ Expire(u) \/ Overdue(u) PROVE Inv'
  BY <1>5, TimeStep
<1>6. ASSUME NEW d \in Drivers, StrayReturns(d) PROVE Inv'
  BY <1>6, StrayReturnsStep
<1> QED BY <1>1, <1>2, <1>3, <1>4, <1>5, <1>6 DEF Next

\* A request has a driver exactly while its deferred putDriver is pending, no two
\* have the same, and the driver that a killed call left behind never goes back.
THEOREM ParseInvariant == Spec => []Inv
<1> QED BY InitInv, NextInv, PTL DEF Spec

\* The variables of the requests keep their types.
THEOREM ParseTypes == Spec => []TypeOK
<1>1. Inv => TypeOK
  BY DEF Inv
<1> QED BY <1>1, ParseInvariant, PTL

\* Whatever the driver does and whichever of the two deadlines passes when, a
\* request is told the truth: a tree is its own driver's, under the name of the
\* language asked for, an error has no tree, and version 1 always has a response.
THEOREM ParseTruthful == Spec => []Truthful
<1>1. Inv => Truthful
  BY DEF Inv
<1> QED BY <1>1, ParseInvariant, PTL

\* A request calls a driver that serves nobody else: no other request, and no
\* goroutine that parseV1 or parseV2 left behind when it killed its driver.
THEOREM ParseFreshDriver == Spec => []FreshDriver
<1>1. Inv => FreshDriver
  BY DEF Inv, FreshDriver, At, DriverOK, HasDriver, StrayKilled, OneEach
<1> QED BY <1>1, ParseInvariant, PTL
=============================================================================
