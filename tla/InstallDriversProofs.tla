------------------------ MODULE InstallDriversProofs ------------------------
(***************************************************************************)
(* Proofs about InstallDrivers, for any references, workers and flags.     *)
(* They rest on what is proved of the daemon's side: the invariant of      *)
(* Storage, and that its steps are those of ImageStore.                    *)
(***************************************************************************)
EXTENDS InstallDrivers, StorageProofs, FiniteSetTheorems

USE LangAssumption, RefsAssumption, SMTT(30), ZenonT(60)

N == Len(Refs)

Request(r) == [op |-> "install", lang |-> Refs[r].lang, img |-> Refs[r].img, update |-> Update]

Result == [ref : Nat, ans : Answers]

CtlTypeOK ==
    /\ sent \in 0..N
    /\ closed \in BOOLEAN
    /\ job \in [Callers -> 0..sent]
    /\ calling \subseteq Callers
    /\ out \in Seq(Result) /\ \A i \in 1..Len(out) : out[i].ref \in 1..sent
    /\ todo \in Nat /\ errs \in Nat
    /\ shown \subseteq 1..sent
    /\ main \in {"install", "exit"}

\* A reference is with one worker, once in out, or shown, and nowhere else.
Apart ==
    /\ \A v, w \in Callers : job[v] = job[w] /\ job[v] # 0 => v = w
    /\ \A i, j \in 1..Len(out) : out[i].ref = out[j].ref => i = j
    /\ \A w \in Callers : \A i \in 1..Len(out) : out[i].ref # job[w]
    /\ \A w \in Callers : job[w] \notin shown
    /\ \A i \in 1..Len(out) : out[i].ref \notin shown

\* None that was sent is lost.
Kept ==
    \A r \in 1..sent :
        \/ r \in shown
        \/ \E i \in 1..Len(out) : out[i].ref = r
        \/ \E w \in Callers : job[w] = r

\* The calls of the daemon are those of the workers.
Calls ==
    \A w \in Callers :
        /\ w \in calling => job[w] # 0
        /\ Work[w] # NoRequest =>
              w \in calling /\ Work[w] = Request(job[w]) /\ ans[w] = "none"

\* A driver for r is among the images in S.
Good(S, r) ==
    \E s \in S : Lang[s[1]] = Refs[r].lang /\ (Update => s[1] = Refs[r].img)

\* What is reported as installed is installed.
Reports ==
    /\ errs = 0 => \A r \in shown : Good(Shown, r)
    /\ \A i \in 1..Len(out) : ~IsError(out[i].ans) => Good(Shown, out[i].ref)
    /\ \A w \in calling : Work[w] = NoRequest /\ ~IsError(ans[w]) => Good(Shown, job[w])

\* Without updates nothing is removed, so that no directory is without its
\* configuration file.
Tidy == ~Update => \A n \in Images : root[n] \subseteq conf[n]

CtlInv ==
    /\ IndInv
    /\ CtlTypeOK
    /\ Apart /\ Kept
    /\ todo = N - Cardinality(shown)
    /\ main = "exit" => todo = 0
    /\ Calls
    /\ Reports
    /\ Tidy

-----------------------------------------------------------------------------
(* The references, and the calls as the store sees them.                   *)

LEMMA RefsOK ==
    /\ N \in Nat
    /\ \A r \in 1..N : /\ Refs[r].lang \in Languages /\ Refs[r].img \in Images
                       /\ Lang[Refs[r].img] = Refs[r].lang
    /\ \A r, q \in 1..N : Refs[r].lang = Refs[q].lang => r = q
    /\ Update \in BOOLEAN
<1>1. Refs \in Seq([lang : Languages, img : Images]) /\ Update \in BOOLEAN
  OBVIOUS
<1>2. N \in Nat /\ DOMAIN Refs = 1..N
  BY <1>1 DEF N
<1>3. \A r \in 1..N : Refs[r] \in [lang : Languages, img : Images]
  <2> DEFINE R == [lang : Languages, img : Images]
  <2>1. Refs \in Seq(R)
    BY <1>1
  <2> HIDE DEF R
  <2>2. \A r \in 1..N : Refs[r] \in R
    BY <2>1 DEF N
  <2> QED BY <2>2 DEF R
<1>4. \A r \in 1..N : Refs[r].lang \in Languages /\ Refs[r].img \in Images
  BY <1>3
<1> QED BY <1>1, <1>2, <1>4

LEMMA RequestOK ==
    ASSUME NEW r \in 1..N
    PROVE  /\ Request(r) \in Requests /\ Request(r) # NoRequest
           /\ Request(r).op = "install" /\ Request(r).lang = Refs[r].lang
           /\ Request(r).img = Refs[r].img /\ Request(r).update = Update
           /\ Touches(Request(r)) = {Refs[r].lang}
<1>1. /\ Request(r).op = "install" /\ Request(r).lang = Refs[r].lang
      /\ Request(r).img = Refs[r].img /\ Request(r).update = Update
  BY DEF Request
<1>2. Request(r) \in Requests
  BY RefsOK DEF Request, Requests
<1>3. Request(r) # NoRequest
  BY <1>1 DEF NoRequest
<1>4. Touches(Request(r)) = {Refs[r].lang}
  BY <1>1, RefsOK DEF Touches
<1> QED BY <1>1, <1>2, <1>3, <1>4

LEMMA IdleWork ==
    ASSUME IndInv, NEW w \in Callers
    PROVE  /\ call[w].pc = "idle" <=> Work[w] = NoRequest
           /\ call[w].pc # "idle" => Work[w] = call[w].req
<1>1. call[w].pc = "idle" => Work[w] = NoRequest
  BY DEF Work, At
<1> QED BY <1>1, WorkOf

-----------------------------------------------------------------------------
(* What a step of an install call does.                                    *)

\* Without an update, a directory always has its configuration file, and what is
\* there already is installed.
LEMMA TidyStep ==
    ASSUME IndInv, NEW c \in Callers, Step(c), ans[c] = "none",
           call[c].req.op = "install", ~call[c].req.update,
           \A n \in Images : root[n] \subseteq conf[n]
    PROVE  /\ \A n \in Images : root'[n] \subseteq conf'[n]
           /\ ans'[c] = "ok" => \E s \in Shown' : s[1] = call[c].req.img
<1> DEFINE m == call[c].req.img
<1>1. /\ call[c] \in CallType /\ CallOK(call[c]) /\ ans \in [Callers -> Answers]
      /\ root \in [Images -> SUBSET Digests] /\ conf \in [Images -> SUBSET Digests]
  BY DEF IndInv, TypeOK
<1>2. call[c].pc \notin {"rmRootFS", "rmConfig", "rmRoot"}
  BY <1>1 DEF CallOK, RemovalOK
<1>3. m \in Images
  <2>1. call[c].req \in Requests
    BY <1>1 DEF CallType
  <2> QED BY <2>1, Zenon DEF Requests
<1> HIDE DEF m
<1>4. CASE MoveConfig(c)
  <2>1. root' = root /\ ans' = ans /\ conf' = [conf EXCEPT ![m] = @ \cup {call[c].digest}]
    BY <1>4 DEF MoveConfig, m
  <2> QED BY <1>1, <1>3, <2>1
<1>5. CASE MoveRoot(c)
  <2>1. /\ call[c].digest \in Digests /\ root[m] = {} /\ call[c].digest \in conf[m]
        /\ root' = [root EXCEPT ![m] = @ \cup {call[c].digest}]
    BY <1>5, MoveRootFree, Zenon DEF m
  <2>2. conf' = conf
    BY <1>5 DEF MoveRoot
  <2>3. <<m, call[c].digest>> \in Shown'
    BY <1>1, <1>3, <2>1, <2>2 DEF Shown
  <2> QED BY <1>1, <1>3, <2>1, <2>2, <2>3 DEF m
<1>6. CASE InstallRootFS(c)
  <2>1. root' = root /\ conf' = conf
    BY <1>6 DEF InstallRootFS
  <2>2. CASE Installed(m)
    <3>1. PICK d \in Digests : root[m] = {d}
      BY <2>2 DEF Installed
    <3>2. <<m, d>> \in Shown'
      BY <1>3, <2>1, <3>1 DEF Shown
    <3> QED BY <2>1, <3>2 DEF m
  <2>3. CASE ~Installed(m)
    <3>1. ans' = ans \/ ans' = [ans EXCEPT ![c] = "error"]
      BY <1>6, <2>3 DEF InstallRootFS, Return, m
    <3> QED BY <1>1, <2>1, <3>1
  <2> QED BY <2>2, <2>3
<1>7. CASE \/ Glob(c) \/ ReadStatus(c) \/ ListDrivers(c) \/ InstallDriver(c) \/ RemoveDriver(c)
           \/ Digest(c) \/ WriteTo(c)
  <2>1. root' = root /\ conf' = conf
    BY <1>7, Zenon DEF Glob, ReadStatus, ListDrivers, InstallDriver, RemoveDriver, Digest, WriteTo
  <2>2. \/ ans' = ans
        \/ ans' = [ans EXCEPT ![c] = "error"]
        \/ ans' = [ans EXCEPT ![c] = "already"]
    BY <1>7, Zenon DEF Glob, ReadStatus, ListDrivers, InstallDriver, RemoveDriver, Digest,
                     WriteTo, Return
  <2> QED BY <1>1, <2>1, <2>2
<1>8. CASE RemoveRootFS(c) \/ RemoveConfig(c) \/ RemoveRoot(c)
  BY <1>2, <1>8, ZenonT(60) DEF RemoveRootFS, RemoveConfig, RemoveRoot, At
<1> QED BY <1>4, <1>5, <1>6, <1>7, <1>8 DEF Step

\* A step for a reference takes away no image of another language, and it answers
\* with success only when the driver is installed.
LEMMA StepOutcome ==
    ASSUME IndInv, Tidy, NEW c \in Callers, NEW r \in 1..N, Step(c),
           Work[c] = Request(r), ans[c] = "none"
    PROVE  /\ Tidy'
           /\ \A s \in Shown : s \in Shown' \/ Lang[s[1]] = Refs[r].lang
           /\ \A o \in Callers : o # c => Work'[o] = Work[o] /\ ans'[o] = ans[o]
           /\ \/ Work'[c] = Work[c] /\ ans'[c] = ans[c]
              \/ Work'[c] = NoRequest /\ (ans'[c] \in {"ok", "already"} => Good(Shown', r))
<1>1. /\ Work[c].op = "install" /\ Work[c].lang = Refs[r].lang /\ Work[c].img = Refs[r].img
      /\ Work[c].update = Update /\ Work[c] # NoRequest
      /\ Lang[Refs[r].img] = Refs[r].lang /\ Refs[r].img \in Images
  BY RequestOK, RefsOK, Zenon
<1>2. call[c].req = Work[c]
  BY <1>1, IdleWork
<1>3. ~Update => /\ \A n \in Images : root'[n] \subseteq conf'[n]
                 /\ ans'[c] = "ok" => \E s \in Shown' : s[1] = Refs[r].img
  BY <1>1, <1>2, TidyStep DEF Tidy
<1>4. Tidy'
  BY <1>3 DEF Tidy
<1>5. ans \in [Callers -> Answers] /\ Work = [o \in Callers |-> Work[o]]
  BY DEF IndInv, TypeOK, Work
<1>6. CASE UNCHANGED Store!vars
  BY <1>4, <1>6 DEF Store!vars
<1>7. CASE Store!Withdraw(c)
  <2>1. PICK s \in Shown : /\ Lang[s[1]] = Work[c].lang \/ s[1] = Work[c].img
                           /\ Shown' = Shown \ {s}
    BY <1>7 DEF Store!Withdraw
  <2>2. Work' = Work /\ ans' = ans
    BY <1>7 DEF Store!Withdraw
  <2>3. Lang[s[1]] = Refs[r].lang
    BY <1>1, <2>1
  <2> QED BY <1>4, <2>1, <2>2, <2>3
<1>8. CASE Store!Publish(c)
  <2>1. PICK d \in Digests : Shown' = Shown \cup {<<Work[c].img, d>>}
    BY <1>8 DEF Store!Publish
  <2>2. Work' = [Work EXCEPT ![c] = NoRequest] /\ ans' = [ans EXCEPT ![c] = "ok"]
    BY <1>8 DEF Store!Publish
  <2>3. <<Refs[r].img, d>> \in Shown'
    BY <1>1, <2>1
  <2>4. Good(Shown', r)
    BY <1>1, <2>3 DEF Good
  <2> QED BY <1>4, <1>5, <2>1, <2>2, <2>4
<1>9. CASE Store!Answer(c)
  <2>1. /\ Work' = [Work EXCEPT ![c] = NoRequest] /\ ans' = [ans EXCEPT ![c] = ans'[c]]
        /\ Shown' = Shown
    BY <1>9 DEF Store!Answer
  <2>2. ans'[c] = "ok" => ~Update
    BY <1>1, <1>9 DEF Store!Answer
  <2>3. ans'[c] = "already" => ~Update /\ \E s \in Shown : Lang[s[1]] = Refs[r].lang
    BY <1>1, <1>9 DEF Store!Answer
  <2>4. ans'[c] = "ok" => Good(Shown', r)
    BY <1>1, <1>3, <2>2 DEF Good
  <2>5. ans'[c] = "already" => Good(Shown', r)
    BY <2>1, <2>3 DEF Good
  <2> QED BY <1>4, <1>5, <2>1, <2>4, <2>5
<1> QED BY <1>6, <1>7, <1>8, <1>9, StoreCallStep

-----------------------------------------------------------------------------
(* The steps of the command and of its workers.                            *)

\* What the command and the workers keep among themselves.
CtlOwn == CtlTypeOK /\ Apart /\ Kept /\ todo = N - Cardinality(shown) /\ (main = "exit" => todo = 0)

LEMMA CtlInvSplit == CtlInv <=> IndInv /\ Tidy /\ CtlOwn /\ Calls /\ Reports
BY DEF CtlInv, CtlOwn

LEMMA Unmoved ==
    ASSUME IndInv, Tidy, UNCHANGED vars
    PROVE  /\ IndInv' /\ Tidy'
           /\ Work' = Work /\ Shown' = Shown /\ ans' = ans
<1>1. root' = root /\ conf' = conf /\ call' = call /\ ans' = ans
  BY DEF vars
<1>2. Work' = Work /\ Shown' = Shown /\ Tidy'
  BY <1>1 DEF Work, Shown, Tidy, At
<1> QED BY <1>1, <1>2, StutterIndInv

LEMMA SendJobStep ==
    ASSUME CtlInv, NEW w \in Callers, SendJob(w)
    PROVE  CtlInv'
<1>1. /\ IndInv' /\ Tidy' /\ Work' = Work /\ ans' = ans /\ Shown' = Shown
  BY Unmoved DEF CtlInv, SendJob
<1>2. /\ CtlTypeOK /\ Apart /\ Kept /\ Calls /\ Reports /\ todo = N - Cardinality(shown)
      /\ main = "exit" => todo = 0
  BY DEF CtlInv
<1>3. /\ sent < N /\ job[w] = 0 /\ sent' = sent + 1 /\ job' = [job EXCEPT ![w] = sent + 1]
      /\ closed' = closed /\ calling' = calling /\ out' = out /\ todo' = todo /\ errs' = errs
      /\ shown' = shown /\ main' = main
  BY DEF SendJob, N
<1>4. /\ sent \in Nat /\ N \in Nat /\ job \in [Callers -> 0..sent] /\ shown \subseteq 1..sent
      /\ \A i \in 1..Len(out) : out[i].ref \in 1..sent
  BY <1>2, RefsOK DEF CtlTypeOK
<1>5. /\ job' \in [Callers -> 0..(sent + 1)] /\ job'[w] = sent + 1
      /\ \A v \in Callers : v # w => job'[v] = job[v] /\ job[v] # sent + 1
  BY <1>3, <1>4
<1>6. \A i \in 1..Len(out) : out[i].ref \in 1..(sent + 1) /\ out[i].ref # sent + 1
  BY <1>4
<1>7. CtlTypeOK'
  BY <1>2, <1>3, <1>4, <1>5, <1>6 DEF CtlTypeOK
<1>8. Apart'
  <2>1. \A u, v \in Callers : job'[u] = job'[v] /\ job'[u] # 0 => u = v
    BY <1>2, <1>5 DEF Apart
  <2>2. \A v \in Callers : \A i \in 1..Len(out) : out[i].ref # job'[v]
    BY <1>2, <1>5, <1>6 DEF Apart
  <2>3. \A v \in Callers : job'[v] \notin shown
    BY <1>2, <1>4, <1>5 DEF Apart
  <2> QED BY <1>2, <1>3, <2>1, <2>2, <2>3 DEF Apart
<1>9. Kept'
  BY <1>2, <1>3, <1>4, <1>5 DEF Kept
<1>10. Calls'
  BY <1>1, <1>2, <1>3, <1>5 DEF Calls
<1>11. Reports'
  <2>1. \A v \in calling : job'[v] = job[v] /\ job[v] \in 1..N
    BY <1>2, <1>3, <1>4, <1>5 DEF Calls, CtlTypeOK
  <2> QED BY <1>1, <1>2, <1>3, <1>4, <1>6, <2>1 DEF Reports
<1> QED BY <1>1, <1>2, <1>3, <1>7, <1>8, <1>9, <1>10, <1>11 DEF CtlInv

LEMMA CallInstallDriverStep ==
    ASSUME CtlInv, NEW w \in Callers, CallInstallDriver(w)
    PROVE  CtlInv'
<1> DEFINE r == job[w]
           n == [Idle EXCEPT !.pc = "glob", !.req = Request(r)]
<1>1. IndInv /\ Tidy /\ CtlOwn /\ Calls /\ Reports /\ CtlTypeOK /\ Apart
  BY DEF CtlInv, CtlOwn
<1>2. /\ r # 0 /\ w \notin calling /\ Begin(w, Request(r)) /\ calling' = calling \cup {w}
      /\ UNCHANGED <<sent, closed, job, out, todo, errs, shown, main>>
  BY DEF CallInstallDriver, Request
<1>3. r \in 1..N /\ \A v \in Callers : job[v] # 0 => job[v] \in 1..N
  BY <1>1, <1>2, RefsOK DEF CtlTypeOK
<1>4. Request(r) \in Requests /\ Touches(Request(r)) = {Refs[r].lang}
  BY <1>3, RequestOK
<1>5. Alone(w, Request(r))
  <2>1. SUFFICES ASSUME NEW o \in Callers \ {w}, call[o].pc # "idle"
                 PROVE  Touches(call[o].req) \cap Touches(Request(r)) = {}
    BY DEF Alone, At
  <2>2. Work[o] = call[o].req /\ Work[o] # NoRequest
    BY <1>1, <2>1, IdleWork
  <2>3. call[o].req = Request(job[o]) /\ job[o] # 0
    BY <1>1, <2>2 DEF Calls
  <2>4. job[o] # r /\ job[o] \in 1..N
    BY <1>1, <1>2, <1>3, <2>3 DEF Apart
  <2>5. Touches(call[o].req) = {Refs[job[o]].lang} /\ Refs[job[o]].lang # Refs[r].lang
    BY <1>3, <2>3, <2>4, RequestOK, RefsOK
  <2> QED BY <1>4, <2>5
<1>6. IndInv'
  BY <1>1, <1>2, <1>4, <1>5, BeginStep
<1>7. /\ root' = root /\ conf' = conf /\ Set(w, n) /\ ans' = [ans EXCEPT ![w] = "none"]
      /\ ans \in [Callers -> Answers]
  BY <1>1, <1>2 DEF Begin, IndInv, TypeOK
<1>8. n \in CallType /\ n.pc = "glob" /\ n.req = Request(r)
  BY <1>4, BeginType, Zenon
<1> HIDE DEF n
<1>9. Shown' = Shown /\ Tidy'
  BY <1>1, <1>7 DEF Shown, Tidy
<1>10. Work' = [Work EXCEPT ![w] = Request(r)]
  BY <1>1, <1>7, <1>8, WorkSet
<1>11. /\ Work'[w] = Request(r) /\ ans'[w] = "none" /\ Request(r) # NoRequest
       /\ \A v \in Callers : v # w => Work'[v] = Work[v] /\ ans'[v] = ans[v]
  <2>1. Work = [o \in Callers |-> Work[o]]
    BY DEF Work
  <2> QED BY <1>3, <1>7, <1>10, <2>1, RequestOK
<1> HIDE DEF r
<1>12. CtlOwn'
  BY <1>1, <1>2 DEF CtlOwn, CtlTypeOK, Apart, Kept
<1>13. Calls'
  BY <1>1, <1>2, <1>11 DEF Calls, r
<1>14. Reports'
  <2>1. ASSUME NEW v \in calling PROVE v \in Callers /\ v # w /\ job[v] \in 1..N
    <3>1. v \in Callers /\ v # w
      BY <1>1, <1>2 DEF CtlTypeOK
    <3> QED BY <1>1, <1>3, <3>1 DEF Calls
  <2>2. shown \subseteq 1..N /\ \A i \in 1..Len(out) : out[i].ref \in 1..N
    BY <1>1, RefsOK DEF CtlTypeOK
  <2> QED BY <1>1, <1>2, <1>9, <1>11, <2>1, <2>2 DEF Reports
<1> QED BY <1>6, <1>9, <1>12, <1>13, <1>14, CtlInvSplit DEF CtlInv, CtlOwn

LEMMA SendResultStep ==
    ASSUME CtlInv, NEW w \in Callers, SendResult(w)
    PROVE  CtlInv'
<1> DEFINE e == [ref |-> job[w], ans |-> ans[w]]
           k == Len(out)
<1>1. IndInv /\ Tidy /\ Calls /\ Reports /\ CtlTypeOK /\ Apart /\ Kept
      /\ todo = N - Cardinality(shown) /\ (main = "exit" => todo = 0)
  BY DEF CtlInv
<1>2. /\ IndInv' /\ Tidy' /\ Work' = Work /\ ans' = ans /\ Shown' = Shown
  BY <1>1, Unmoved DEF SendResult
<1>3. /\ w \in calling /\ call[w].pc = "idle"
      /\ out' = Append(out, e) /\ job' = [job EXCEPT ![w] = 0] /\ calling' = calling \ {w}
      /\ UNCHANGED <<sent, closed, todo, errs, shown, main>>
  BY DEF SendResult, At
<1>4. /\ sent \in Nat /\ N \in Nat /\ sent <= N /\ job \in [Callers -> 0..sent]
      /\ shown \subseteq 1..sent /\ calling \subseteq Callers
      /\ out \in Seq(Result) /\ \A i \in 1..Len(out) : out[i].ref \in 1..sent
  BY <1>1, RefsOK DEF CtlTypeOK
<1>5. job[w] \in 1..sent /\ ans[w] \in Answers /\ Work[w] = NoRequest
  <2>1. ans \in [Callers -> Answers]
    BY <1>1 DEF IndInv, TypeOK
  <2> QED BY <1>1, <1>3, <1>4, <2>1, IdleWork DEF Calls
<1>6. e \in Result /\ e.ref = job[w] /\ e.ans = ans[w]
  BY <1>4, <1>5 DEF Result
<1> HIDE DEF e
<1>7. /\ k \in Nat /\ out' \in Seq(Result) /\ Len(out') = k + 1 /\ out'[k + 1] = e
      /\ \A i \in 1..k : out'[i] = out[i]
  BY <1>3, <1>4, <1>6
<1> HIDE DEF k
<1>8. /\ job' \in [Callers -> 0..sent] /\ job'[w] = 0
      /\ \A v \in Callers : v # w => job'[v] = job[v]
  BY <1>3, <1>4
<1>9. /\ \A i \in 1..k : out[i].ref \in 1..sent /\ out'[i].ref = out[i].ref /\ out'[i].ans = out[i].ans
      /\ out'[k + 1].ref = job[w] /\ out'[k + 1].ans = ans[w]
      /\ \A i \in 1..(k + 1) : i \in 1..k \/ i = k + 1
  BY <1>4, <1>6, <1>7 DEF k
<1>10. CtlTypeOK'
  <2>1. \A i \in 1..(k + 1) : out'[i].ref \in 1..sent
    BY <1>5, <1>9
  <2> QED BY <1>1, <1>3, <1>4, <1>7, <1>8, <2>1 DEF CtlTypeOK
<1>11. Apart'
  <2>1. \A u, v \in Callers : job'[u] = job'[v] /\ job'[u] # 0 => u = v
    BY <1>1, <1>8 DEF Apart
  <2>2. \A i, j \in 1..(k + 1) : out'[i].ref = out'[j].ref => i = j
    BY <1>1, <1>9 DEF Apart, k
  <2>3. \A v \in Callers : \A i \in 1..(k + 1) : out'[i].ref # job'[v]
    <3>1. ASSUME NEW v \in Callers, NEW i \in 1..(k + 1) PROVE out'[i].ref # job'[v]
      <4>1. CASE v = w
        BY <1>5, <1>8, <1>9, <4>1
      <4>2. CASE v # w /\ i \in 1..k
        BY <1>1, <1>8, <1>9, <4>2 DEF Apart, k
      <4>3. CASE v # w /\ i = k + 1
        BY <1>1, <1>5, <1>8, <1>9, <4>3 DEF Apart
      <4> QED BY <1>9, <4>1, <4>2, <4>3
    <3> QED BY <3>1
  <2>4. \A v \in Callers : job'[v] \notin shown
    BY <1>1, <1>4, <1>8 DEF Apart
  <2>5. \A i \in 1..(k + 1) : out'[i].ref \notin shown
    BY <1>1, <1>9 DEF Apart, k
  <2> QED BY <1>3, <1>7, <2>1, <2>2, <2>3, <2>4, <2>5 DEF Apart
<1>12. Kept'
  <2>1. SUFFICES ASSUME NEW r \in 1..sent
                 PROVE  \/ r \in shown
                        \/ \E i \in 1..(k + 1) : out'[i].ref = r
                        \/ \E v \in Callers : job'[v] = r
    BY <1>3, <1>7 DEF Kept
  <2>2. CASE r \in shown
    BY <2>2
  <2>3. CASE \E i \in 1..k : out[i].ref = r
    BY <1>7, <1>9, <2>3
  <2>4. CASE r = job[w]
    BY <1>7, <1>9, <2>4
  <2>5. CASE \E v \in Callers : v # w /\ job[v] = r
    BY <1>8, <2>5
  <2> QED BY <1>1, <2>2, <2>3, <2>4, <2>5 DEF Kept, k
<1>13. Calls'
  BY <1>1, <1>2, <1>3, <1>5, <1>8 DEF Calls
<1>14. Reports'
  <2>1. errs = 0 => \A r \in shown : Good(Shown', r)
    BY <1>1, <1>2, <1>4 DEF Reports
  <2>2. ~IsError(ans[w]) => Good(Shown', job[w])
    BY <1>1, <1>2, <1>3, <1>5 DEF Reports
  <2>3. \A i \in 1..(k + 1) : ~IsError(out'[i].ans) => Good(Shown', out'[i].ref)
    <3>1. ASSUME NEW i \in 1..k, ~IsError(out'[i].ans) PROVE Good(Shown', out'[i].ref)
      BY <1>1, <1>2, <1>4, <1>9, <3>1 DEF Reports, k
    <3> QED BY <1>9, <2>2, <3>1
  <2>4. \A v \in calling' : Work'[v] = NoRequest /\ ~IsError(ans'[v]) => Good(Shown', job'[v])
    <3>1. ASSUME NEW v \in calling, v # w, Work[v] = NoRequest, ~IsError(ans[v])
          PROVE  Good(Shown', job[v])
      <4>1. job[v] \in 1..N /\ Good(Shown, job[v])
        BY <1>1, <1>4, <3>1 DEF Calls, Reports
      <4> QED BY <1>2, <4>1
    <3> QED BY <1>2, <1>3, <1>4, <1>8, <3>1
  <2> QED BY <1>3, <1>7, <2>1, <2>3, <2>4, ZenonT(60) DEF Reports
<1> QED BY <1>1, <1>2, <1>3, <1>10, <1>11, <1>12, <1>13, <1>14 DEF CtlInv

LEMMA ShownFinite ==
    ASSUME CtlTypeOK
    PROVE  IsFiniteSet(shown) /\ Cardinality(shown) \in Nat
<1>1. sent \in Int /\ shown \subseteq 1..sent
  BY RefsOK DEF CtlTypeOK
<1>2. IsFiniteSet(1..sent)
  BY <1>1, FS_Interval
<1> QED BY <1>1, <1>2, FS_Subset, FS_CardinalityType, ZenonT(60)

LEMMA AcceptStep ==
    ASSUME CtlInv, Accept
    PROVE  CtlInv'
<1> DEFINE k == Len(out)
           q == out[1].ref
<1>1. IndInv /\ Tidy /\ Calls /\ Reports /\ CtlTypeOK /\ Apart /\ Kept
      /\ todo = N - Cardinality(shown) /\ (main = "exit" => todo = 0)
  BY DEF CtlInv
<1>2. IndInv' /\ Tidy' /\ Work' = Work /\ ans' = ans /\ Shown' = Shown
  BY <1>1, Unmoved DEF Accept
<1>3. /\ main = "install" /\ todo > 0 /\ out # <<>> /\ out' = Tail(out) /\ todo' = todo - 1
      /\ errs' = IF IsError(Head(out).ans) THEN errs + 1 ELSE errs
      /\ shown' = shown \cup {Head(out).ref}
      /\ UNCHANGED <<sent, closed, job, calling, main>>
  BY DEF Accept
<1>4. /\ sent \in Nat /\ N \in Nat /\ sent <= N /\ job \in [Callers -> 0..sent]
      /\ shown \subseteq 1..sent /\ todo \in Nat /\ errs \in Nat
      /\ out \in Seq(Result) /\ \A i \in 1..Len(out) : out[i].ref \in 1..sent
  BY <1>1, RefsOK DEF CtlTypeOK
<1>5. /\ k \in Nat /\ k >= 1 /\ out' \in Seq(Result) /\ Len(out') = k - 1 /\ Head(out) = out[1]
      /\ \A i \in 1..(k - 1) : i + 1 \in 1..k /\ out'[i] = out[i + 1]
  BY <1>3, <1>4
<1>6. shown' = shown \cup {q} /\ q \in 1..sent /\ q \notin shown
  BY <1>1, <1>3, <1>4, <1>5 DEF Apart
<1>7. /\ errs' \in Nat
      /\ errs' = 0 => errs = 0 /\ ~IsError(out[1].ans)
  BY <1>3, <1>4, <1>5
<1> HIDE DEF k, q
<1>8. \A i \in 1..(k - 1) : /\ i + 1 \in 1..k /\ out'[i].ref = out[i + 1].ref
                            /\ out'[i].ans = out[i + 1].ans
  BY <1>5
<1>9. CtlTypeOK'
  <2>1. \A i \in 1..(k - 1) : out'[i].ref \in 1..sent
    BY <1>4, <1>8 DEF k
  <2>2. todo' \in Nat /\ shown' \subseteq 1..sent
    <3>1. todo' = todo - 1 /\ todo > 0 /\ todo \in Nat
      BY <1>3, <1>4
    <3>2. todo' \in Nat
      BY <3>1
    <3> QED BY <1>4, <1>6, <3>2
  <2>3. out' \in Seq(Result) /\ \A i \in 1..Len(out') : out'[i].ref \in 1..sent
    BY <1>5, <2>1
  <2>4. sent' = sent /\ closed' = closed /\ job' = job /\ calling' = calling /\ main' = main
    BY <1>3
  <2> QED BY <1>1, <1>7, <2>2, <2>3, <2>4 DEF CtlTypeOK
<1>10. todo' = N - Cardinality(shown')
  <2>1. Cardinality(shown') = Cardinality(shown) + 1 /\ Cardinality(shown) \in Nat
    BY <1>1, <1>6, ShownFinite, FS_AddElement, ZenonT(60)
  <2> QED BY <1>1, <1>3, <1>4, <2>1
<1>11. Apart'
  <2>1. \A i, j \in 1..(k - 1) : out'[i].ref = out'[j].ref => i = j
    <3>1. ASSUME NEW i \in 1..(k - 1), NEW j \in 1..(k - 1), out'[i].ref = out'[j].ref PROVE i = j
      <4>1. i + 1 = j + 1
        BY <1>1, <1>8, <3>1 DEF Apart, k
      <4> QED BY <1>5, <4>1
    <3> QED BY <3>1
  <2>2. \A v \in Callers : \A i \in 1..(k - 1) : out'[i].ref # job[v]
    BY <1>1, <1>8 DEF Apart, k
  <2>3. \A v \in Callers : job[v] \notin shown'
    BY <1>1, <1>5, <1>6 DEF Apart, k, q
  <2>4. \A i \in 1..(k - 1) : out'[i].ref \notin shown'
    <3>1. ASSUME NEW i \in 1..(k - 1) PROVE out'[i].ref \notin shown /\ out'[i].ref # q
      <4>1. 1 \in 1..k /\ i + 1 # 1 /\ i + 1 \in 1..k
        BY <1>5, <1>8
      <4> QED BY <1>1, <1>8, <4>1 DEF Apart, k, q
    <3> QED BY <1>6, <3>1
  <2> QED BY <1>1, <1>3, <1>5, <2>1, <2>2, <2>3, <2>4 DEF Apart
<1>12. Kept'
  <2>1. ASSUME NEW i \in 1..k, i # 1 PROVE i - 1 \in 1..(k - 1) /\ out'[i - 1].ref = out[i].ref
    <3>1. i - 1 \in 1..(k - 1) /\ (i - 1) + 1 = i
      BY <1>5, <2>1
    <3> QED BY <1>8, <3>1
  <2>2. ASSUME NEW r \in 1..sent
        PROVE  \/ r \in shown'
               \/ \E i \in 1..(k - 1) : out'[i].ref = r
               \/ \E v \in Callers : job[v] = r
    <3>1. CASE \E i \in 1..k : out[i].ref = r
      BY <1>6, <2>1, <3>1 DEF q
    <3> QED BY <1>1, <1>6, <3>1 DEF Kept, k
  <2> QED BY <1>3, <1>5, <2>2, ZenonT(60) DEF Kept
<1>13. Calls'
  BY <1>1, <1>2, <1>3 DEF Calls
<1>14. Reports'
  <2>1. errs' = 0 => \A r \in shown' : Good(Shown, r)
    <3>1. 1 \in 1..k
      BY <1>5
    <3>2. ~IsError(out[1].ans) => Good(Shown, q)
      BY <1>1, <3>1 DEF Reports, k, q
    <3> QED BY <1>1, <1>6, <1>7, <3>2 DEF Reports
  <2>2. \A i \in 1..(k - 1) : ~IsError(out'[i].ans) => Good(Shown, out'[i].ref)
    BY <1>1, <1>8 DEF Reports, k
  <2>3. \A v \in calling : Work[v] = NoRequest /\ ~IsError(ans[v]) => Good(Shown, job[v])
    BY <1>1 DEF Reports
  <2> QED BY <1>2, <1>3, <1>5, <2>1, <2>2, <2>3, Zenon DEF Reports
<1> QED BY <1>2, <1>3, <1>9, <1>10, <1>11, <1>12, <1>13, <1>14 DEF CtlInv

LEMMA CloseFinishStep ==
    ASSUME CtlInv, CloseJobs \/ Finish
    PROVE  CtlInv'
<1>1. IndInv' /\ Tidy' /\ Work' = Work /\ ans' = ans /\ Shown' = Shown
  BY Unmoved DEF CtlInv, CloseJobs, Finish
<1>2. /\ UNCHANGED <<sent, job, calling, out, todo, errs, shown>>
      /\ closed' \in {closed, TRUE} /\ main' \in {"install", "exit"}
      /\ main' = "exit" => main = "exit" \/ todo = 0
  BY Zenon DEF CtlInv, CtlTypeOK, CloseJobs, Finish
<1>3. CtlTypeOK'
  BY <1>2, ZenonT(60) DEF CtlInv, CtlTypeOK
<1>4. Apart' /\ Kept' /\ Calls' /\ Reports'
  BY <1>1, <1>2 DEF CtlInv, Apart, Kept, Calls, Reports
<1> QED BY <1>1, <1>2, <1>3, <1>4 DEF CtlInv

\* A step of the daemon for one worker leaves what was reported of the other
\* languages alone.
LEMMA DaemonStepStep ==
    ASSUME CtlInv, NEW w \in Callers, DaemonStep(w)
    PROVE  CtlInv'
<1> DEFINE r == job[w]
<1>1. IndInv /\ Tidy /\ Calls /\ Reports /\ CtlTypeOK /\ Apart /\ Kept
      /\ todo = N - Cardinality(shown) /\ (main = "exit" => todo = 0)
  BY DEF CtlInv
<1>2. Step(w) /\ UNCHANGED <<sent, closed, job, calling, out, todo, errs, shown, main>>
  BY DEF DaemonStep, ctlVars
<1>3. call[w].pc # "idle"
  BY <1>2, ZenonT(60) DEF Step, Glob, ReadStatus, ListDrivers, InstallDriver, RemoveDriver, RemoveRootFS,
     RemoveConfig, RemoveRoot, InstallRootFS, Digest, WriteTo, MoveConfig, MoveRoot, At
<1>4. Work[w] # NoRequest /\ w \in calling /\ Work[w] = Request(r) /\ ans[w] = "none" /\ r # 0
  BY <1>1, <1>3, IdleWork DEF Calls
<1>5. /\ sent \in Nat /\ N \in Nat /\ sent <= N /\ job \in [Callers -> 0..sent]
      /\ shown \subseteq 1..sent /\ calling \subseteq Callers
      /\ \A i \in 1..Len(out) : out[i].ref \in 1..sent
  BY <1>1, RefsOK DEF CtlTypeOK
<1>6. r \in 1..N
  BY <1>4, <1>5
<1> HIDE DEF r
<1>7. /\ Tidy'
      /\ \A s \in Shown : s \in Shown' \/ Lang[s[1]] = Refs[r].lang
      /\ \A o \in Callers : o # w => Work'[o] = Work[o] /\ ans'[o] = ans[o]
      /\ \/ Work'[w] = Work[w] /\ ans'[w] = ans[w]
         \/ Work'[w] = NoRequest /\ (ans'[w] \in {"ok", "already"} => Good(Shown', r))
  BY <1>1, <1>2, <1>4, <1>6, StepOutcome
<1>8. IndInv'
  BY <1>1, <1>2, StepIndInv
<1>9. ASSUME NEW q \in 1..N, q # r, Good(Shown, q) PROVE Good(Shown', q)
  <2>1. Refs[q].lang # Refs[r].lang
    BY <1>6, <1>9, RefsOK
  <2> QED BY <1>7, <1>9, <2>1 DEF Good
<1>10. CtlTypeOK' /\ Apart' /\ Kept'
  BY <1>1, <1>2, Zenon DEF CtlTypeOK, Apart, Kept
<1>11. Calls'
  BY <1>1, <1>2, <1>4, <1>7, Zenon DEF Calls, r
<1>12. Reports'
  <2>1. ASSUME errs = 0, NEW q \in shown PROVE Good(Shown', q)
    <3>1. q \in 1..N /\ q # r
      BY <1>1, <1>5 DEF Apart, r
    <3>2. Good(Shown, q)
      BY <1>1, <2>1 DEF Reports
    <3> QED BY <1>9, <3>1, <3>2
  <2>2. ASSUME NEW i \in 1..Len(out), ~IsError(out[i].ans) PROVE Good(Shown', out[i].ref)
    <3>1. out[i].ref \in 1..N /\ out[i].ref # r
      BY <1>1, <1>5 DEF Apart, r
    <3>2. Good(Shown, out[i].ref)
      BY <1>1, <2>2 DEF Reports
    <3> QED BY <1>9, <3>1, <3>2
  <2>3. ASSUME NEW v \in calling, Work'[v] = NoRequest, ~IsError(ans'[v])
        PROVE  Good(Shown', job[v])
    <3>1. CASE v = w
      <4>1. ans'[w] \in {"ok", "already"}
        BY <2>3, <3>1 DEF IsError
      <4> QED BY <1>4, <1>7, <2>3, <3>1, <4>1 DEF r
    <3>2. CASE v # w
      <4>1. v \in Callers /\ job[v] \in 1..N /\ job[v] # r
        BY <1>1, <1>5, <3>2 DEF Apart, Calls, r
      <4>2. Good(Shown, job[v])
        BY <1>1, <1>7, <2>3, <3>2, <4>1, ZenonT(60) DEF Reports
      <4> QED BY <1>9, <4>1, <4>2
    <3> QED BY <3>1, <3>2
  <2> QED BY <1>2, <2>1, <2>2, <2>3, ZenonT(60) DEF Reports
<1> QED BY <1>1, <1>2, <1>7, <1>8, <1>10, <1>11, <1>12 DEF CtlInv

\* The workers whose calls a crash interrupts report an error.
LEMMA DaemonCrashStep ==
    ASSUME CtlInv, DaemonCrash
    PROVE  CtlInv'
<1>1. IndInv /\ Tidy /\ Calls /\ Reports /\ CtlTypeOK /\ Apart /\ Kept
      /\ todo = N - Cardinality(shown) /\ (main = "exit" => todo = 0)
  BY DEF CtlInv
<1>2. Crash /\ UNCHANGED <<sent, closed, job, calling, out, todo, errs, shown, main>>
  BY DEF DaemonCrash, ctlVars
<1>3. IndInv'
  BY <1>1, <1>2, CrashStep
<1>4. Shown' = Shown /\ Tidy'
  BY <1>1, <1>2 DEF Crash, Shown, Tidy
<1>5. \A v \in Callers : Work'[v] = NoRequest
  BY <1>2, IdleType DEF Crash, Work, At
<1>6. \A v \in Callers : ans'[v] = IF Work[v] = NoRequest THEN ans[v] ELSE "unavailable"
  BY <1>1, <1>2, IdleWork DEF Crash, At
<1>7. CtlTypeOK' /\ Apart' /\ Kept'
  BY <1>1, <1>2 DEF CtlTypeOK, Apart, Kept
<1>8. Calls'
  BY <1>1, <1>2, <1>5 DEF Calls
<1>9. Reports'
  <2>1. ASSUME NEW v \in calling, ~IsError(ans'[v]) PROVE Good(Shown, job[v])
    <3>1. v \in Callers /\ Work[v] = NoRequest /\ ans'[v] = ans[v]
      BY <1>1, <1>6, <2>1 DEF CtlTypeOK, IsError
    <3> QED BY <1>1, <2>1, <3>1 DEF Reports
  <2> QED BY <1>1, <1>2, <1>4, <2>1 DEF Reports
<1> QED BY <1>1, <1>2, <1>3, <1>4, <1>7, <1>8, <1>9 DEF CtlInv

LEMMA CtlInvInit == CtlInit => CtlInv
<1> SUFFICES ASSUME CtlInit PROVE CtlInv
  OBVIOUS
<1>1. IndInv
  BY InitIndInv DEF CtlInit
<1>2. /\ sent = 0 /\ closed = FALSE /\ job = [w \in Callers |-> 0] /\ calling = {} /\ out = <<>>
      /\ todo = N /\ errs = 0 /\ shown = {} /\ main = "install" /\ Init
  BY DEF CtlInit, N
<1>3. out \in Seq(Result) /\ Len(out) = 0 /\ N \in Nat
  BY <1>2, RefsOK
<1>4. CtlTypeOK /\ Apart /\ Kept
  <2>1. 1..Len(out) = {} /\ 1..sent = {} /\ \A w \in Callers : job[w] = 0
    BY <1>2, <1>3
  <2>2. job \in [Callers -> 0..sent]
    BY <1>2
  <2>3. CtlTypeOK
    <3>1. sent \in 0..N /\ todo \in Nat /\ errs \in Nat
      BY <1>2, <1>3
    <3>2. closed \in BOOLEAN /\ calling \subseteq Callers /\ shown \subseteq 1..sent
      BY <1>2, Zenon
    <3>3. \A i \in 1..Len(out) : out[i].ref \in 1..sent
      BY <2>1, Zenon
    <3> QED BY <1>2, <1>3, <2>2, <3>1, <3>2, <3>3 DEF CtlTypeOK
  <2>4. Apart /\ Kept
    BY <1>2, <2>1 DEF Apart, Kept
  <2> QED BY <2>3, <2>4
<1>5. todo = N - Cardinality(shown)
  BY <1>2, <1>3, FS_EmptySet
<1>6. \A w \in Callers : Work[w] = NoRequest
  BY <1>2, IdleType DEF Init, Work, At
<1>7. Calls /\ Reports
  BY <1>2, <1>3, <1>6 DEF Calls, Reports
<1>8. Tidy
  BY <1>2 DEF Init, Tidy
<1> QED BY <1>1, <1>2, <1>4, <1>5, <1>7, <1>8 DEF CtlInv

LEMMA CtlInvNext ==
    ASSUME CtlInv, [CtlNext]_allVars
    PROVE  CtlInv'
<1>1. ASSUME NEW w \in Callers,
             SendJob(w) \/ CallInstallDriver(w) \/ SendResult(w) \/ DaemonStep(w)
      PROVE  CtlInv'
  BY <1>1, SendJobStep, CallInstallDriverStep, SendResultStep, DaemonStepStep
<1>2. CASE Accept \/ CloseJobs \/ Finish \/ DaemonCrash
  BY <1>2, AcceptStep, CloseFinishStep, DaemonCrashStep
<1>3. CASE UNCHANGED allVars
  <2>1. UNCHANGED vars /\ UNCHANGED <<sent, closed, job, calling, out, todo, errs, shown, main>>
    BY <1>3 DEF allVars, ctlVars
  <2>2. IndInv' /\ Tidy' /\ Work' = Work /\ ans' = ans /\ Shown' = Shown
    BY <2>1, Unmoved DEF CtlInv
  <2>3. CtlTypeOK' /\ Apart' /\ Kept' /\ Calls' /\ Reports'
    BY <2>1, <2>2, Zenon DEF CtlInv, CtlTypeOK, Apart, Kept, Calls, Reports
  <2> QED BY <2>1, <2>2, <2>3 DEF CtlInv
<1> QED BY <1>1, <1>2, <1>3 DEF CtlNext

-----------------------------------------------------------------------------

\* Whatever the workers, the daemon and a crash do: every reference is at one
\* place, calls are about different languages, and what is reported as installed
\* is installed.
THEOREM InstallInvariant == CtlSpec => []CtlInv
BY CtlInvInit, CtlInvNext, PTL DEF CtlSpec

\* The calls of the workers never overlap on a language, so that what storage.go
\* relies on holds for driver install --all.
THEOREM InstallStorage == CtlSpec => []IndInv
<1>1. CtlInv => IndInv
  BY DEF CtlInv
<1> QED BY <1>1, InstallInvariant, PTL

\* Every reference sent to jobs is with one worker, once in out, or shown, and
\* installDrivers waits for as many results as are to come.
THEOREM InstallOnePlace == CtlSpec => []OnePlace
<1>1. ASSUME CtlInv, NEW r \in DOMAIN Refs
      PROVE  LET working == Cardinality({w \in Callers : job[w] = r})
                 waiting == Cardinality({k \in DOMAIN out : out[k].ref = r})
             IN  working + waiting + (IF r \in shown THEN 1 ELSE 0) = (IF r <= sent THEN 1 ELSE 0)
  <2> DEFINE W == {w \in Callers : job[w] = r}
             O == {k \in DOMAIN out : out[k].ref = r}
  <2>1. r \in 1..N /\ CtlTypeOK /\ Apart /\ Kept
    BY <1>1 DEF CtlInv, N
  <2>2. /\ sent \in Nat /\ job \in [Callers -> 0..sent] /\ shown \subseteq 1..sent
        /\ DOMAIN out = 1..Len(out) /\ \A i \in 1..Len(out) : out[i].ref \in 1..sent
    BY <2>1 DEF CtlTypeOK
  <2>3. W = {} \/ \E w \in Callers : W = {w}
    BY <2>1, RefsOK DEF Apart
  <2>4. O = {} \/ \E k \in 1..Len(out) : O = {k}
    BY <2>1, <2>2 DEF Apart
  <2>5. Cardinality(W) = IF W = {} THEN 0 ELSE 1
    BY <2>3, FS_EmptySet, FS_Singleton, Zenon
  <2>6. Cardinality(O) = IF O = {} THEN 0 ELSE 1
    BY <2>4, FS_EmptySet, FS_Singleton, ZenonT(60)
  <2>7. /\ W # {} => O = {} /\ r \notin shown
        /\ O # {} => r \notin shown
    BY <2>1, <2>2 DEF Apart
  <2>8. r \in 1..sent => W # {} \/ O # {} \/ r \in shown
    BY <2>1, <2>2, ZenonT(60) DEF Kept
  <2>9. r \notin 1..sent => W = {} /\ O = {} /\ r \notin shown
    BY <2>1, <2>2, RefsOK
  <2>10. r \in 1..sent <=> r <= sent
    BY <2>1, <2>2, RefsOK
  <2> HIDE DEF W, O
  <2>11. Cardinality(W) + Cardinality(O) + (IF r \in shown THEN 1 ELSE 0) = (IF r <= sent THEN 1 ELSE 0)
    BY <2>5, <2>6, <2>7, <2>8, <2>9, <2>10
  <2> QED BY <2>11 DEF W, O
<1>2. CtlInv => OnePlace
  <2> SUFFICES ASSUME CtlInv PROVE OnePlace
    OBVIOUS
  <2>1. todo = Len(Refs) - Cardinality(shown)
    BY DEF CtlInv, N
  <2> QED BY <1>1, <2>1 DEF OnePlace
<1> QED BY <1>2, InstallInvariant, PTL

\* When the command ends without an error, a driver of every language it was to
\* install is there, with --update the very image, even if the daemon crashed.
THEOREM InstallReportTrue == CtlSpec => []ReportTrue
<1>1. ASSUME CtlInv, main = "exit", errs = 0, NEW r \in DOMAIN Refs
      PROVE  \E n \in Images : /\ Lang[n] = Refs[r].lang
                               /\ Update => n = Refs[r].img
                               /\ root[n] \cap conf[n] # {}
  <2>1. r \in 1..N /\ N \in Nat /\ CtlTypeOK /\ todo = 0 /\ todo = N - Cardinality(shown) /\ Reports
    BY <1>1, RefsOK DEF CtlInv, N
  <2>2. shown \subseteq 1..N
    BY <2>1 DEF CtlTypeOK
  <2>3. IsFiniteSet(1..N) /\ Cardinality(1..N) = N
    BY <2>1, FS_Interval
  <2>4. Cardinality(shown) = N
    BY <2>1, ShownFinite
  <2>5. shown = 1..N
    BY <2>2, <2>3, <2>4, FS_Subset, ZenonT(60)
  <2>6. Good(Shown, r)
    BY <1>1, <2>1, <2>5 DEF Reports
  <2>7. PICK s \in Shown : Lang[s[1]] = Refs[r].lang /\ (Update => s[1] = Refs[r].img)
    BY <2>6 DEF Good
  <2>8. s[1] \in Images /\ s[2] \in root[s[1]] \cap conf[s[1]]
    BY DEF Shown
  <2> QED BY <2>7, <2>8
<1>2. CtlInv => ReportTrue
  BY <1>1, Zenon DEF ReportTrue
<1> QED BY <1>2, InstallInvariant, PTL

=============================================================================
