--------------------------- MODULE StorageProofs ----------------------------
(***************************************************************************)
(* Proofs about Storage, for any callers, images, versions and languages.  *)
(* They are about control calls that do not overlap on a language.         *)
(***************************************************************************)
EXTENDS Storage, TLAPS

USE LangAssumption, OverlapAssumption, SMTT(30), ZenonT(60)

-----------------------------------------------------------------------------
(* The record of a call: what each form of update makes of it.             *)

LEMMA IdleType == Idle \in CallType /\ Idle.pc = "idle"
BY DEF Idle, CallType, Requests, Pcs

LEMMA BeginType ==
    ASSUME NEW r \in Requests
    PROVE  LET n == [Idle EXCEPT !.pc = "glob", !.req = r]
           IN  n \in CallType /\ n.pc = "glob" /\ n.req = r /\ n.found = {}
<1>1. Idle \in CallType /\ Idle.found = {}
  BY IdleType DEF Idle
<1> QED BY <1>1, Zenon DEF CallType, Pcs

\* All fields but pc.
SameBut(n, k) ==
    /\ n.req = k.req /\ n.todo = k.todo /\ n.found = k.found /\ n.target = k.target
    /\ n.version = k.version /\ n.after = k.after /\ n.digest = k.digest

LEMMA SetPc ==
    ASSUME NEW k \in CallType, NEW p \in Pcs
    PROVE  LET n == [k EXCEPT !.pc = p]
           IN  n \in CallType /\ n.pc = p /\ SameBut(n, k)
BY DEF CallType, SameBut

WithTodo(k, t) == [k EXCEPT !.pc = "read", !.todo = t]

LEMMA SetTodo ==
    ASSUME NEW k \in CallType, NEW t \in SUBSET (Images \X Digests)
    PROVE  LET n == WithTodo(k, t)
           IN  n \in CallType /\ n.pc = "read" /\ n.req = k.req /\ n.todo = t /\ n.found = k.found
BY Zenon DEF CallType, Pcs, WithTodo

WithFound(k, t, f) == [k EXCEPT !.todo = t, !.found = f]

LEMMA SetFound ==
    ASSUME NEW k \in CallType, NEW t \in SUBSET (Images \X Digests), NEW f \in SUBSET Images
    PROVE  LET n == WithFound(k, t, f)
           IN  n \in CallType /\ n.pc = k.pc /\ n.req = k.req /\ n.todo = t /\ n.found = f
BY Zenon DEF CallType, WithFound

WithTarget(k, t, a) == [k EXCEPT !.pc = "rmRootFS", !.target = t, !.after = a]

LEMMA SetTarget ==
    ASSUME NEW k \in CallType, NEW t \in Images, NEW a \in {"rootFS", "removed"}
    PROVE  LET n == WithTarget(k, t, a)
           IN  n \in CallType /\ n.pc = "rmRootFS" /\ n.req = k.req /\ n.target = t /\ n.after = a
BY Zenon DEF CallType, Pcs, WithTarget

WithVersion(k, d) == [k EXCEPT !.pc = "rmConfig", !.version = d]

LEMMA SetVersion ==
    ASSUME NEW k \in CallType, NEW d \in Digests
    PROVE  LET n == WithVersion(k, d)
           IN  /\ n \in CallType /\ n.pc = "rmConfig" /\ n.req = k.req /\ n.target = k.target
               /\ n.version = d /\ n.after = k.after /\ n.digest = k.digest
BY Zenon DEF CallType, Pcs, WithVersion

WithDigest(k, d, p, t) == [k EXCEPT !.digest = d, !.pc = p, !.target = t, !.after = "writeTo"]

\* n is such a call.
Digested(n, k, d, p, t) ==
    /\ n \in CallType /\ n.pc = p /\ n.req = k.req /\ n.target = t
    /\ n.after = "writeTo" /\ n.digest = d

LEMMA SetDigest ==
    ASSUME NEW k \in CallType, NEW d \in Digests, NEW p \in {"writeTo", "rmRootFS"},
           NEW t \in Images
    PROVE  Digested(WithDigest(k, d, p, t), k, d, p, t)
BY Zenon DEF CallType, Pcs, WithDigest, Digested

\* An idle call claims nothing.
LEMMA IdleOK ==
    ASSUME NEW r, NEW f
    PROVE  CallOK(Idle) /\ DiskOK(Idle, r, f)
BY IdleType DEF CallOK, DiskOK

-----------------------------------------------------------------------------
(* Steps that leave the disk alone.                                        *)

\* The call of c is now n, and the others are as they were.
LEMMA SetCall ==
    ASSUME TypeOK, NEW c \in Callers, NEW n \in CallType, Set(c, n)
    PROVE  /\ call' \in [Callers -> CallType]
           /\ call'[c] = n
           /\ \A o \in Callers : o # c => call'[o] = call[o]
BY DEF TypeOK, Set

LEMMA Quiet ==
    ASSUME IndInv, NEW c \in Callers, NEW n \in CallType, Set(c, n),
           ans' \in [Callers -> Answers],
           root' = root, conf' = conf, crashed' = crashed,
           call[c].pc \notin {"idle", "mvRoot", "rmRoot"},
           n.pc # "idle" => n.req = call[c].req,
           CallOK(n), DiskOK(n, root, conf)
    PROVE  IndInv'
<1>1. /\ call' \in [Callers -> CallType]
      /\ call'[c] = n
      /\ \A o \in Callers : o # c => call'[o] = call[o]
  BY SetCall DEF IndInv
<1>2. TypeOK'
  BY <1>1 DEF IndInv, TypeOK
<1>3. OneVersion'
  BY DEF IndInv, OneVersion
<1>4. Disjoint'
  BY <1>1, Zenon DEF IndInv, Disjoint, At
<1>5. \A o \in Callers : CallOK(call'[o]) /\ DiskOK(call'[o], root', conf')
  BY <1>1 DEF IndInv
<1>6. HalfImage'
  BY <1>1 DEF IndInv, HalfImage, At
<1> QED BY <1>2, <1>3, <1>4, <1>5, <1>6 DEF IndInv

\* A call that returns without having touched the disk in its last step.
LEMMA QuietReturn ==
    ASSUME IndInv, NEW c \in Callers, NEW a \in Answers, Return(c, a),
           root' = root, conf' = conf, crashed' = crashed,
           call[c].pc \notin {"idle", "mvRoot", "rmRoot"}
    PROVE  IndInv'
<1>1. Set(c, Idle) /\ ans' \in [Callers -> Answers]
  BY DEF Return, IndInv, TypeOK
<1> QED BY <1>1, IdleType, IdleOK, Quiet

\* A call that goes on with what it has.
LEMMA QuietGoto ==
    ASSUME IndInv, NEW c \in Callers, NEW p \in Pcs, Goto(c, p),
           ans' = ans, root' = root, conf' = conf, crashed' = crashed,
           call[c].pc \notin {"idle", "mvRoot", "rmRoot"},
           ASSUME NEW n \in CallType, n.pc = p, SameBut(n, call[c])
           PROVE  CallOK(n) /\ DiskOK(n, root, conf)
    PROVE  IndInv'
<1> DEFINE n == [call[c] EXCEPT !.pc = p]
<1>1. call[c] \in CallType /\ ans' \in [Callers -> Answers]
  BY DEF IndInv, TypeOK
<1>2. n \in CallType /\ n.pc = p /\ SameBut(n, call[c])
  BY <1>1, SetPc
<1>3. Set(c, n)
  BY DEF Goto
<1>4. n.req = call[c].req
  BY <1>2 DEF SameBut
<1> HIDE DEF n
<1>5. CallOK(n) /\ DiskOK(n, root, conf)
  BY <1>2
<1> QED BY <1>1, <1>2, <1>3, <1>4, <1>5, Quiet

\* List.
LEMMA GlobStep ==
    ASSUME IndInv, NEW c \in Callers, Glob(c)
    PROVE  IndInv'
<1> DEFINE t == {s \in Images \X Digests : s[2] \in conf[s[1]]}
           n == WithTodo(call[c], t)
<1>1. call[c] \in CallType /\ call[c].pc = "glob" /\ call[c].found = {}
  BY DEF IndInv, TypeOK, Glob, At, CallOK
<1>2. t \in SUBSET (Images \X Digests)
  OBVIOUS
<1> HIDE DEF t
<1>3. n \in CallType /\ n.pc = "read" /\ n.req = call[c].req /\ n.found = {}
  BY <1>1, <1>2, SetTodo
<1>4. Set(c, n) /\ ans' = ans /\ root' = root /\ conf' = conf /\ crashed' = crashed
  BY DEF Glob, WithTodo, t
<1> HIDE DEF n
<1>5. CallOK(n) /\ DiskOK(n, root, conf)
  BY <1>3 DEF CallOK, DiskOK
<1>6. ans' \in [Callers -> Answers]
  BY <1>4 DEF IndInv, TypeOK
<1> QED BY <1>1, <1>3, <1>4, <1>5, <1>6, Quiet

LEMMA ReadStatusStep ==
    ASSUME IndInv, NEW c \in Callers, ReadStatus(c)
    PROVE  IndInv'
<1>1. call[c] \in CallType /\ call[c].pc = "read" /\ CallOK(call[c])
      /\ DiskOK(call[c], root, conf) /\ ans \in [Callers -> Answers]
      /\ root' = root /\ conf' = conf /\ crashed' = crashed
  BY DEF IndInv, TypeOK, ReadStatus, At
<1>2. PICK s \in call[c].todo :
         IF s[2] \in root[s[1]] \cap conf[s[1]]
         THEN /\ Set(c, [call[c] EXCEPT !.todo = @ \ {s},
                                        !.found = @ \cup ({s[1]} \cap Served(call[c].req))])
              /\ UNCHANGED ans
         ELSE Return(c, "error")
  BY Zenon DEF ReadStatus
<1>3. CASE s[2] \notin root[s[1]] \cap conf[s[1]]
  <2>1. Return(c, "error") /\ "error" \in Answers
    BY <1>2, <1>3 DEF Answers
  <2> QED BY <1>1, <2>1, QuietReturn
<1>4. CASE s[2] \in root[s[1]] \cap conf[s[1]]
  <2> DEFINE t == call[c].todo \ {s}
             f == call[c].found \cup ({s[1]} \cap Served(call[c].req))
             n == WithFound(call[c], t, f)
  <2>1. t \in SUBSET (Images \X Digests) /\ f \in SUBSET Images
    BY <1>1 DEF CallType, Served
  <2>2. /\ \A m \in f : m \in call[c].found \/ (m = s[1] /\ Lang[m] = call[c].req.lang)
    BY DEF Served
  <2>3. Set(c, n) /\ ans' = ans
    BY <1>2, <1>4 DEF WithFound
  <2> HIDE DEF t, f
  <2>4. n \in CallType /\ n.pc = "read" /\ n.req = call[c].req /\ n.found = f
    BY <1>1, <2>1, SetFound
  <2> HIDE DEF n
  <2>5. CallOK(n)
    BY <1>1, <2>2, <2>4 DEF CallOK
  <2>6. DiskOK(n, root, conf)
    BY <1>1, <1>4, <2>2, <2>4 DEF DiskOK
  <2> QED BY <1>1, <2>3, <2>4, <2>5, <2>6, Quiet
<1> QED BY <1>3, <1>4

LEMMA ListDriversStep ==
    ASSUME IndInv, NEW c \in Callers, ListDrivers(c)
    PROVE  IndInv'
<1>1. Return(c, "ok") /\ "ok" \in Answers /\ call[c].pc = "read"
      /\ root' = root /\ conf' = conf /\ crashed' = crashed
  BY DEF ListDrivers, Answers, At
<1> QED BY <1>1, QuietReturn

\* Going on to Remove an image of the language that List found.
LEMMA GotoRemoveStep ==
    ASSUME IndInv, NEW c \in Callers, NEW m \in call[c].found, NEW a \in {"rootFS", "removed"},
           GotoRemove(c, m, a), call[c].pc = "read", call[c].req.op # "list",
           a = "rootFS" => call[c].req.op = "install" /\ call[c].req.update,
           a = "removed" => call[c].req.op = "remove",
           ans' = ans, root' = root, conf' = conf, crashed' = crashed
    PROVE  IndInv'
<1> DEFINE n == WithTarget(call[c], m, a)
<1>1. call[c] \in CallType /\ CallOK(call[c]) /\ DiskOK(call[c], root, conf)
      /\ ans' \in [Callers -> Answers]
  BY DEF IndInv, TypeOK
<1>2. m \in Images /\ Lang[m] = call[c].req.lang /\ root[m] \cap conf[m] # {}
  BY <1>1 DEF CallType, CallOK, DiskOK
<1>3. n \in CallType /\ n.pc = "rmRootFS" /\ n.req = call[c].req /\ n.target = m /\ n.after = a
  BY <1>1, <1>2, SetTarget
<1>4. Set(c, n)
  BY DEF GotoRemove, WithTarget
<1> HIDE DEF n
<1>5. CallOK(n)
  BY <1>2, <1>3 DEF CallOK, RemovalOK
<1>6. DiskOK(n, root, conf)
  BY <1>2, <1>3 DEF DiskOK
<1> QED BY <1>1, <1>3, <1>4, <1>5, <1>6, Quiet

LEMMA InstallDriverStep ==
    ASSUME IndInv, NEW c \in Callers, InstallDriver(c)
    PROVE  IndInv'
<1>1. call[c].pc = "read" /\ call[c].req.op = "install"
      /\ root' = root /\ conf' = conf /\ crashed' = crashed
  BY DEF InstallDriver, At
<1>2. CASE Goto(c, "rootFS") /\ ans' = ans
  <2>1. ASSUME NEW n \in CallType, n.pc = "rootFS", SameBut(n, call[c])
        PROVE  CallOK(n) /\ DiskOK(n, root, conf)
    BY <1>1, <2>1 DEF CallOK, DiskOK, SameBut
  <2> QED BY <1>1, <1>2, <2>1, QuietGoto, Zenon DEF Pcs
<1>3. CASE Return(c, "already")
  BY <1>1, <1>3, QuietReturn DEF Answers
<1>4. CASE /\ call[c].req.update /\ ans' = ans
           /\ \E m \in call[c].found : GotoRemove(c, m, "rootFS")
  BY <1>1, <1>4, GotoRemoveStep
<1> QED BY <1>2, <1>3, <1>4 DEF InstallDriver

LEMMA RemoveDriverStep ==
    ASSUME IndInv, NEW c \in Callers, RemoveDriver(c)
    PROVE  IndInv'
<1>1. call[c].pc = "read" /\ call[c].req.op = "remove"
      /\ root' = root /\ conf' = conf /\ crashed' = crashed
  BY DEF RemoveDriver, At
<1>2. CASE Return(c, "error")
  BY <1>1, <1>2, QuietReturn DEF Answers
<1>3. CASE ans' = ans /\ \E m \in call[c].found : GotoRemove(c, m, "removed")
  BY <1>1, <1>3, GotoRemoveStep
<1> QED BY <1>2, <1>3 DEF RemoveDriver

-----------------------------------------------------------------------------
(* Remove and Install up to the first change on disk.                      *)

LEMMA RemoveRootFSStep ==
    ASSUME IndInv, NEW c \in Callers, RemoveRootFS(c)
    PROVE  IndInv'
<1>1. call[c] \in CallType /\ call[c].pc = "rmRootFS" /\ CallOK(call[c])
      /\ DiskOK(call[c], root, conf) /\ ans \in [Callers -> Answers]
      /\ root \in [Images -> SUBSET Digests]
      /\ root' = root /\ conf' = conf /\ crashed' = crashed
  BY Zenon DEF IndInv, TypeOK, RemoveRootFS, At
<1>2. CASE Return(c, "error")
  BY <1>1, <1>2, QuietReturn DEF Answers
<1>3. CASE /\ Installed(call[c].target) /\ ans' = ans
           /\ \E d \in root[call[c].target] :
                 Set(c, [call[c] EXCEPT !.pc = "rmConfig", !.version = d])
  <2>1. PICK d \in root[call[c].target] : Set(c, WithVersion(call[c], d))
    BY <1>3, Zenon DEF WithVersion
  <2> DEFINE n == WithVersion(call[c], d)
  <2>2. RemovalOK(call[c]) /\ call[c].target \in Images
    BY <1>1 DEF CallOK, RemovalOK
  <2>3. d \in Digests /\ root[call[c].target] = {d}
    BY <1>1, <1>3, <2>2 DEF Installed
  <2>4. /\ n \in CallType /\ n.pc = "rmConfig" /\ n.req = call[c].req /\ n.target = call[c].target
        /\ n.version = d /\ n.after = call[c].after /\ n.digest = call[c].digest
    BY <1>1, <2>3, SetVersion
  <2>5. Set(c, n)
    BY <2>1
  <2> HIDE DEF n
  <2>6. CallOK(n)
    BY <2>2, <2>3, <2>4 DEF CallOK, RemovalOK
  <2>7. DiskOK(n, root, conf)
    BY <1>1, <2>3, <2>4 DEF DiskOK
  <2> QED BY <1>1, <1>3, <2>4, <2>5, <2>6, <2>7, Quiet
<1> QED BY <1>2, <1>3, Zenon DEF RemoveRootFS

LEMMA InstallRootFSStep ==
    ASSUME IndInv, NEW c \in Callers, InstallRootFS(c)
    PROVE  IndInv'
<1>1. call[c].pc = "rootFS" /\ CallOK(call[c])
      /\ root' = root /\ conf' = conf /\ crashed' = crashed
  BY DEF IndInv, InstallRootFS, At
<1>2. CASE NotInstalled(call[c].req.img) /\ Goto(c, "digest") /\ ans' = ans
  <2>1. ASSUME NEW n \in CallType, n.pc = "digest", SameBut(n, call[c])
        PROVE  CallOK(n) /\ DiskOK(n, root, conf)
    BY <1>1, <1>2, <2>1 DEF CallOK, DiskOK, SameBut, NotInstalled
  <2> QED BY <1>1, <1>2, <2>1, QuietGoto, Zenon DEF Pcs
<1>3. CASE call[c].req.update /\ Goto(c, "digestOld") /\ ans' = ans
  <2>1. ASSUME NEW n \in CallType, n.pc = "digestOld", SameBut(n, call[c])
        PROVE  CallOK(n) /\ DiskOK(n, root, conf)
    BY <1>1, <1>3, <2>1 DEF CallOK, DiskOK, SameBut
  <2> QED BY <1>1, <1>3, <2>1, QuietGoto, Zenon DEF Pcs
<1>4. CASE Return(c, "ok") \/ Return(c, "error")
  BY <1>1, <1>4, QuietReturn DEF Answers
<1> QED BY <1>2, <1>3, <1>4 DEF InstallRootFS

LEMMA DigestStep ==
    ASSUME IndInv, NEW c \in Callers, Digest(c)
    PROVE  IndInv'
<1>1. call[c] \in CallType /\ call[c].pc \in {"digest", "digestOld"} /\ CallOK(call[c])
      /\ DiskOK(call[c], root, conf) /\ ans \in [Callers -> Answers]
      /\ root' = root /\ conf' = conf /\ crashed' = crashed
  BY Zenon DEF IndInv, TypeOK, Digest, At
<1>2. CASE Return(c, "error")
  BY <1>1, <1>2, QuietReturn DEF Answers
<1>3. CASE /\ ans' = ans
           /\ \E d \in Digests :
                 Set(c, [call[c] EXCEPT
                             !.digest = d,
                             !.pc     = IF At(c, "digest") THEN "writeTo" ELSE "rmRootFS",
                             !.target = call[c].req.img,
                             !.after  = "writeTo"])
  <2> DEFINE p == IF At(c, "digest") THEN "writeTo" ELSE "rmRootFS"
  <2>1. PICK d \in Digests : Set(c, WithDigest(call[c], d, p, call[c].req.img))
    BY <1>3, Zenon DEF WithDigest
  <2> DEFINE n == WithDigest(call[c], d, p, call[c].req.img)
  <2>2. call[c].req.op = "install" /\ (call[c].pc = "digestOld" => call[c].req.update)
    BY <1>1 DEF CallOK
  <2>3. call[c].req \in Requests
    BY <1>1 DEF CallType
  <2>4. call[c].req.img \in Images
    BY <2>2, <2>3, Zenon DEF Requests
  <2>5. /\ p \in {"writeTo", "rmRootFS"}
        /\ p = "writeTo" => call[c].pc = "digest"
        /\ p = "rmRootFS" => call[c].pc = "digestOld"
    BY <1>1 DEF At
  <2>6. Set(c, n)
    BY <2>1
  <2> HIDE DEF p
  <2>7. /\ n \in CallType /\ n.pc = p /\ n.req = call[c].req /\ n.target = call[c].req.img
        /\ n.after = "writeTo" /\ n.digest = d
    <3>1. Digested(n, call[c], d, p, call[c].req.img)
      BY <1>1, <2>4, <2>5, SetDigest
    <3> QED BY <3>1, Zenon DEF Digested
  <2> HIDE DEF n
  <2>8. CallOK(n)
    BY <2>2, <2>4, <2>5, <2>7 DEF CallOK, RemovalOK
  <2>9. DiskOK(n, root, conf)
    BY <1>1, <2>5, <2>7 DEF DiskOK
  <2> QED BY <1>1, <1>3, <2>5, <2>6, <2>7, <2>8, <2>9, Quiet
<1> QED BY <1>2, <1>3, Zenon DEF Digest

LEMMA WriteToStep ==
    ASSUME IndInv, NEW c \in Callers, WriteTo(c)
    PROVE  IndInv'
<1>1. call[c].pc = "writeTo" /\ CallOK(call[c]) /\ DiskOK(call[c], root, conf)
      /\ root' = root /\ conf' = conf /\ crashed' = crashed
  BY DEF IndInv, WriteTo, At
<1>2. CASE Return(c, "error")
  BY <1>1, <1>2, QuietReturn DEF Answers
<1>3. CASE Goto(c, "mvConfig") /\ ans' = ans
  <2>1. ASSUME NEW n \in CallType, n.pc = "mvConfig", SameBut(n, call[c])
        PROVE  CallOK(n) /\ DiskOK(n, root, conf)
    BY <1>1, <2>1 DEF CallOK, DiskOK, SameBut
  <2> QED BY <1>1, <1>3, <2>1, QuietGoto, Zenon DEF Pcs
<1> QED BY <1>2, <1>3 DEF WriteTo

-----------------------------------------------------------------------------
(* Steps that change one image on disk.                                    *)

\* An image that a call works on is of a language that the call touches.
LEMMA Touched ==
    ASSUME NEW k \in CallType, CallOK(k)
    PROVE  /\ k.pc = "read" /\ k.req.op # "list" => \A m \in k.found : Lang[m] \in Touches(k.req)
           /\ k.pc \in {"rmRootFS", "rmConfig", "rmRoot"} =>
                 k.target \in Images /\ Lang[k.target] \in Touches(k.req)
           /\ k.pc \in {"rootFS", "digest", "digestOld", "writeTo", "mvConfig", "mvRoot"} =>
                 k.req.img \in Images /\ Lang[k.req.img] \in Touches(k.req)
<1>1. k.req \in Requests
  BY DEF CallType
<1>2. k.req.op = "install" => k.req.img \in Images
  BY <1>1, Zenon DEF Requests
<1> QED BY <1>2 DEF CallOK, RemovalOK, Touches

\* The others do not notice.
LEMMA Footprint ==
    ASSUME IndInv, NEW c \in Callers, NEW m \in Images,
           call[c].pc # "idle", Lang[m] \in Touches(call[c].req),
           NEW r, NEW f, \A i \in Images : i # m => r[i] = root[i] /\ f[i] = conf[i],
           NEW o \in Callers, o # c
    PROVE  DiskOK(call[o], r, f)
<1> DEFINE k == call[o]
<1>1. k \in CallType /\ CallOK(k) /\ DiskOK(k, root, conf)
  BY DEF IndInv, TypeOK
<1>2. CASE k.pc = "idle"
  BY <1>2 DEF DiskOK
<1>3. CASE k.pc # "idle"
  <2>1. Lang[m] \notin Touches(k.req)
    BY <1>3 DEF IndInv, Disjoint, At
  <2>2. k.found \subseteq Images
    BY <1>1 DEF CallType
  <2> HIDE DEF k
  <2>3. k.pc = "read" /\ k.req.op # "list" =>
           \A i \in k.found : r[i] = root[i] /\ f[i] = conf[i]
    BY <1>1, <2>1, <2>2, Touched
  <2>4. k.pc \in {"rmRootFS", "rmConfig", "rmRoot"} =>
           r[k.target] = root[k.target] /\ f[k.target] = conf[k.target]
    BY <1>1, <2>1, Touched
  <2>5. k.pc \in {"digest", "writeTo", "mvConfig", "mvRoot"} =>
           r[k.req.img] = root[k.req.img] /\ f[k.req.img] = conf[k.req.img]
    BY <1>1, <2>1, Touched
  <2>6. DiskOK(k, r, f)
    BY <1>1, <2>3, <2>4, <2>5 DEF DiskOK
  <2> QED BY <2>6 DEF k
<1> QED BY <1>2, <1>3

\* If an image of a call's own language is half on disk, it is the call's doing.
LEMMA OwnHalf ==
    ASSUME IndInv, ~crashed, NEW c \in Callers, NEW m \in Images, NEW d \in Digests,
           call[c].pc # "idle", Lang[m] \in Touches(call[c].req)
    PROVE  /\ d \in conf[m] \ root[m] =>
                 call[c].pc = "mvRoot" /\ call[c].req.img = m /\ call[c].digest = d
           /\ d \in root[m] \ conf[m] =>
                 call[c].pc = "rmRoot" /\ call[c].target = m /\ call[c].version = d
<1>1. ASSUME NEW o \in Callers,
             \/ call[o].pc = "mvRoot" /\ call[o].req.img = m
             \/ call[o].pc = "rmRoot" /\ call[o].target = m
      PROVE  o = c
  <2>1. call[o] \in CallType /\ CallOK(call[o]) /\ call[o].pc # "idle"
    BY <1>1 DEF IndInv, TypeOK
  <2>2. Lang[m] \in Touches(call[o].req)
    BY <1>1, <2>1, Touched
  <2> QED BY <2>1, <2>2 DEF IndInv, Disjoint, At
<1> QED BY <1>1 DEF IndInv, HalfImage, At

LEMMA Loud ==
    ASSUME IndInv, NEW c \in Callers, NEW m \in Images, NEW n \in CallType, Set(c, n),
           call[c].pc # "idle", Lang[m] \in Touches(call[c].req),
           call[c].pc = "mvRoot" => call[c].req.img = m,
           call[c].pc = "rmRoot" => call[c].target = m,
           ans' \in [Callers -> Answers], crashed' = crashed,
           root' \in [Images -> SUBSET Digests], conf' \in [Images -> SUBSET Digests],
           \A i \in Images : i # m => root'[i] = root[i] /\ conf'[i] = conf[i],
           \A d, e \in root'[m] : d = e,
           n.pc # "idle" => n.req = call[c].req,
           CallOK(n), DiskOK(n, root', conf'),
           ~crashed => \A d \in Digests :
               /\ d \in conf'[m] \ root'[m] => n.pc = "mvRoot" /\ n.req.img = m /\ n.digest = d
               /\ d \in root'[m] \ conf'[m] => n.pc = "rmRoot" /\ n.target = m /\ n.version = d
    PROVE  IndInv'
<1>1. /\ call' \in [Callers -> CallType]
      /\ call'[c] = n
      /\ \A o \in Callers : o # c => call'[o] = call[o]
  BY SetCall DEF IndInv
<1>2. TypeOK'
  BY <1>1 DEF IndInv, TypeOK
<1>3. OneVersion'
  <2>1. \A i \in Images : \A d, e \in root'[i] : d = e
    BY DEF IndInv, OneVersion
  <2> QED BY <2>1 DEF OneVersion
<1>4. Disjoint'
  BY <1>1 DEF IndInv, Disjoint, At
<1>5. \A o \in Callers : CallOK(call'[o]) /\ DiskOK(call'[o], root', conf')
  <2>1. \A o \in Callers : o # c => DiskOK(call[o], root', conf')
    BY Footprint
  <2> QED BY <1>1, <2>1 DEF IndInv
<1>6. HalfImage'
  <2>1. SUFFICES ASSUME ~crashed, NEW i \in Images, NEW d \in Digests
                 PROVE  /\ d \in conf'[i] \ root'[i] =>
                              \E o \in Callers : /\ call'[o].pc = "mvRoot"
                                                 /\ call'[o].req.img = i /\ call'[o].digest = d
                        /\ d \in root'[i] \ conf'[i] =>
                              \E o \in Callers : /\ call'[o].pc = "rmRoot"
                                                 /\ call'[o].target = i /\ call'[o].version = d
    BY DEF HalfImage, At
  <2>2. CASE i = m
    BY <1>1, <2>1, <2>2
  <2>3. CASE i # m
    BY <1>1, <2>1, <2>3 DEF IndInv, HalfImage, At
  <2> QED BY <2>2, <2>3
<1> QED BY <1>2, <1>3, <1>4, <1>5, <1>6 DEF IndInv

LEMMA RemoveConfigStep ==
    ASSUME IndInv, NEW c \in Callers, RemoveConfig(c)
    PROVE  IndInv'
<1> DEFINE m == call[c].target
           n == [call[c] EXCEPT !.pc = "rmRoot"]
<1>1. call[c] \in CallType /\ call[c].pc = "rmConfig" /\ CallOK(call[c])
      /\ DiskOK(call[c], root, conf) /\ ans \in [Callers -> Answers]
      /\ root \in [Images -> SUBSET Digests] /\ conf \in [Images -> SUBSET Digests]
      /\ root' = root /\ ans' = ans /\ crashed' = crashed
  BY DEF IndInv, TypeOK, RemoveConfig, At
<1>2. m \in Images /\ Lang[m] \in Touches(call[c].req)
  BY <1>1, Touched
<1>3. n \in CallType /\ n.pc = "rmRoot" /\ SameBut(n, call[c])
  BY <1>1, SetPc, Zenon DEF Pcs
<1>4. Set(c, n) /\ conf' = [conf EXCEPT ![m] = @ \ {call[c].version}]
  BY DEF RemoveConfig, Goto
<1>5. root[m] = {call[c].version}
  BY <1>1 DEF DiskOK
<1>6. /\ conf' \in [Images -> SUBSET Digests]
      /\ \A i \in Images : i # m => conf'[i] = conf[i]
      /\ conf'[m] = conf[m] \ {call[c].version}
  BY <1>1, <1>2, <1>4
<1>7. ~crashed => conf[m] \subseteq root[m]
  BY <1>1, <1>2, OwnHalf
<1> HIDE DEF n
<1>8. CallOK(n)
  BY <1>1, <1>3 DEF CallOK, RemovalOK, SameBut
<1>9. DiskOK(n, root', conf')
  BY <1>1, <1>3, <1>5, <1>6 DEF DiskOK, SameBut
<1>10. n.req = call[c].req /\ n.target = m /\ n.version = call[c].version
  BY <1>3 DEF SameBut
<1>11. ~crashed => \A d \in Digests :
               /\ d \in conf'[m] \ root'[m] => n.pc = "mvRoot" /\ n.req.img = m /\ n.digest = d
               /\ d \in root'[m] \ conf'[m] => n.pc = "rmRoot" /\ n.target = m /\ n.version = d
  BY <1>1, <1>3, <1>5, <1>6, <1>7, <1>10
<1>12. \A d, e \in root'[m] : d = e
  BY <1>1, <1>5
<1>13. /\ call[c].pc \notin {"idle", "mvRoot", "rmRoot"}
       /\ root' \in [Images -> SUBSET Digests] /\ ans' \in [Callers -> Answers]
       /\ crashed' = crashed
       /\ \A i \in Images : i # m => root'[i] = root[i] /\ conf'[i] = conf[i]
  BY <1>1, <1>6
<1> HIDE DEF m
<1>14. n \in CallType /\ n.req = call[c].req /\ Set(c, n) /\ conf' \in [Images -> SUBSET Digests]
  BY <1>3, <1>4, <1>6 DEF SameBut
<1> QED BY <1>2, <1>8, <1>9, <1>11, <1>12, <1>13, <1>14, Loud

LEMMA RemoveRootStep ==
    ASSUME IndInv, NEW c \in Callers, RemoveRoot(c)
    PROVE  IndInv'
<1> DEFINE m == call[c].target
           n == IF call[c].after = "removed" THEN Idle
                ELSE [call[c] EXCEPT !.pc = call[c].after]
<1>1. call[c] \in CallType /\ call[c].pc = "rmRoot" /\ CallOK(call[c])
      /\ DiskOK(call[c], root, conf) /\ ans \in [Callers -> Answers]
      /\ root \in [Images -> SUBSET Digests] /\ conf \in [Images -> SUBSET Digests]
      /\ conf' = conf /\ crashed' = crashed
  BY DEF IndInv, TypeOK, RemoveRoot, At
<1>2. m \in Images /\ Lang[m] \in Touches(call[c].req) /\ RemovalOK(call[c])
  BY <1>1, Touched DEF CallOK
<1>3. call[c].after \in {"removed", "rootFS", "writeTo"}
  BY <1>2 DEF RemovalOK
<1>4. /\ n \in CallType
      /\ n = Idle \/ (n.pc = call[c].after /\ call[c].after # "removed" /\ SameBut(n, call[c]))
  <2> DEFINE g == [call[c] EXCEPT !.pc = call[c].after]
  <2>1. call[c].after # "removed" =>
           g \in CallType /\ g.pc = call[c].after /\ SameBut(g, call[c])
    <3>1. call[c].after # "removed" => call[c].after \in Pcs
      BY <1>3 DEF Pcs
    <3> QED BY <1>1, <3>1, SetPc
  <2>2. n = IF call[c].after = "removed" THEN Idle ELSE g
    OBVIOUS
  <2> HIDE DEF g, n
  <2> QED BY <2>1, <2>2, IdleType
<1>5. Set(c, n) /\ root' = [root EXCEPT ![m] = @ \ {call[c].version}]
  BY DEF RemoveRoot, Goto, Return
<1>6. ans' \in [Callers -> Answers]
  BY <1>1 DEF RemoveRoot, Return, Answers
<1>7. root[m] = {call[c].version} /\ call[c].version \notin conf[m]
  BY <1>1 DEF DiskOK
<1>8. /\ root' \in [Images -> SUBSET Digests]
      /\ \A i \in Images : i # m => root'[i] = root[i]
      /\ root'[m] = {}
  BY <1>1, <1>2, <1>5, <1>7
<1>9. ~crashed => conf[m] = {}
  BY <1>1, <1>2, <1>7, OwnHalf
<1> HIDE DEF n
<1>10. CallOK(n)
  BY <1>2, <1>4, IdleOK DEF CallOK, RemovalOK, SameBut
<1>11. DiskOK(n, root', conf')
  BY <1>2, <1>4, <1>8, IdleOK DEF DiskOK, RemovalOK, SameBut
<1>12. n.pc # "idle" => n.req = call[c].req
  BY <1>4, IdleType DEF SameBut
<1> HIDE DEF m
<1> QED BY <1>1, <1>2, <1>4, <1>5, <1>6, <1>8, <1>9, <1>10, <1>11, <1>12, Loud, Zenon DEF m

LEMMA MoveConfigStep ==
    ASSUME IndInv, NEW c \in Callers, MoveConfig(c)
    PROVE  IndInv'
<1> DEFINE m == call[c].req.img
           n == [call[c] EXCEPT !.pc = "mvRoot"]
<1>1. call[c] \in CallType /\ call[c].pc = "mvConfig" /\ CallOK(call[c])
      /\ DiskOK(call[c], root, conf) /\ ans \in [Callers -> Answers]
      /\ root \in [Images -> SUBSET Digests] /\ conf \in [Images -> SUBSET Digests]
      /\ root' = root /\ ans' = ans /\ crashed' = crashed
  BY DEF IndInv, TypeOK, MoveConfig, At
<1>2. m \in Images /\ Lang[m] \in Touches(call[c].req) /\ call[c].digest \in Digests
  BY <1>1, Touched DEF CallOK
<1>3. n \in CallType /\ n.pc = "mvRoot" /\ SameBut(n, call[c])
  BY <1>1, SetPc, Zenon DEF Pcs
<1>4. Set(c, n) /\ conf' = [conf EXCEPT ![m] = @ \cup {call[c].digest}]
  BY DEF MoveConfig, Goto
<1>5. root[m] = {}
  BY <1>1 DEF DiskOK
<1>6. /\ conf' \in [Images -> SUBSET Digests]
      /\ \A i \in Images : i # m => conf'[i] = conf[i]
      /\ conf'[m] = conf[m] \cup {call[c].digest}
  BY <1>1, <1>2, <1>4
<1>7. ~crashed => conf[m] = {}
  BY <1>1, <1>2, <1>5, OwnHalf
<1>8. n.req = call[c].req /\ n.digest = call[c].digest
  BY <1>3 DEF SameBut
<1> HIDE DEF n
<1>9. CallOK(n)
  BY <1>1, <1>3, <1>8 DEF CallOK
<1>10. DiskOK(n, root', conf')
  BY <1>1, <1>3, <1>5, <1>6, <1>8 DEF DiskOK
<1>11. ~crashed => \A d \in Digests :
               /\ d \in conf'[m] \ root'[m] => n.pc = "mvRoot" /\ n.req.img = m /\ n.digest = d
               /\ d \in root'[m] \ conf'[m] => n.pc = "rmRoot" /\ n.target = m /\ n.version = d
  BY <1>1, <1>3, <1>5, <1>6, <1>7, <1>8
<1>12. \A d, e \in root'[m] : d = e
  BY <1>1, <1>5
<1>13. /\ call[c].pc \notin {"idle", "mvRoot", "rmRoot"}
       /\ root' \in [Images -> SUBSET Digests] /\ ans' \in [Callers -> Answers]
       /\ crashed' = crashed
       /\ \A i \in Images : i # m => root'[i] = root[i] /\ conf'[i] = conf[i]
  BY <1>1, <1>6
<1> HIDE DEF m
<1>14. n \in CallType /\ n.req = call[c].req /\ Set(c, n) /\ conf' \in [Images -> SUBSET Digests]
  BY <1>3, <1>4, <1>6 DEF SameBut
<1> QED BY <1>2, <1>9, <1>10, <1>11, <1>12, <1>13, <1>14, Loud

\* The directory is not there yet, so that the rename does not fail.
LEMMA MoveRootFree ==
    ASSUME IndInv, NEW c \in Callers, MoveRoot(c)
    PROVE  /\ call[c].req.img \in Images /\ call[c].digest \in Digests
           /\ call[c].req.op = "install"
           /\ root[call[c].req.img] = {} /\ call[c].digest \in conf[call[c].req.img]
           /\ root' = [root EXCEPT ![call[c].req.img] = @ \cup {call[c].digest}]
           /\ Return(c, "ok")
<1>1. call[c] \in CallType /\ call[c].pc = "mvRoot" /\ CallOK(call[c])
      /\ DiskOK(call[c], root, conf)
  BY DEF IndInv, TypeOK, MoveRoot, At
<1>2. root[call[c].req.img] = {} /\ call[c].digest \in conf[call[c].req.img]
  BY <1>1 DEF DiskOK
<1>3. call[c].req.img \in Images /\ call[c].digest \in Digests /\ call[c].req.op = "install"
  BY <1>1, Touched DEF CallOK
<1> QED BY <1>2, <1>3 DEF MoveRoot

LEMMA MoveRootStep ==
    ASSUME IndInv, NEW c \in Callers, MoveRoot(c)
    PROVE  IndInv'
<1> DEFINE m == call[c].req.img
<1>1. call[c] \in CallType /\ call[c].pc = "mvRoot" /\ CallOK(call[c])
      /\ ans \in [Callers -> Answers]
      /\ root \in [Images -> SUBSET Digests] /\ conf \in [Images -> SUBSET Digests]
      /\ conf' = conf /\ crashed' = crashed
  BY DEF IndInv, TypeOK, MoveRoot, At
<1>2. /\ m \in Images /\ call[c].digest \in Digests /\ root[m] = {} /\ call[c].digest \in conf[m]
      /\ root' = [root EXCEPT ![m] = @ \cup {call[c].digest}] /\ Return(c, "ok")
  BY MoveRootFree
<1>3. Lang[m] \in Touches(call[c].req)
  BY <1>1, Touched
<1>4. Set(c, Idle) /\ ans' \in [Callers -> Answers]
  BY <1>1, <1>2 DEF Return, Answers
<1>5. /\ root' \in [Images -> SUBSET Digests]
      /\ \A i \in Images : i # m => root'[i] = root[i]
      /\ root'[m] = {call[c].digest}
  BY <1>1, <1>2
<1>6. ~crashed => conf[m] = {call[c].digest}
  BY <1>1, <1>2, <1>3, OwnHalf
<1>7. CallOK(Idle) /\ DiskOK(Idle, root', conf')
  BY IdleOK
<1> QED BY <1>1, <1>2, <1>3, <1>4, <1>5, <1>6, <1>7, IdleType, Loud, Zenon

-----------------------------------------------------------------------------
(* The first step of a call, and a crash.                                  *)

LEMMA BeginStep ==
    ASSUME IndInv, NEW c \in Callers, NEW r \in Requests, Alone(c, r), Begin(c, r)
    PROVE  IndInv'
<1> DEFINE n == [Idle EXCEPT !.pc = "glob", !.req = r]
<1>1. n \in CallType /\ n.pc = "glob" /\ n.req = r /\ n.found = {}
  BY BeginType, Zenon
<1>2. Set(c, n) /\ root' = root /\ conf' = conf /\ crashed' = crashed /\ call[c].pc = "idle"
  BY DEF Begin, At
<1> HIDE DEF n
<1>3. /\ call' \in [Callers -> CallType]
      /\ call'[c] = n
      /\ \A o \in Callers : o # c => call'[o] = call[o]
  BY <1>1, <1>2, SetCall DEF IndInv
<1>4. TypeOK'
  <2>1. ans' \in [Callers -> Answers]
    BY DEF Begin, IndInv, TypeOK, Answers
  <2> QED BY <1>2, <1>3, <2>1 DEF IndInv, TypeOK
<1>5. OneVersion'
  BY <1>2 DEF IndInv, OneVersion
<1>6. Disjoint'
  <2>1. \A o \in Callers : o # c /\ call[o].pc # "idle" =>
           Touches(call[o].req) \cap Touches(r) = {}
    BY DEF Alone, At
  <2> QED BY <1>1, <1>3, <2>1 DEF IndInv, Disjoint, At
<1>7. CallOK(n) /\ DiskOK(n, root, conf)
  BY <1>1 DEF CallOK, DiskOK
<1>8. \A o \in Callers : CallOK(call'[o]) /\ DiskOK(call'[o], root', conf')
  BY <1>2, <1>3, <1>7 DEF IndInv
<1>9. HalfImage'
  BY <1>1, <1>2, <1>3 DEF IndInv, HalfImage, At
<1> QED BY <1>4, <1>5, <1>6, <1>8, <1>9 DEF IndInv

LEMMA CrashStep == IndInv /\ Crash => IndInv'
<1> SUFFICES ASSUME IndInv, Crash PROVE IndInv'
  OBVIOUS
<1>1. /\ call' = [c \in Callers |-> Idle] /\ crashed' = TRUE
      /\ root' = root /\ conf' = conf
  BY DEF Crash
<1>2. \A c \in Callers : call'[c] = Idle /\ call'[c].pc = "idle"
  BY <1>1, IdleType
<1>3. TypeOK'
  <2>1. ans' \in [Callers -> Answers]
    BY DEF Crash, IndInv, TypeOK, Answers
  <2>2. call' \in [Callers -> CallType]
    BY <1>1, IdleType
  <2> QED BY <1>1, <2>1, <2>2 DEF IndInv, TypeOK
<1>4. OneVersion'
  BY <1>1 DEF IndInv, OneVersion
<1>5. Disjoint' /\ HalfImage'
  BY <1>1, <1>2 DEF Disjoint, HalfImage, At
<1>6. \A o \in Callers : CallOK(call'[o]) /\ DiskOK(call'[o], root', conf')
  BY <1>2, IdleOK
<1> QED BY <1>3, <1>4, <1>5, <1>6 DEF IndInv

LEMMA InitIndInv == Init => IndInv
<1> SUFFICES ASSUME Init PROVE IndInv
  OBVIOUS
<1>1. /\ call = [c \in Callers |-> Idle] /\ crashed = FALSE /\ conf = root
      /\ root \in [Images -> {{}} \cup {{d} : d \in Digests}]
      /\ ans = [c \in Callers |-> "none"]
  BY DEF Init
<1>2. \A c \in Callers : call[c] = Idle /\ call[c].pc = "idle"
  BY <1>1, IdleType
<1>3. root \in [Images -> SUBSET Digests] /\ \A i \in Images : \A d, e \in root[i] : d = e
  BY <1>1
<1>4. TypeOK
  <2>1. ans \in [Callers -> Answers]
    BY <1>1 DEF Answers
  <2>2. call \in [Callers -> CallType]
    BY <1>1, IdleType
  <2> QED BY <1>1, <1>3, <2>1, <2>2, Zenon DEF TypeOK
<1>5. OneVersion
  BY <1>3 DEF OneVersion
<1>6. Disjoint /\ HalfImage
  BY <1>1, <1>2 DEF Disjoint, HalfImage, At
<1>7. \A o \in Callers : CallOK(call[o]) /\ DiskOK(call[o], root, conf)
  BY <1>2, IdleOK
<1> QED BY <1>4, <1>5, <1>6, <1>7 DEF IndInv

LEMMA StutterIndInv ==
    ASSUME IndInv, UNCHANGED vars
    PROVE  IndInv'
<1>1. root' = root /\ conf' = conf /\ call' = call /\ ans' = ans /\ crashed' = crashed
  BY DEF vars
<1>2. TypeOK' /\ OneVersion'
  BY <1>1 DEF IndInv, TypeOK, OneVersion
<1>3. Disjoint' /\ HalfImage'
  BY <1>1 DEF IndInv, Disjoint, HalfImage, At
<1>4. \A o \in Callers : CallOK(call'[o]) /\ DiskOK(call'[o], root', conf')
  BY <1>1 DEF IndInv
<1> QED BY <1>2, <1>3, <1>4 DEF IndInv

LEMMA StepIndInv ==
    ASSUME IndInv, NEW c \in Callers, Step(c)
    PROVE  IndInv'
BY GlobStep, ReadStatusStep, ListDriversStep, InstallDriverStep, RemoveDriverStep,
   RemoveRootFSStep, RemoveConfigStep, RemoveRootStep, InstallRootFSStep, DigestStep,
   WriteToStep, MoveConfigStep, MoveRootStep DEF Step

\* No step of a call, alone on its languages, and no crash breaks the invariant.
LEMMA NextIndInv ==
    ASSUME Overlap = FALSE, IndInv, [Next]_vars
    PROVE  IndInv'
<1>1. ASSUME NEW c \in Callers, NEW r \in Requests, Overlap \/ Alone(c, r), Begin(c, r)
      PROVE  IndInv'
  BY <1>1, BeginStep
<1>2. ASSUME NEW c \in Callers, Step(c)
      PROVE  IndInv'
  BY <1>2, StepIndInv
<1>3. CASE Crash
  BY <1>3, CrashStep
<1>4. CASE UNCHANGED vars
  BY <1>4, StutterIndInv
<1> QED BY <1>1, <1>2, <1>3, <1>4 DEF Next

-----------------------------------------------------------------------------

\* Every call in progress is as it believes to be, whatever the registry, the
\* file system and crashes do (runtime/storage.go under daemon.go's calls).
THEOREM StorageInvariant ==
    ASSUME Overlap = FALSE
    PROVE  Spec => []IndInv
<1>1. Init => IndInv
  BY InitIndInv
<1>2. IndInv /\ [Next]_vars => IndInv'
  BY NextIndInv, Zenon
<1> QED BY <1>1, <1>2, PTL DEF Spec

\* RootFS never finds two directories of an image: Install removes the old version
\* before it moves the new one in.
THEOREM StorageOneVersion ==
    ASSUME Overlap = FALSE
    PROVE  Spec => []OneVersion
<1>1. IndInv => OneVersion
  BY DEF IndInv
<1>2. Spec => []IndInv
  BY StorageInvariant, Zenon
<1> QED BY <1>1, <1>2, PTL

\* Until a crash, a lone configuration file is between the renames of moveImage
\* and a lone directory between the deletions of Remove.
THEOREM StorageHalfImage ==
    ASSUME Overlap = FALSE
    PROVE  Spec => []HalfImage
<1>1. IndInv => HalfImage
  BY DEF IndInv
<1>2. Spec => []IndInv
  BY StorageInvariant, Zenon
<1> QED BY <1>1, <1>2, PTL

-----------------------------------------------------------------------------
(* What holds of the calls whether or not they overlap: their type, and    *)
(* what each knows of itself.                                              *)

Typed == TypeOK /\ \A c \in Callers : CallOK(call[c])

LEMMA TypedSet ==
    ASSUME Typed, NEW c \in Callers, NEW n \in CallType, CallOK(n), Set(c, n),
           root' \in [Images -> SUBSET Digests], conf' \in [Images -> SUBSET Digests],
           ans' \in [Callers -> Answers], crashed' = crashed
    PROVE  Typed'
<1>1. /\ call' \in [Callers -> CallType]
      /\ call'[c] = n
      /\ \A o \in Callers : o # c => call'[o] = call[o]
  BY SetCall DEF Typed
<1>2. TypeOK'
  BY <1>1 DEF Typed, TypeOK
<1>3. \A o \in Callers : CallOK(call'[o])
  BY <1>1 DEF Typed
<1> QED BY <1>2, <1>3 DEF Typed

LEMMA TypedReturn ==
    ASSUME Typed, NEW c \in Callers, NEW a \in Answers, Return(c, a), crashed' = crashed,
           root' \in [Images -> SUBSET Digests], conf' \in [Images -> SUBSET Digests]
    PROVE  Typed'
<1>1. Set(c, Idle) /\ ans' \in [Callers -> Answers]
  BY DEF Return, Typed, TypeOK
<1>2. CallOK(Idle)
  BY IdleOK
<1> QED BY <1>1, <1>2, IdleType, TypedSet

LEMMA TypedGoto ==
    ASSUME Typed, NEW c \in Callers, NEW p \in Pcs, Goto(c, p), ans' = ans, crashed' = crashed,
           root' \in [Images -> SUBSET Digests], conf' \in [Images -> SUBSET Digests],
           ASSUME NEW n \in CallType, n.pc = p, SameBut(n, call[c])
           PROVE  CallOK(n)
    PROVE  Typed'
<1> DEFINE n == [call[c] EXCEPT !.pc = p]
<1>1. call[c] \in CallType /\ ans' \in [Callers -> Answers]
  BY DEF Typed, TypeOK
<1>2. n \in CallType /\ n.pc = p /\ SameBut(n, call[c])
  BY <1>1, SetPc
<1>3. Set(c, n)
  BY DEF Goto
<1> HIDE DEF n
<1>4. CallOK(n)
  BY <1>2
<1> QED BY <1>1, <1>2, <1>3, <1>4, TypedSet

\* List, and what follows from what it found.
LEMMA TypedList ==
    ASSUME Typed, NEW c \in Callers,
           Glob(c) \/ ReadStatus(c) \/ ListDrivers(c) \/ InstallDriver(c) \/ RemoveDriver(c)
    PROVE  Typed'
<1>0. /\ call[c] \in CallType /\ CallOK(call[c]) /\ ans \in [Callers -> Answers]
      /\ root' \in [Images -> SUBSET Digests] /\ conf' \in [Images -> SUBSET Digests]
      /\ crashed' = crashed
  BY Zenon DEF Typed, TypeOK, Glob, ReadStatus, ListDrivers, InstallDriver, RemoveDriver
<1>1. CASE Glob(c)
  <2> DEFINE t == {s \in Images \X Digests : s[2] \in conf[s[1]]}
             n == WithTodo(call[c], t)
  <2>1. t \in SUBSET (Images \X Digests)
    OBVIOUS
  <2>2. Set(c, n) /\ ans' = ans /\ call[c].pc = "glob"
    BY <1>1 DEF Glob, WithTodo, At
  <2> HIDE DEF t
  <2>3. n \in CallType /\ n.pc = "read" /\ n.found = {}
    BY <1>0, <2>1, <2>2, SetTodo DEF CallOK
  <2> HIDE DEF n
  <2>4. CallOK(n)
    BY <2>3 DEF CallOK
  <2> QED BY <1>0, <2>2, <2>3, <2>4, TypedSet
<1>2. CASE ReadStatus(c)
  <2>1. PICK s \in call[c].todo :
           \/ /\ Set(c, WithFound(call[c], call[c].todo \ {s},
                                  call[c].found \cup ({s[1]} \cap Served(call[c].req))))
              /\ ans' = ans
           \/ Return(c, "error")
    BY <1>2, Zenon DEF ReadStatus, WithFound
  <2> DEFINE t == call[c].todo \ {s}
             f == call[c].found \cup ({s[1]} \cap Served(call[c].req))
             n == WithFound(call[c], t, f)
  <2>2. t \in SUBSET (Images \X Digests) /\ f \in SUBSET Images
    BY <1>0 DEF CallType, Served
  <2>3. \A m \in f : m \in call[c].found \/ Lang[m] = call[c].req.lang
    BY DEF Served
  <2>4. (Set(c, n) /\ ans' = ans) \/ Return(c, "error")
    BY <2>1
  <2>5. call[c].pc = "read"
    BY <1>2, Zenon DEF ReadStatus, At
  <2> HIDE DEF t, f
  <2>6. n \in CallType /\ n.pc = "read" /\ n.req = call[c].req /\ n.found = f
    BY <1>0, <2>2, <2>5, SetFound
  <2> HIDE DEF n
  <2>7. CallOK(n)
    BY <1>0, <2>3, <2>5, <2>6 DEF CallOK
  <2>8. CASE Set(c, n) /\ ans' = ans
    BY <1>0, <2>6, <2>7, <2>8, TypedSet
  <2>9. CASE Return(c, "error")
    BY <1>0, <2>9, TypedReturn DEF Answers
  <2> QED BY <2>4, <2>8, <2>9
<1>3. ASSUME NEW a \in Answers, Return(c, a) PROVE Typed'
  BY <1>0, <1>3, TypedReturn
<1>4. ASSUME NEW m \in call[c].found, NEW a \in {"rootFS", "removed"}, GotoRemove(c, m, a),
             call[c].pc = "read", ans' = ans,
             a = "rootFS" => call[c].req.op = "install" /\ call[c].req.update,
             a = "removed" => call[c].req.op = "remove"
      PROVE  Typed'
  <2> DEFINE n == WithTarget(call[c], m, a)
  <2>1. m \in Images /\ Lang[m] = call[c].req.lang
    BY <1>0, <1>4 DEF CallType, CallOK
  <2>2. n \in CallType /\ n.pc = "rmRootFS" /\ n.req = call[c].req /\ n.target = m /\ n.after = a
    BY <1>0, <2>1, SetTarget
  <2>3. Set(c, n)
    BY <1>4 DEF GotoRemove, WithTarget
  <2> HIDE DEF n
  <2>4. CallOK(n)
    BY <1>4, <2>1, <2>2, Zenon DEF CallOK, RemovalOK
  <2> QED BY <1>0, <1>4, <2>2, <2>3, <2>4, TypedSet
<1>5. CASE ListDrivers(c)
  BY <1>3, <1>5 DEF ListDrivers, Answers
<1>6. CASE InstallDriver(c)
  <2>1. CASE Goto(c, "rootFS") /\ ans' = ans
    <3>1. ASSUME NEW n \in CallType, n.pc = "rootFS", SameBut(n, call[c]) PROVE CallOK(n)
      BY <1>6, <3>1 DEF CallOK, SameBut, InstallDriver
    <3> QED BY <1>0, <2>1, <3>1, TypedGoto, ZenonT(60) DEF Pcs
  <2>2. CASE Return(c, "already")
    BY <1>3, <2>2 DEF Answers
  <2>3. CASE /\ call[c].req.update /\ ans' = ans
             /\ \E m \in call[c].found : GotoRemove(c, m, "rootFS")
    BY <1>4, <1>6, <2>3, Zenon DEF InstallDriver, At
  <2> QED BY <1>6, <2>1, <2>2, <2>3 DEF InstallDriver
<1>7. CASE RemoveDriver(c)
  <2>1. CASE Return(c, "error")
    BY <1>3, <2>1 DEF Answers
  <2>2. CASE ans' = ans /\ \E m \in call[c].found : GotoRemove(c, m, "removed")
    BY <1>4, <1>7, <2>2 DEF RemoveDriver, At
  <2> QED BY <1>7, <2>1, <2>2 DEF RemoveDriver
<1> QED BY <1>1, <1>2, <1>5, <1>6, <1>7

\* Remove and Install.
LEMMA TypedDisk ==
    ASSUME Typed, NEW c \in Callers,
           \/ RemoveRootFS(c) \/ RemoveConfig(c) \/ RemoveRoot(c) \/ InstallRootFS(c)
           \/ Digest(c) \/ WriteTo(c) \/ MoveConfig(c) \/ MoveRoot(c)
    PROVE  Typed'
<1>0. /\ call[c] \in CallType /\ CallOK(call[c]) /\ ans \in [Callers -> Answers]
      /\ root \in [Images -> SUBSET Digests] /\ conf \in [Images -> SUBSET Digests]
      /\ crashed' = crashed
  BY Zenon DEF Typed, TypeOK, RemoveRootFS, RemoveConfig, RemoveRoot, InstallRootFS, Digest,
               WriteTo, MoveConfig, MoveRoot
<1>1. call[c].req.op = "install" => call[c].req.img \in Images
  BY <1>0, ZenonT(60) DEF CallType, Requests
<1>2. root' \in [Images -> SUBSET Digests]
  <2>1. CASE MoveRoot(c)
    BY <1>0, <1>1, <2>1 DEF MoveRoot, At, CallOK
  <2> QED
    BY <1>0, <2>1, Zenon DEF RemoveRootFS, RemoveConfig, RemoveRoot, InstallRootFS, Digest, WriteTo,
       MoveConfig
<1>3. conf' \in [Images -> SUBSET Digests]
  <2>1. CASE MoveConfig(c)
    BY <1>0, <1>1, <2>1 DEF MoveConfig, At, CallOK
  <2> QED
    BY <1>0, <2>1, Zenon DEF RemoveRootFS, RemoveConfig, RemoveRoot, InstallRootFS, Digest, WriteTo,
       MoveRoot
<1>4. ASSUME NEW a \in {"ok", "error"}, Return(c, a) PROVE Typed'
  BY <1>0, <1>2, <1>3, <1>4, TypedReturn DEF Answers
<1>5. ASSUME NEW p \in Pcs, Goto(c, p), ans' = ans,
             ASSUME NEW n \in CallType, n.pc = p, SameBut(n, call[c]) PROVE CallOK(n)
      PROVE  Typed'
  BY <1>0, <1>2, <1>3, <1>5, TypedGoto, Zenon
<1>6. CASE RemoveRootFS(c)
  <2>1. CASE Return(c, "error")
    BY <1>4, <2>1
  <2>2. CASE /\ ans' = ans
             /\ \E d \in root[call[c].target] : Set(c, WithVersion(call[c], d))
    <3>1. PICK d \in root[call[c].target] : Set(c, WithVersion(call[c], d))
      BY <2>2
    <3> DEFINE n == WithVersion(call[c], d)
    <3>2. RemovalOK(call[c]) /\ d \in Digests
      BY <1>0, <1>6, ZenonT(60) DEF RemoveRootFS, At, CallOK, RemovalOK
    <3>3. /\ n \in CallType /\ n.pc = "rmConfig" /\ n.req = call[c].req
          /\ n.target = call[c].target /\ n.version = d /\ n.after = call[c].after
          /\ n.digest = call[c].digest
      BY <1>0, <3>2, SetVersion, Zenon
    <3>4. Set(c, n)
      BY <3>1
    <3> HIDE DEF n
    <3>5. CallOK(n)
      BY <3>2, <3>3 DEF CallOK, RemovalOK
    <3> QED BY <1>0, <1>2, <1>3, <2>2, <3>3, <3>4, <3>5, TypedSet
  <2> QED BY <1>6, <2>1, <2>2, ZenonT(60) DEF RemoveRootFS, WithVersion
<1>7. CASE RemoveConfig(c)
  <2>1. ASSUME NEW n \in CallType, n.pc = "rmRoot", SameBut(n, call[c]) PROVE CallOK(n)
    BY <1>0, <1>7, <2>1, Zenon DEF CallOK, RemovalOK, SameBut, RemoveConfig, At
  <2> QED BY <1>5, <1>7, <2>1, Zenon DEF RemoveConfig, Pcs
<1>8. CASE RemoveRoot(c)
  <2>1. ASSUME NEW n \in CallType, n.pc = call[c].after, SameBut(n, call[c]),
               call[c].after # "removed"
        PROVE  CallOK(n)
    BY <1>0, <1>8, <2>1, Zenon DEF CallOK, RemovalOK, SameBut, RemoveRoot, At
  <2>2. call[c].after # "removed" => call[c].after \in {"rootFS", "writeTo"}
    BY <1>0, <1>8, Zenon DEF CallOK, RemovalOK, RemoveRoot, At
  <2>3. CASE call[c].after # "removed"
    BY <1>5, <1>8, <2>1, <2>2, <2>3, ZenonT(60) DEF RemoveRoot, Pcs
  <2>4. CASE call[c].after = "removed"
    BY <1>4, <1>8, <2>4, Zenon DEF RemoveRoot
  <2> QED BY <2>3, <2>4
<1>9. CASE InstallRootFS(c)
  <2>1. ASSUME NEW p \in {"digest", "digestOld"}, p = "digestOld" => call[c].req.update,
               NEW n \in CallType, n.pc = p, SameBut(n, call[c])
        PROVE  CallOK(n)
    BY <1>0, <1>9, <2>1, Zenon DEF CallOK, SameBut, InstallRootFS, At
  <2>2. CASE Goto(c, "digest") /\ ans' = ans
    BY <1>5, <2>1, <2>2, Zenon DEF Pcs
  <2>3. CASE call[c].req.update /\ Goto(c, "digestOld") /\ ans' = ans
    BY <1>5, <2>1, <2>3, Zenon DEF Pcs
  <2>4. CASE Return(c, "ok") \/ Return(c, "error")
    BY <1>4, <2>4
  <2> QED BY <1>9, <2>2, <2>3, <2>4 DEF InstallRootFS
<1>10. CASE Digest(c)
  <2> DEFINE p == IF At(c, "digest") THEN "writeTo" ELSE "rmRootFS"
  <2>1. /\ call[c].req.op = "install" /\ call[c].req.img \in Images
        /\ p \in {"writeTo", "rmRootFS"} /\ (p = "rmRootFS" => call[c].req.update)
    BY <1>0, <1>1, <1>10, Zenon DEF Digest, At, CallOK
  <2>2. CASE Return(c, "error")
    BY <1>4, <2>2
  <2>3. CASE \E d \in Digests : Set(c, WithDigest(call[c], d, p, call[c].req.img)) /\ ans' = ans
    <3>1. PICK d \in Digests : Set(c, WithDigest(call[c], d, p, call[c].req.img)) /\ ans' = ans
      BY <2>3
    <3> DEFINE n == WithDigest(call[c], d, p, call[c].req.img)
    <3>2. Set(c, n) /\ ans' \in [Callers -> Answers]
      BY <1>0, <3>1
    <3> HIDE DEF p
    <3>3. call[c] \in CallType /\ call[c].req.img \in Images /\ p \in {"writeTo", "rmRootFS"}
      BY <1>0, <2>1
    <3>4. /\ n \in CallType /\ n.pc = p /\ n.req = call[c].req /\ n.target = call[c].req.img
          /\ n.after = "writeTo" /\ n.digest = d
      <4>1. Digested(n, call[c], d, p, call[c].req.img)
        BY <3>3, SetDigest
      <4> QED BY <4>1, Zenon DEF Digested
    <3> HIDE DEF n
    <3>5. CallOK(n)
      BY <2>1, <3>4 DEF CallOK, RemovalOK
    <3> QED BY <1>0, <1>2, <1>3, <3>2, <3>4, <3>5, TypedSet
  <2> QED BY <1>10, <2>2, <2>3, Zenon DEF Digest, WithDigest
<1>11. CASE WriteTo(c)
  <2>1. ASSUME NEW n \in CallType, n.pc = "mvConfig", SameBut(n, call[c]) PROVE CallOK(n)
    BY <1>0, <1>11, <2>1, Zenon DEF CallOK, SameBut, WriteTo, At
  <2> QED BY <1>4, <1>5, <1>11, <2>1, Zenon DEF WriteTo, Pcs
<1>12. CASE MoveConfig(c)
  <2>1. ASSUME NEW n \in CallType, n.pc = "mvRoot", SameBut(n, call[c]) PROVE CallOK(n)
    BY <1>0, <1>12, <2>1, Zenon DEF CallOK, SameBut, MoveConfig, At
  <2> QED BY <1>5, <1>12, <2>1, Zenon DEF MoveConfig, Pcs
<1>13. CASE MoveRoot(c)
  BY <1>4, <1>13 DEF MoveRoot
<1> QED BY <1>6, <1>7, <1>8, <1>9, <1>10, <1>11, <1>12, <1>13

LEMMA TypedNext ==
    ASSUME Typed, [Next]_vars
    PROVE  Typed'
<1>1. ASSUME NEW c \in Callers, NEW r \in Requests, Begin(c, r)
      PROVE  Typed'
  <2> DEFINE n == [Idle EXCEPT !.pc = "glob", !.req = r]
  <2>1. n \in CallType /\ n.pc = "glob" /\ n.found = {}
    BY BeginType, Zenon
  <2>2. /\ Set(c, n) /\ ans' \in [Callers -> Answers] /\ crashed' = crashed
        /\ root' \in [Images -> SUBSET Digests] /\ conf' \in [Images -> SUBSET Digests]
    BY <1>1 DEF Begin, Typed, TypeOK, Answers
  <2> HIDE DEF n
  <2>3. CallOK(n)
    BY <2>1 DEF CallOK
  <2> QED BY <2>1, <2>2, <2>3, TypedSet
<1>2. ASSUME NEW c \in Callers, Step(c)
      PROVE  Typed'
  BY <1>2, TypedList, TypedDisk DEF Step
<1>3. CASE Crash
  <2>1. TypeOK'
    BY <1>3, IdleType DEF Crash, Typed, TypeOK, Answers
  <2>2. \A c \in Callers : call'[c] = Idle
    BY <1>3 DEF Crash
  <2>3. CallOK(Idle)
    BY IdleOK
  <2> QED BY <2>1, <2>2, <2>3 DEF Typed
<1>4. CASE UNCHANGED vars
  <2>1. TypeOK'
    BY <1>4 DEF vars, Typed, TypeOK
  <2>2. \A c \in Callers : call'[c] = call[c]
    BY <1>4 DEF vars
  <2> QED BY <2>1, <2>2 DEF Typed
<1> QED BY <1>1, <1>2, <1>3, <1>4 DEF Next

\* Overlapping calls may spoil the disk, never a call's own record: Remove always
\* has an image and a version to delete, and moveImage a digest to name its
\* directory by (runtime/storage.go, daemon.go).
THEOREM StorageTypes == Spec => []TypeOK
<1>1. Init => Typed
  BY InitIndInv DEF IndInv, Typed
<1>2. Typed /\ [Next]_vars => Typed'
  BY TypedNext
<1>3. Typed => TypeOK
  BY DEF Typed
<1> QED BY <1>1, <1>2, <1>3, PTL DEF Spec

-----------------------------------------------------------------------------
(* What a crash between the renames leaves behind.                         *)

LEMMA BrokenStep ==
    ASSUME TypeOK, Next, NEW n \in Images, NEW d \in Digests, Broken(n, d)
    PROVE  /\ Broken(n, d)'
           /\ root' = root /\ conf' = conf
           /\ \A c \in Callers : ans'[c] # ans[c] => ans'[c] \notin {"ok", "already"}
<1> DEFINE Kept == /\ Broken(n, d)'
                   /\ root' = root /\ conf' = conf
                   /\ \A o \in Callers : ans'[o] # ans[o] => ans'[o] \notin {"ok", "already"}
<1>0. /\ call \in [Callers -> CallType] /\ ans \in [Callers -> Answers]
      /\ d \in conf[n] /\ d \notin root[n]
      /\ \A c \in Callers : \/ call[c].pc = "idle" \/ call[c].pc = "glob"
                            \/ call[c].pc = "read" /\ <<n, d>> \in call[c].todo
  BY DEF TypeOK, Broken, At
<1>1. ASSUME root' = root, conf' = conf, NEW c \in Callers, NEW k \in CallType, Set(c, k),
             NEW a \in {"none", "error", "unavailable"}, ans' = ans \/ ans' = [ans EXCEPT ![c] = a],
             k.pc = "idle" \/ k.pc = "glob" \/ (k.pc = "read" /\ <<n, d>> \in k.todo)
      PROVE  Kept
  <2>1. /\ call'[c] = k
        /\ \A o \in Callers : o # c => call'[o] = call[o]
    BY <1>1, SetCall
  <2>2. Broken(n, d)'
    BY <1>0, <1>1, <2>1 DEF Broken, At
  <2>3. \A o \in Callers : ans'[o] # ans[o] => ans'[o] = a
    BY <1>0, <1>1
  <2> QED BY <1>1, <2>2, <2>3
<1>2. ASSUME NEW c \in Callers, NEW r \in Requests, Begin(c, r)
      PROVE  Kept
  <2> DEFINE k == [Idle EXCEPT !.pc = "glob", !.req = r]
  <2>1. k \in CallType /\ k.pc = "glob"
    BY BeginType, Zenon
  <2>2. Set(c, k) /\ root' = root /\ conf' = conf /\ ans' = [ans EXCEPT ![c] = "none"]
    BY <1>2 DEF Begin
  <2> HIDE DEF k
  <2> QED BY <1>1, <2>1, <2>2, Zenon
<1>3. ASSUME NEW c \in Callers, Glob(c)
      PROVE  Kept
  <2> DEFINE t == {s \in Images \X Digests : s[2] \in conf[s[1]]}
             k == WithTodo(call[c], t)
  <2>1. t \in SUBSET (Images \X Digests) /\ <<n, d>> \in t
    BY <1>0
  <2>2. Set(c, k) /\ root' = root /\ conf' = conf /\ ans' = ans
    BY <1>3 DEF Glob, WithTodo
  <2> HIDE DEF t
  <2>3. k \in CallType /\ k.pc = "read" /\ k.todo = t
    BY <1>0, <2>1, SetTodo
  <2> HIDE DEF k
  <2> QED BY <1>1, <2>1, <2>2, <2>3
<1>4. ASSUME NEW c \in Callers, ReadStatus(c)
      PROVE  Kept
  <2>1. PICK s \in call[c].todo :
           IF s[2] \in root[s[1]] \cap conf[s[1]]
           THEN /\ Set(c, [call[c] EXCEPT !.todo = @ \ {s},
                                          !.found = @ \cup ({s[1]} \cap Served(call[c].req))])
                /\ UNCHANGED ans
           ELSE Return(c, "error")
    BY <1>4, Zenon DEF ReadStatus
  <2>2. root' = root /\ conf' = conf /\ call[c].pc = "read"
    BY <1>4 DEF ReadStatus, At
  <2>3. CASE s[2] \notin root[s[1]] \cap conf[s[1]]
    BY <1>1, <2>1, <2>2, <2>3, IdleType DEF Return
  <2>4. CASE s[2] \in root[s[1]] \cap conf[s[1]]
    <3> DEFINE t == call[c].todo \ {s}
               f == call[c].found \cup ({s[1]} \cap Served(call[c].req))
               k == WithFound(call[c], t, f)
    <3>1. <<n, d>> \in call[c].todo /\ s # <<n, d>>
      BY <1>0, <2>2, <2>4
    <3>2. t \in SUBSET (Images \X Digests) /\ f \in SUBSET Images /\ <<n, d>> \in t
      BY <1>0, <3>1 DEF CallType, Served
    <3>3. Set(c, k) /\ ans' = ans
      BY <2>1, <2>4 DEF WithFound
    <3> HIDE DEF t, f
    <3>4. k \in CallType /\ k.pc = "read" /\ k.todo = t
      BY <1>0, <2>2, <3>2, SetFound
    <3> HIDE DEF k
    <3> QED BY <1>1, <2>2, <3>2, <3>3, <3>4
  <2> QED BY <2>3, <2>4
<1>5. ASSUME NEW c \in Callers, Step(c)
      PROVE  Glob(c) \/ ReadStatus(c)
  BY <1>0, <1>5, Zenon DEF Step, ListDrivers, InstallDriver, RemoveDriver, RemoveRootFS,
     RemoveConfig, RemoveRoot, InstallRootFS, Digest, WriteTo, MoveConfig, MoveRoot, At
<1>6. ASSUME Crash PROVE Kept
  <2>1. \A c \in Callers : call'[c].pc = "idle"
    BY <1>6, IdleType DEF Crash
  <2>2. root' = root /\ conf' = conf
    BY <1>6 DEF Crash
  <2>3. Broken(n, d)'
    BY <1>0, <2>1, <2>2 DEF Broken, At
  <2> QED BY <1>6, <2>2, <2>3 DEF Crash
<1>7. Kept
  <2> HIDE DEF Kept
  <2> QED BY <1>2, <1>3, <1>4, <1>5, <1>6 DEF Next
<1> QED BY <1>7

\* After a crash between the two renames of moveImage no call succeeds and the
\* storage never changes again: every call starts with List, and List fails.
\* Calls that overlap make no difference.
THEOREM StorageBrokenForGood == Spec => BrokenForGood
<1>1. ASSUME TypeOK, [Next]_vars
      PROVE  [\A n \in Images, d \in Digests : Broken(n, d) =>
                 /\ Broken(n, d)'
                 /\ root' = root /\ conf' = conf
                 /\ \A c \in Callers : ans'[c] # ans[c] => ans'[c] \notin {"ok", "already"}]_vars
  BY <1>1, BrokenStep
<1> QED BY <1>1, StorageTypes, PTL DEF Spec, BrokenForGood

-----------------------------------------------------------------------------
(* Storage implements ImageStore, as long as control calls do not overlap  *)
(* on a language: the initial states are the store's, and each step is one *)
(* step of the store or leaves it alone.                                   *)

LEMMA WorkSet ==
    ASSUME IndInv, NEW c \in Callers, NEW n \in CallType, Set(c, n)
    PROVE  /\ Work' = [Work EXCEPT ![c] = IF n.pc = "idle" THEN NoRequest ELSE n.req]
           /\ Done' = IF n.pc = "rmRoot" /\ n.req.op = "remove" THEN Done \cup {c} ELSE Done \ {c}
<1>1. /\ call' \in [Callers -> CallType]
      /\ call'[c] = n
      /\ \A o \in Callers : o # c => call'[o] = call[o]
  BY SetCall DEF IndInv
<1> QED BY <1>1, Zenon DEF Work, Done, At

LEMMA WorkOf ==
    ASSUME IndInv, NEW c \in Callers, call[c].pc # "idle"
    PROVE  Work[c] = call[c].req /\ Work[c] # NoRequest
<1>1. call[c].req \in Requests
  BY DEF IndInv, TypeOK, CallType
<1>2. call[c].req.op # "idle"
  BY <1>1, Zenon DEF Requests
<1>3. NoRequest.op = "idle"
  BY DEF NoRequest
<1> QED BY <1>2, <1>3 DEF Work, At

LEMMA StoreStutter ==
    ASSUME IndInv, NEW c \in Callers, NEW n \in CallType, Set(c, n),
           call[c].pc # "idle", n.pc # "idle", n.req = call[c].req, c \notin Done,
           n.pc # "rmRoot" \/ n.req.op # "remove", Shown' = Shown, ans' = ans
    PROVE  UNCHANGED Store!vars
<1>1. Work' = [Work EXCEPT ![c] = Work[c]] /\ Done' = Done \ {c}
  BY WorkSet, WorkOf
<1>2. Work' = Work
  BY <1>1, Zenon DEF Work
<1>3. Done' = Done
  BY <1>1
<1> QED BY <1>2, <1>3 DEF Store!vars

LEMMA StoreAnswer ==
    ASSUME IndInv, NEW c \in Callers, NEW a \in {"ok", "already", "error"}, Return(c, a),
           call[c].pc # "idle", Shown' = Shown,
           a = "ok" /\ call[c].req.op = "remove" => c \in Done,
           a = "ok" /\ call[c].req.op = "install" => ~call[c].req.update,
           a = "already" => /\ call[c].req.op = "install" /\ ~call[c].req.update
                            /\ \E s \in Shown : Lang[s[1]] = call[c].req.lang
    PROVE  Store!Answer(c)
<1>1. Set(c, Idle) /\ ans' = [ans EXCEPT ![c] = a] /\ ans \in [Callers -> Answers]
  BY DEF Return, IndInv, TypeOK
<1>2. Work' = [Work EXCEPT ![c] = NoRequest] /\ Done' = Done \ {c}
  BY <1>1, IdleType, WorkSet
<1>3. Work[c] = call[c].req /\ Work[c] # NoRequest
  BY WorkOf
<1>4. ans'[c] = a
  BY <1>1
<1> QED BY <1>1, <1>2, <1>3, <1>4 DEF Store!Answer

\* A step that leaves the disk alone is an answer or nothing to the store.
LEMMA StoreQuiet ==
    ASSUME IndInv, NEW c \in Callers, root' = root, conf' = conf,
           call[c].pc \notin {"idle", "rmRoot"},
           \/ Return(c, "error")
           \/ /\ Return(c, "already") /\ call[c].req.op = "install" /\ ~call[c].req.update
              /\ \E s \in Shown : Lang[s[1]] = call[c].req.lang
           \/ Return(c, "ok") /\ call[c].req.op = "list"
           \/ Return(c, "ok") /\ call[c].req.op = "install" /\ ~call[c].req.update
           \/ /\ ans' = ans
              /\ \E n \in CallType : Set(c, n) /\ n.pc \notin {"idle", "rmRoot"} /\ n.req = call[c].req
    PROVE  Store!Answer(c) \/ UNCHANGED Store!vars
<1>1. Shown' = Shown /\ c \notin Done
  BY DEF Shown, Done, At
<1>2. CASE \/ Return(c, "error")
           \/ /\ Return(c, "already") /\ call[c].req.op = "install" /\ ~call[c].req.update
              /\ \E s \in Shown : Lang[s[1]] = call[c].req.lang
           \/ Return(c, "ok") /\ call[c].req.op = "list"
           \/ Return(c, "ok") /\ call[c].req.op = "install" /\ ~call[c].req.update
  BY <1>1, <1>2, StoreAnswer
<1>3. CASE /\ ans' = ans
           /\ \E n \in CallType : Set(c, n) /\ n.pc \notin {"idle", "rmRoot"} /\ n.req = call[c].req
  BY <1>1, <1>3, StoreStutter
<1> QED BY <1>2, <1>3

\* The calls go on with their request: what StoreQuiet asks of them.
LEMMA GoesOn ==
    ASSUME IndInv, NEW c \in Callers
    PROVE  /\ \A p \in Pcs \ {"idle", "rmRoot"} : Goto(c, p) =>
                 \E n \in CallType : Set(c, n) /\ n.pc \notin {"idle", "rmRoot"} /\ n.req = call[c].req
           /\ \A m \in call[c].found, a \in {"rootFS", "removed"} : GotoRemove(c, m, a) =>
                 \E n \in CallType : Set(c, n) /\ n.pc \notin {"idle", "rmRoot"} /\ n.req = call[c].req
<1>1. call[c] \in CallType
  BY DEF IndInv, TypeOK
<1>2. ASSUME NEW p \in Pcs \ {"idle", "rmRoot"}, Goto(c, p)
      PROVE  \E n \in CallType : Set(c, n) /\ n.pc \notin {"idle", "rmRoot"} /\ n.req = call[c].req
  <2> DEFINE n == [call[c] EXCEPT !.pc = p]
  <2>1. n \in CallType /\ n.pc = p /\ n.req = call[c].req
    BY <1>1, SetPc DEF SameBut
  <2>2. Set(c, n)
    BY <1>2 DEF Goto
  <2> HIDE DEF n
  <2> QED BY <2>1, <2>2
<1>3. ASSUME NEW m \in call[c].found, NEW a \in {"rootFS", "removed"}, GotoRemove(c, m, a)
      PROVE  \E n \in CallType : Set(c, n) /\ n.pc \notin {"idle", "rmRoot"} /\ n.req = call[c].req
  <2> DEFINE n == WithTarget(call[c], m, a)
  <2>1. m \in Images
    BY <1>1 DEF CallType
  <2>2. n \in CallType /\ n.pc = "rmRootFS" /\ n.req = call[c].req
    BY <1>1, <2>1, SetTarget
  <2>3. Set(c, n)
    BY <1>3 DEF GotoRemove, WithTarget
  <2> HIDE DEF n
  <2> QED BY <2>2, <2>3
<1> QED BY <1>2, <1>3

LEMMA StoreList ==
    ASSUME IndInv, NEW c \in Callers, Glob(c) \/ ReadStatus(c) \/ ListDrivers(c)
    PROVE  Store!Answer(c) \/ UNCHANGED Store!vars
<1>1. call[c] \in CallType /\ root' = root /\ conf' = conf /\ call[c].pc \in {"glob", "read"}
  BY Zenon DEF IndInv, TypeOK, Glob, ReadStatus, ListDrivers, At
<1>2. CASE Glob(c)
  <2> DEFINE t == {s \in Images \X Digests : s[2] \in conf[s[1]]}
             n == WithTodo(call[c], t)
  <2>1. t \in SUBSET (Images \X Digests)
    OBVIOUS
  <2>2. Set(c, n) /\ ans' = ans
    BY <1>2 DEF Glob, WithTodo
  <2> HIDE DEF t
  <2>3. n \in CallType /\ n.pc = "read" /\ n.req = call[c].req
    BY <1>1, <2>1, SetTodo
  <2> HIDE DEF n
  <2> QED BY <1>1, <2>2, <2>3, StoreQuiet
<1>3. CASE ReadStatus(c)
  <2>1. PICK s \in call[c].todo :
           IF s[2] \in root[s[1]] \cap conf[s[1]]
           THEN /\ Set(c, [call[c] EXCEPT !.todo = @ \ {s},
                                          !.found = @ \cup ({s[1]} \cap Served(call[c].req))])
                /\ UNCHANGED ans
           ELSE Return(c, "error")
    BY <1>3, Zenon DEF ReadStatus
  <2>2. call[c].pc = "read"
    BY <1>3, Zenon DEF ReadStatus, At
  <2>3. CASE Return(c, "error")
    BY <1>1, <2>3, StoreQuiet
  <2>4. CASE s[2] \in root[s[1]] \cap conf[s[1]]
    <3> DEFINE t == call[c].todo \ {s}
               f == call[c].found \cup ({s[1]} \cap Served(call[c].req))
               n == WithFound(call[c], t, f)
    <3>1. t \in SUBSET (Images \X Digests) /\ f \in SUBSET Images
      BY <1>1 DEF CallType, Served
    <3>2. Set(c, n) /\ ans' = ans
      BY <2>1, <2>4 DEF WithFound
    <3> HIDE DEF t, f
    <3>3. n \in CallType /\ n.pc = "read" /\ n.req = call[c].req
      BY <1>1, <2>2, <3>1, SetFound
    <3> HIDE DEF n
    <3> QED BY <1>1, <3>2, <3>3, StoreQuiet
  <2> QED BY <2>1, <2>3, <2>4
<1>4. CASE ListDrivers(c)
  BY <1>1, <1>4, StoreQuiet, Zenon DEF ListDrivers
<1> QED BY <1>2, <1>3, <1>4

LEMMA StoreDecide ==
    ASSUME IndInv, NEW c \in Callers,
           InstallDriver(c) \/ RemoveDriver(c) \/ InstallRootFS(c) \/ WriteTo(c)
    PROVE  Store!Answer(c) \/ UNCHANGED Store!vars
<1>1. /\ CallOK(call[c]) /\ root' = root /\ conf' = conf
      /\ call[c].pc \in {"read", "rootFS", "writeTo"}
  BY Zenon DEF IndInv, InstallDriver, RemoveDriver, InstallRootFS, WriteTo, At
<1>2. {"rootFS", "digest", "digestOld", "mvConfig"} \subseteq Pcs \ {"idle", "rmRoot"}
  BY DEF Pcs
<1>3. CASE InstallDriver(c)
  <2>1. CASE Goto(c, "rootFS") /\ ans' = ans
    BY <1>1, <1>2, <2>1, GoesOn, StoreQuiet
  <2>2. CASE call[c].found # {} /\ ~call[c].req.update /\ Return(c, "already")
    <3>1. PICK n \in call[c].found : TRUE
      BY <2>2
    <3>2. call[c].pc = "read" /\ call[c].req.op = "install"
      BY <1>3 DEF InstallDriver, At
    <3>3. /\ call[c] \in CallType /\ DiskOK(call[c], root, conf)
          /\ root \in [Images -> SUBSET Digests]
      BY DEF IndInv, TypeOK
    <3>4. n \in Images /\ Lang[n] = call[c].req.lang /\ root[n] \cap conf[n] # {}
      BY <1>1, <3>2, <3>3 DEF CallType, CallOK, DiskOK
    <3>5. PICK d \in Digests : d \in root[n] \cap conf[n]
      BY <3>3, <3>4
    <3>6. <<n, d>> \in Shown /\ Lang[<<n, d>>[1]] = call[c].req.lang
      BY <3>4, <3>5 DEF Shown
    <3> QED BY <1>1, <2>2, <3>2, <3>6, StoreQuiet
  <2>3. CASE ans' = ans /\ \E m \in call[c].found : GotoRemove(c, m, "rootFS")
    BY <1>1, <2>3, GoesOn, StoreQuiet, ZenonT(60)
  <2> QED BY <1>3, <2>1, <2>2, <2>3, Zenon DEF InstallDriver
<1>4. CASE RemoveDriver(c)
  <2>1. CASE Return(c, "error")
    BY <1>1, <2>1, StoreQuiet
  <2>2. CASE ans' = ans /\ \E m \in call[c].found : GotoRemove(c, m, "removed")
    BY <1>1, <2>2, GoesOn, StoreQuiet, ZenonT(60)
  <2> QED BY <1>4, <2>1, <2>2, Zenon DEF RemoveDriver
<1>5. CASE InstallRootFS(c)
  <2>1. call[c].req.op = "install"
    BY <1>1, <1>5 DEF CallOK, InstallRootFS, At
  <2>2. CASE (Goto(c, "digest") \/ Goto(c, "digestOld")) /\ ans' = ans
    BY <1>1, <1>2, <2>2, GoesOn, StoreQuiet, Zenon
  <2>3. CASE Return(c, "ok") /\ ~call[c].req.update
    BY <1>1, <2>1, <2>3, StoreQuiet
  <2>4. CASE Return(c, "error")
    BY <1>1, <2>4, StoreQuiet
  <2> QED BY <1>5, <2>2, <2>3, <2>4 DEF InstallRootFS
<1>6. CASE WriteTo(c)
  <2>1. CASE Goto(c, "mvConfig") /\ ans' = ans
    BY <1>1, <1>2, <2>1, GoesOn, StoreQuiet, Zenon
  <2>2. CASE Return(c, "error")
    BY <1>1, <2>2, StoreQuiet
  <2> QED BY <1>6, <2>1, <2>2 DEF WriteTo
<1> QED BY <1>3, <1>4, <1>5, <1>6

LEMMA StoreRootFS ==
    ASSUME IndInv, NEW c \in Callers, RemoveRootFS(c)
    PROVE  Store!Answer(c) \/ UNCHANGED Store!vars
<1>1. call[c] \in CallType /\ CallOK(call[c]) /\ root' = root /\ conf' = conf
      /\ call[c].pc = "rmRootFS" /\ root \in [Images -> SUBSET Digests]
  BY Zenon DEF IndInv, TypeOK, RemoveRootFS, At
<1>2. CASE Return(c, "error")
  BY <1>1, <1>2, StoreQuiet
<1>3. CASE /\ ans' = ans
           /\ \E d \in root[call[c].target] :
                 Set(c, [call[c] EXCEPT !.pc = "rmConfig", !.version = d])
  <2>1. PICK d \in root[call[c].target] : Set(c, WithVersion(call[c], d))
    BY <1>3, Zenon DEF WithVersion
  <2>2. d \in Digests
    BY <1>1, Touched
  <2> DEFINE n == WithVersion(call[c], d)
  <2>3. n \in CallType /\ n.pc = "rmConfig" /\ n.req = call[c].req /\ Set(c, n)
    BY <1>1, <2>1, <2>2, SetVersion
  <2> HIDE DEF n
  <2> QED BY <1>1, <1>3, <2>3, StoreQuiet
<1> QED BY <1>2, <1>3, Zenon DEF RemoveRootFS

LEMMA StoreDigest ==
    ASSUME IndInv, NEW c \in Callers, Digest(c)
    PROVE  Store!Answer(c) \/ UNCHANGED Store!vars
<1>1. call[c] \in CallType /\ CallOK(call[c]) /\ root' = root /\ conf' = conf
      /\ call[c].pc \in {"digest", "digestOld"}
  BY Zenon DEF IndInv, TypeOK, Digest, At
<1>2. CASE Return(c, "error")
  BY <1>1, <1>2, StoreQuiet
<1>3. CASE ~Return(c, "error")
  <2> DEFINE p == IF At(c, "digest") THEN "writeTo" ELSE "rmRootFS"
  <2>1. /\ ans' = ans
        /\ \E d \in Digests : Set(c, WithDigest(call[c], d, p, call[c].req.img))
    BY <1>3, Zenon DEF Digest, WithDigest
  <2>2. PICK d \in Digests : Set(c, WithDigest(call[c], d, p, call[c].req.img))
    BY <2>1
  <2>3. p \in {"writeTo", "rmRootFS"} /\ call[c].req.img \in Images
    BY <1>1, Touched
  <2> HIDE DEF p
  <2> DEFINE n == WithDigest(call[c], d, p, call[c].req.img)
  <2>4. n \in CallType /\ n.pc = p /\ n.req = call[c].req /\ Set(c, n)
    <3>1. Digested(n, call[c], d, p, call[c].req.img)
      BY <1>1, <2>2, <2>3, SetDigest
    <3> QED BY <2>2, <3>1, Zenon DEF Digested
  <2> HIDE DEF n
  <2> QED BY <1>1, <2>1, <2>3, <2>4, StoreQuiet
<1> QED BY <1>2, <1>3

\* Deleting the configuration file takes the image away; if a crash had already
\* cost it that file, it was not installed.
LEMMA StoreRemoveConfig ==
    ASSUME IndInv, NEW c \in Callers, RemoveConfig(c)
    PROVE  Store!Withdraw(c) \/ UNCHANGED Store!vars
<1> DEFINE m == call[c].target
           v == call[c].version
           n == [call[c] EXCEPT !.pc = "rmRoot"]
<1>1. call[c] \in CallType /\ call[c].pc = "rmConfig" /\ CallOK(call[c])
      /\ DiskOK(call[c], root, conf)
      /\ root \in [Images -> SUBSET Digests] /\ conf \in [Images -> SUBSET Digests]
      /\ root' = root /\ ans' = ans
  BY DEF IndInv, TypeOK, RemoveConfig, At
<1>2. m \in Images /\ v \in Digests /\ RemovalOK(call[c]) /\ root[m] = {v}
      /\ (call[c].after # "writeTo" => v \in conf[m])
  BY <1>1, Touched, Zenon DEF CallOK, DiskOK
<1>3. n \in CallType /\ n.pc = "rmRoot" /\ n.req = call[c].req
  BY <1>1, SetPc, Zenon DEF Pcs, SameBut
<1>4. Set(c, n) /\ conf' = [conf EXCEPT ![m] = @ \ {v}]
  BY DEF RemoveConfig, Goto
<1>5. c \notin Done
  BY <1>1 DEF Done, At
<1> HIDE DEF n
<1>6. CASE v \notin conf[m]
  <2>1. conf' = conf
    BY <1>1, <1>4, <1>6
  <2>2. Shown' = Shown
    BY <1>1, <2>1 DEF Shown
  <2>3. call[c].req.op # "remove"
    BY <1>2, <1>6 DEF RemovalOK
  <2> QED BY <1>1, <1>3, <1>4, <1>5, <2>2, <2>3, StoreStutter
<1>7. CASE v \in conf[m]
  <2>1. Work' = [Work EXCEPT ![c] = Work[c]]
        /\ Done' = IF call[c].req.op = "remove" THEN Done \cup {c} ELSE Done \ {c}
    BY <1>1, <1>3, <1>4, WorkSet, WorkOf
  <2>2. Work' = Work
    BY <2>1, Zenon DEF Work
  <2>3. Done' = IF call[c].req.op = "remove" THEN Done \cup {c} ELSE Done
    BY <1>5, <2>1
  <2>4. <<m, v>> \in Shown
    BY <1>2, <1>7 DEF Shown
  <2>5. Shown' = Shown \ {<<m, v>>}
    <3>1. /\ \A i \in Images : i # m => conf'[i] = conf[i]
          /\ conf'[m] = conf[m] \ {v}
      BY <1>1, <1>2, <1>4
    <3> HIDE DEF m, v
    <3> QED BY <1>1, <3>1 DEF Shown
  <2>6. /\ call[c].req.op = "remove" \/ (call[c].req.op = "install" /\ call[c].req.update)
        /\ Lang[m] = call[c].req.lang \/ m = call[c].req.img
    BY <1>2 DEF RemovalOK
  <2>7. Work[c] = call[c].req /\ Work[c] # NoRequest
    BY <1>1, WorkOf
  <2> HIDE DEF m, v
  <2>8. \E s \in Shown : /\ Lang[s[1]] = Work[c].lang \/ s[1] = Work[c].img
                         /\ Shown' = Shown \ {s}
    <3>1. <<m, v>>[1] = m
      OBVIOUS
    <3> QED BY <2>4, <2>5, <2>6, <2>7, <3>1
  <2> QED BY <1>1, <2>2, <2>3, <2>6, <2>7, <2>8 DEF Store!Withdraw
<1> QED BY <1>6, <1>7

\* The directory that goes after it is not an installed image any more.
LEMMA StoreRemoveRoot ==
    ASSUME IndInv, NEW c \in Callers, RemoveRoot(c)
    PROVE  Store!Answer(c) \/ UNCHANGED Store!vars
<1> DEFINE m == call[c].target
           v == call[c].version
<1>1. call[c] \in CallType /\ call[c].pc = "rmRoot" /\ CallOK(call[c])
      /\ DiskOK(call[c], root, conf)
      /\ root \in [Images -> SUBSET Digests] /\ conf \in [Images -> SUBSET Digests]
      /\ conf' = conf
  BY DEF IndInv, TypeOK, RemoveRoot, At
<1>2. m \in Images /\ RemovalOK(call[c]) /\ root[m] = {v} /\ v \notin conf[m]
  BY <1>1, Touched DEF CallOK, DiskOK
<1>3. root' = [root EXCEPT ![m] = @ \ {v}]
  BY DEF RemoveRoot
<1>4. Shown' = Shown
  <2>1. /\ \A i \in Images : i # m => root'[i] = root[i]
        /\ root'[m] = {}
    BY <1>1, <1>2, <1>3
  <2> HIDE DEF m, v
  <2> QED BY <1>1, <1>2, <2>1 DEF Shown
<1>5. CASE call[c].after = "removed"
  <2>1. Return(c, "ok")
    BY <1>5 DEF RemoveRoot
  <2>2. call[c].req.op = "remove"
    BY <1>2, <1>5 DEF RemovalOK
  <2>3. c \in Done
    BY <1>1, <2>2 DEF Done, At
  <2> QED BY <1>1, <1>4, <2>1, <2>2, <2>3, StoreAnswer
<1>6. CASE call[c].after # "removed"
  <2>1. Goto(c, call[c].after) /\ ans' = ans
    BY <1>6 DEF RemoveRoot
  <2>2. call[c].req.op = "install" /\ call[c].after \in Pcs \ {"idle", "rmRoot"}
    BY <1>2, <1>6 DEF RemovalOK, Pcs
  <2>3. PICK n \in CallType : Set(c, n) /\ n.pc \notin {"idle", "rmRoot"} /\ n.req = call[c].req
    BY <2>1, <2>2, GoesOn
  <2>4. c \notin Done
    BY <2>2 DEF Done
  <2> QED BY <1>1, <1>4, <2>1, <2>3, <2>4, StoreStutter
<1> QED BY <1>5, <1>6

LEMMA StoreMoveConfig ==
    ASSUME IndInv, NEW c \in Callers, MoveConfig(c)
    PROVE  UNCHANGED Store!vars
<1> DEFINE m == call[c].req.img
<1>1. call[c] \in CallType /\ call[c].pc = "mvConfig" /\ CallOK(call[c])
      /\ DiskOK(call[c], root, conf)
      /\ root \in [Images -> SUBSET Digests] /\ conf \in [Images -> SUBSET Digests]
      /\ root' = root /\ ans' = ans
  BY DEF IndInv, TypeOK, MoveConfig, At
<1>2. m \in Images /\ root[m] = {}
  BY <1>1, Touched DEF DiskOK
<1>3. \A i \in Images : i # m => conf'[i] = conf[i]
  BY <1>1 DEF MoveConfig
<1>4. Shown' = Shown
  <2> HIDE DEF m
  <2> QED BY <1>1, <1>2, <1>3 DEF Shown
<1>5. Goto(c, "mvRoot") /\ "mvRoot" \in Pcs \ {"idle", "rmRoot"}
  BY DEF MoveConfig, Pcs
<1>6. PICK n \in CallType : Set(c, n) /\ n.pc \notin {"idle", "rmRoot"} /\ n.req = call[c].req
  BY <1>5, GoesOn, Zenon
<1>7. c \notin Done
  BY <1>1 DEF Done, At
<1> QED BY <1>1, <1>4, <1>6, <1>7, StoreStutter

\* The second rename installs the image and the call succeeds.
LEMMA StoreMoveRoot ==
    ASSUME IndInv, NEW c \in Callers, MoveRoot(c)
    PROVE  Store!Publish(c)
<1> DEFINE m == call[c].req.img
           d == call[c].digest
<1>1. call[c].pc = "mvRoot" /\ conf' = conf
      /\ root \in [Images -> SUBSET Digests] /\ conf \in [Images -> SUBSET Digests]
  BY DEF IndInv, TypeOK, MoveRoot, At
<1>2. /\ m \in Images /\ d \in Digests /\ root[m] = {} /\ d \in conf[m]
      /\ call[c].req.op = "install"
      /\ root' = [root EXCEPT ![m] = @ \cup {d}] /\ Return(c, "ok")
  BY MoveRootFree
<1>3. Set(c, Idle) /\ ans' = [ans EXCEPT ![c] = "ok"]
  BY <1>2 DEF Return
<1>4. Work' = [Work EXCEPT ![c] = NoRequest] /\ Done' = Done \ {c}
  BY <1>3, IdleType, WorkSet
<1>5. Done' = Done
  BY <1>1, <1>4 DEF Done, At
<1>6. Work[c] = call[c].req /\ Work[c] # NoRequest
  BY <1>1, WorkOf
<1>7. \A s \in Shown : s[1] # m
  BY <1>2 DEF Shown
<1>8. Shown' = Shown \cup {<<m, d>>}
  <2>1. /\ \A i \in Images : i # m => root'[i] = root[i]
        /\ root'[m] = {d}
    BY <1>1, <1>2
  <2> HIDE DEF m, d
  <2> QED BY <1>1, <1>2, <2>1 DEF Shown
<1>9. \E e \in Digests : Shown' = Shown \cup {<<Work[c].img, e>>}
  BY <1>2, <1>6, <1>8
<1> HIDE DEF d
<1> QED BY <1>2, <1>3, <1>4, <1>5, <1>6, <1>7, <1>9 DEF Store!Publish

LEMMA StoreBegin ==
    ASSUME IndInv, NEW c \in Callers, NEW r \in Requests, Begin(c, r)
    PROVE  Store!Start(c)
<1> DEFINE n == [Idle EXCEPT !.pc = "glob", !.req = r]
<1>1. n \in CallType /\ n.pc = "glob" /\ n.req = r
  BY BeginType, Zenon
<1>2. Set(c, n) /\ root' = root /\ conf' = conf /\ call[c].pc = "idle"
      /\ ans' = [ans EXCEPT ![c] = "none"]
  BY DEF Begin, At
<1> HIDE DEF n
<1>3. Work' = [Work EXCEPT ![c] = r] /\ Done' = Done \ {c}
  BY <1>1, <1>2, WorkSet
<1>4. Done' = Done /\ Work[c] = NoRequest /\ Shown' = Shown
  BY <1>2, <1>3 DEF Done, Work, Shown, At
<1>5. Work'[c] = r
  BY <1>3 DEF Work
<1> QED BY <1>2, <1>3, <1>4, <1>5, Zenon DEF Store!Start

LEMMA StoreCrash ==
    ASSUME IndInv, Crash
    PROVE  Store!Crash
<1>1. \A c \in Callers : call'[c].pc = "idle"
  BY IdleType DEF Crash
<1>2. Work' = [c \in Callers |-> NoRequest] /\ Done' = {}
  BY <1>1 DEF Work, Done, At
<1>3. Shown' = Shown
  BY DEF Crash, Shown
<1>4. \A c \in Callers : (Work[c] = NoRequest) <=> At(c, "idle")
  BY WorkOf DEF Work, At
<1>5. ans' = [c \in Callers |-> IF Work[c] = NoRequest THEN ans[c] ELSE "unavailable"]
  BY <1>4 DEF Crash
<1> QED BY <1>2, <1>3, <1>5 DEF Store!Crash

LEMMA StoreInit == Init => Store!Init
<1> SUFFICES ASSUME Init PROVE Store!Init
  OBVIOUS
<1>1. \A c \in Callers : call[c].pc = "idle"
  BY IdleType DEF Init
<1>2. Work = [c \in Callers |-> NoRequest] /\ Done = {}
  BY <1>1 DEF Work, Done, At
<1>3. \A i \in Images : \A d, e \in root[i] : d = e
  BY DEF Init
<1>4. Shown \subseteq Images \X Digests
  BY DEF Shown
<1>5. \A s, t \in Shown : s[1] = t[1] => s = t
  BY <1>3 DEF Shown
<1> QED BY <1>2, <1>4, <1>5 DEF Init, Store!Init

\* Every step on disk is one step of the store, or none: List, the digest and the
\* first rename do not show, the first deletion and the second rename do.
LEMMA StoreCallStep ==
    ASSUME IndInv, NEW c \in Callers, Step(c)
    PROVE  Store!Withdraw(c) \/ Store!Publish(c) \/ Store!Answer(c) \/ UNCHANGED Store!vars
BY StoreList, StoreDecide, StoreRootFS, StoreDigest, StoreRemoveConfig, StoreRemoveRoot,
   StoreMoveConfig, StoreMoveRoot DEF Step

LEMMA StoreStep ==
    ASSUME IndInv, [Next]_vars
    PROVE  [Store!Next]_Store!vars
<1>1. ASSUME NEW c \in Callers, NEW r \in Requests, Begin(c, r)
      PROVE  Store!Next
  BY <1>1, StoreBegin DEF Store!Next
<1>2. ASSUME NEW c \in Callers, Step(c)
      PROVE  [Store!Next]_Store!vars
  BY <1>2, StoreCallStep DEF Store!Next
<1>3. CASE Crash
  BY <1>3, StoreCrash DEF Store!Next
<1>4. CASE UNCHANGED vars
  BY <1>4 DEF vars, Store!vars, Shown, Work, Done, At
<1> QED BY <1>1, <1>2, <1>3, <1>4 DEF Next

\* Seen from outside, images appear and disappear in one step, only within a call
\* that asked for it, and a crash changes none (storage.go's Install and Remove).
THEOREM StorageImplementsStore ==
    ASSUME Overlap = FALSE
    PROVE  Spec => StorePromise
<1>1. Init => Store!Init
  BY StoreInit
<1>2. IndInv /\ [Next]_vars => [Store!Next]_Store!vars
  BY StoreStep
<1> QED BY <1>1, <1>2, StorageInvariant, PTL DEF Spec, StorePromise, Store!Spec

=============================================================================
