------------------------------ MODULE Storage -------------------------------
(***************************************************************************)
(* The driver images on disk (runtime/storage.go) and the calls of the     *)
(* daemon that work on them: InstallDriver, RemoveDriver and DriverStates  *)
(* (daemon/daemon.go).                                                     *)
(*                                                                         *)
(* An installed image is a directory with the driver's files, named after  *)
(* the image and the digest of its layers, and a configuration file next   *)
(* to it.  Nothing locks the storage, so that the calls of different       *)
(* goroutines interleave between any two operations on the file system,    *)
(* and a crash leaves what was done so far.                                *)
(***************************************************************************)
EXTENDS Integers, FiniteSets

CONSTANTS
    Callers,    \* goroutines that serve control calls
    Images,     \* image references
    Digests,    \* digests of the layers: the versions of an image
    Languages,
    Lang,       \* the language in the manifest of each image
    Overlap     \* calls on the same language may overlap

ASSUME LangAssumption == Lang \in [Images -> Languages]
ASSUME OverlapAssumption == Overlap \in BOOLEAN

VARIABLES
    root,       \* root[n]: the versions of n with a directory on disk
    conf,       \* conf[n]: the versions of n with a configuration file
    call,       \* what each caller is doing
    ans,        \* the last answer each caller got
    crashed     \* the daemon has crashed and been restarted

vars == <<root, conf, call, ans, crashed>>

Requests ==
    [op : {"install"}, lang : Languages, img : Images, update : BOOLEAN]
    \cup [op : {"remove"}, lang : Languages, img : {"-"}, update : {FALSE}]
    \cup [op : {"list"}, lang : {"-"}, img : {"-"}, update : {FALSE}]

\* A call has its request, the configuration files List found and has yet to
\* read, the images of its language read so far, the image to remove with the version found on
\* disk, what follows the removal, and the digest of the new version.
Idle == [pc |-> "idle", req |-> [op |-> "list", lang |-> "-", img |-> "-", update |-> FALSE],
         todo |-> {}, found |-> {}, target |-> "-", version |-> "-", after |-> "-",
         digest |-> "-"]

At(c, pc) == call[c].pc = pc
Set(c, k) == call' = [call EXCEPT ![c] = k]
Goto(c, pc) == Set(c, [call[c] EXCEPT !.pc = pc])
Return(c, a) == Set(c, Idle) /\ ans' = [ans EXCEPT ![c] = a]

\* rootFSFromBase: an image has one directory, or none, or the storage is dirty.
Installed(n)    == \E d \in Digests : root[n] = {d}
NotInstalled(n) == root[n] = {}

\* Go on to Remove(n), and from there to after.
GotoRemove(c, n, after) ==
    Set(c, [call[c] EXCEPT !.pc = "rmRootFS", !.target = n, !.after = after])

-----------------------------------------------------------------------------

Init ==
    /\ root \in [Images -> {{}} \cup {{d} : d \in Digests}]
    /\ conf = root
    /\ call = [c \in Callers |-> Idle]
    /\ ans = [c \in Callers |-> "none"]
    /\ crashed = FALSE

\* A call of the control service reaches the daemon.
Begin(c, r) ==
    /\ At(c, "idle")
    /\ Set(c, [Idle EXCEPT !.pc = "glob", !.req = r])
    /\ ans' = [ans EXCEPT ![c] = "none"]
    /\ UNCHANGED <<root, conf, crashed>>

\* List: the glob over the configuration files.
Glob(c) ==
    /\ At(c, "glob")
    /\ Set(c, [call[c] EXCEPT !.pc = "read",
                              !.todo = {s \in Images \X Digests : s[2] \in conf[s[1]]}])
    /\ UNCHANGED <<root, conf, ans, crashed>>

\* Mutant: the language is not compared.
ServedAny(r) == Images

\* The images that driverWithLang takes for the language of a request.
Served(r) == {n \in Images : Lang[n] = r.lang}

\* Mutant: List skips what it cannot read.
ReadStatusSkips(c) ==
    /\ At(c, "read")
    /\ \E s \in call[c].todo :
          Set(c, [call[c] EXCEPT !.todo = @ \ {s},
                                 !.found = IF s[2] \in root[s[1]] \cap conf[s[1]]
                                           THEN @ \cup ({s[1]} \cap Served(call[c].req)) ELSE @])
    /\ UNCHANGED <<root, conf, ans, crashed>>

\* newDriverImageStatus of one of the files: the manifest is in the directory.
\* List fails if either is missing.
ReadStatus(c) ==
    /\ At(c, "read")
    /\ \E s \in call[c].todo :
          IF s[2] \in root[s[1]] \cap conf[s[1]]
          THEN /\ Set(c, [call[c] EXCEPT !.todo = @ \ {s},
                                         !.found = @ \cup ({s[1]} \cap Served(call[c].req))])
               /\ UNCHANGED ans
          ELSE Return(c, "error")
    /\ UNCHANGED <<root, conf, crashed>>

\* getDriverImage takes the first image that driverWithLang finds in the list.
ListDrivers(c) ==
    /\ At(c, "read") /\ call[c].todo = {} /\ call[c].req.op = "list"
    /\ Return(c, "ok")
    /\ UNCHANGED <<root, conf, crashed>>

InstallDriver(c) ==
    /\ At(c, "read") /\ call[c].todo = {} /\ call[c].req.op = "install"
    /\ \/ call[c].found = {} /\ Goto(c, "rootFS") /\ UNCHANGED ans
       \/ call[c].found # {} /\ ~call[c].req.update /\ Return(c, "already")
       \/ /\ call[c].req.update
          /\ \E n \in call[c].found : GotoRemove(c, n, "rootFS")
          /\ UNCHANGED ans
    /\ UNCHANGED <<root, conf, crashed>>

RemoveDriver(c) ==
    /\ At(c, "read") /\ call[c].todo = {} /\ call[c].req.op = "remove"
    /\ \/ call[c].found = {} /\ Return(c, "error")
       \/ /\ \E n \in call[c].found : GotoRemove(c, n, "removed")
          /\ UNCHANGED ans
    /\ UNCHANGED <<root, conf, crashed>>

\* Remove: find the directory, delete the configuration file, then the directory.
RemoveRootFS(c) ==
    /\ At(c, "rmRootFS")
    /\ IF Installed(call[c].target)
       THEN /\ \E d \in root[call[c].target] :
                  Set(c, [call[c] EXCEPT !.pc = "rmConfig", !.version = d])
            /\ UNCHANGED ans
       ELSE Return(c, "error")
    /\ UNCHANGED <<root, conf, crashed>>

\* Mutant: Remove returns after the first deletion.
RemoveConfigReturns(c) ==
    /\ At(c, "rmConfig")
    /\ conf' = [conf EXCEPT ![call[c].target] = @ \ {call[c].version}]
    /\ Return(c, "error")
    /\ UNCHANGED <<root, crashed>>

RemoveConfig(c) ==
    /\ At(c, "rmConfig")
    /\ conf' = [conf EXCEPT ![call[c].target] = @ \ {call[c].version}]
    /\ Goto(c, "rmRoot")
    /\ UNCHANGED <<root, ans, crashed>>

\* After the removal RemoveDriver stops the pool and returns, InstallDriver goes
\* on.
RemoveRoot(c) ==
    /\ At(c, "rmRoot")
    /\ root' = [root EXCEPT ![call[c].target] = @ \ {call[c].version}]
    /\ IF call[c].after = "removed" THEN Return(c, "ok")
       ELSE Goto(c, call[c].after) /\ UNCHANGED ans
    /\ UNCHANGED <<conf, crashed>>

\* Mutant: an update does not remove the image that is there.
InstallRootFSKeeps(c) ==
    /\ At(c, "rootFS")
    /\ \/ /\ NotInstalled(call[c].req.img) \/ call[c].req.update
          /\ Goto(c, "digest") /\ UNCHANGED ans
       \/ ~NotInstalled(call[c].req.img) /\ ~call[c].req.update /\ Return(c, "ok")
    /\ UNCHANGED <<root, conf, crashed>>

\* Install: an image that exists and is not to be updated is left alone, and
\* that is no error.
InstallRootFS(c) ==
    /\ At(c, "rootFS")
    /\ \/ NotInstalled(call[c].req.img) /\ Goto(c, "digest") /\ UNCHANGED ans
       \/ /\ Installed(call[c].req.img)
          /\ IF call[c].req.update THEN Goto(c, "digestOld") /\ UNCHANGED ans
             ELSE Return(c, "ok")
       \/ /\ ~Installed(call[c].req.img) /\ ~NotInstalled(call[c].req.img)
          /\ Return(c, "error")
    /\ UNCHANGED <<root, conf, crashed>>

\* Mutant: the digest is not kept for the name of the directory.
DigestForgotten(c) ==
    /\ At(c, "digest") \/ At(c, "digestOld")
    /\ Set(c, [call[c] EXCEPT !.pc     = IF At(c, "digest") THEN "writeTo" ELSE "rmRootFS",
                              !.target = call[c].req.img,
                              !.after  = "writeTo"])
    /\ UNCHANGED <<root, conf, ans, crashed>>

\* Digest asks the registry, where the reference may have moved to another
\* version at any time.  An existing version is removed after that.
Digest(c) ==
    /\ At(c, "digest") \/ At(c, "digestOld")
    /\ \/ Return(c, "error")
       \/ /\ \E d \in Digests :
                Set(c, [call[c] EXCEPT
                            !.digest = d,
                            !.pc     = IF At(c, "digest") THEN "writeTo" ELSE "rmRootFS",
                            !.target = call[c].req.img,
                            !.after  = "writeTo"])
          /\ UNCHANGED ans
    /\ UNCHANGED <<root, conf, crashed>>

\* WriteTo fetches the layers and the configuration into a temporary directory,
\* and newDriverImageStatus reads the manifest there.
WriteTo(c) ==
    /\ At(c, "writeTo")
    /\ (Goto(c, "mvConfig") /\ UNCHANGED ans) \/ Return(c, "error")
    /\ UNCHANGED <<root, conf, crashed>>

\* moveImage renames the configuration file first.
MoveConfig(c) ==
    /\ At(c, "mvConfig")
    /\ conf' = [conf EXCEPT ![call[c].req.img] = @ \cup {call[c].digest}]
    /\ Goto(c, "mvRoot")
    /\ UNCHANGED <<root, ans, crashed>>

\* A directory is not renamed over another one that has files in it.
MoveRoot(c) ==
    /\ At(c, "mvRoot")
    /\ IF call[c].digest \in root[call[c].req.img]
       THEN Return(c, "error") /\ UNCHANGED root
       ELSE /\ root' = [root EXCEPT ![call[c].req.img] = @ \cup {call[c].digest}]
            /\ Return(c, "ok")
    /\ UNCHANGED <<conf, crashed>>

\* The daemon dies and is started again: the disk stays as it is, and clients
\* that wait for an answer get an error from the connection.
Crash ==
    /\ call' = [c \in Callers |-> Idle]
    /\ ans' = [c \in Callers |-> IF At(c, "idle") THEN ans[c] ELSE "unavailable"]
    /\ crashed' = TRUE
    /\ UNCHANGED <<root, conf>>

Step(c) ==
    \/ Glob(c) \/ ReadStatus(c) \/ ListDrivers(c) \/ InstallDriver(c) \/ RemoveDriver(c)
    \/ RemoveRootFS(c) \/ RemoveConfig(c) \/ RemoveRoot(c)
    \/ InstallRootFS(c) \/ Digest(c) \/ WriteTo(c) \/ MoveConfig(c) \/ MoveRoot(c)

\* The languages whose images a request may change.
Touches(r) ==
    IF r.op = "list" THEN {}
    ELSE {r.lang} \cup (IF r.op = "install" THEN {Lang[r.img]} ELSE {})

\* No other call in progress is about a language of this request.
Alone(c, r) ==
    \A o \in Callers \ {c} : At(o, "idle") \/ Touches(call[o].req) \cap Touches(r) = {}

Next ==
    \/ \E c \in Callers :
          \/ \E r \in Requests : (Overlap \/ Alone(c, r)) /\ Begin(c, r)
          \/ Step(c)
    \/ Crash

Spec == Init /\ [][Next]_vars

-----------------------------------------------------------------------------

Pcs == {"idle", "glob", "read", "rmRootFS", "rmConfig", "rmRoot", "rootFS", "digest",
        "digestOld", "writeTo", "mvConfig", "mvRoot"}

Answers == {"none", "ok", "already", "error", "unavailable"}

CallType ==
    [pc : Pcs, req : Requests, todo : SUBSET (Images \X Digests), found : SUBSET Images,
     target : Images \cup {"-"}, version : Digests \cup {"-"},
     after : {"-", "rootFS", "writeTo", "removed"}, digest : Digests \cup {"-"}]

TypeOK ==
    /\ root \in [Images -> SUBSET Digests]
    /\ conf \in [Images -> SUBSET Digests]
    /\ call \in [Callers -> CallType]
    /\ ans \in [Callers -> Answers]
    /\ crashed \in BOOLEAN

\* Only one version of an image is on disk, so that RootFS never finds a dirty
\* storage: an update removes the old version before it moves the new one in,
\* whatever the registry does in between and wherever the daemon crashes.
OneVersion == \A n \in Images : \A d, e \in root[n] : d = e

\* While the daemon has not crashed, a configuration file without a directory
\* belongs to a call between the two renames of moveImage, and a directory
\* without a configuration file to a call between the two deletions of Remove.
HalfImage ==
    ~crashed => \A n \in Images, d \in Digests :
        /\ d \in conf[n] \ root[n] =>
              \E c \in Callers : At(c, "mvRoot") /\ call[c].req.img = n /\ call[c].digest = d
        /\ d \in root[n] \ conf[n] =>
              \E c \in Callers : At(c, "rmRoot") /\ call[c].target = n /\ call[c].version = d

-----------------------------------------------------------------------------
(* The inductive invariant: what a call knows of itself and of the disk    *)
(* while no other call is about its languages.                             *)

\* Calls in progress are about different languages.
Disjoint ==
    \A c, o \in Callers :
        c # o /\ ~At(c, "idle") /\ ~At(o, "idle") =>
            Touches(call[c].req) \cap Touches(call[o].req) = {}

\* What is removed, and why.
RemovalOK(k) ==
    /\ k.target \in Images
    /\ \/ k.after = "removed" /\ k.req.op = "remove" /\ Lang[k.target] = k.req.lang
       \/ /\ k.after = "rootFS" /\ k.req.op = "install" /\ k.req.update
          /\ Lang[k.target] = k.req.lang
       \/ /\ k.after = "writeTo" /\ k.req.op = "install" /\ k.req.update
          /\ k.target = k.req.img /\ k.digest \in Digests

CallOK(k) ==
    /\ k.pc = "glob" => k.found = {}
    /\ k.pc = "read" => \A n \in k.found : Lang[n] = k.req.lang
    /\ k.pc \in {"rmRootFS", "rmConfig", "rmRoot"} => RemovalOK(k)
    /\ k.pc \in {"rmConfig", "rmRoot"} => k.version \in Digests
    /\ k.pc \in {"rootFS", "digest", "digestOld", "writeTo", "mvConfig", "mvRoot"} =>
          k.req.op = "install"
    /\ k.pc = "digestOld" => k.req.update
    /\ k.pc \in {"writeTo", "mvConfig", "mvRoot"} => k.digest \in Digests

\* What a call knows of the directories r and the configuration files f: what
\* List found is still there, what is being removed is the only version, and
\* nothing is where an image is about to go.
DiskOK(k, r, f) ==
    /\ k.pc = "read" /\ k.req.op # "list" => \A n \in k.found : r[n] \cap f[n] # {}
    /\ k.pc = "rmRootFS" /\ k.after # "writeTo" => r[k.target] \cap f[k.target] # {}
    /\ k.pc \in {"rmConfig", "rmRoot"} => r[k.target] = {k.version}
    /\ k.pc = "rmConfig" /\ k.after # "writeTo" => k.version \in f[k.target]
    /\ k.pc = "rmRoot" => k.version \notin f[k.target]
    /\ k.pc \in {"digest", "writeTo", "mvConfig", "mvRoot"} => r[k.req.img] = {}
    /\ k.pc = "mvRoot" => k.digest \in f[k.req.img]

\* Every call in progress is as it believes to be, no image has two versions, and
\* every half image has a call that is about to complete or to delete it.
IndInv ==
    /\ TypeOK
    /\ OneVersion
    /\ Disjoint
    /\ \A c \in Callers : CallOK(call[c]) /\ DiskOK(call[c], root, conf)
    /\ HalfImage

-----------------------------------------------------------------------------

\* A crash between the two renames of moveImage left a configuration file whose
\* directory is missing, and List has not yet stumbled on it in any call.
Broken(n, d) ==
    /\ d \in conf[n] \ root[n]
    /\ \A c \in Callers : \/ At(c, "idle") \/ At(c, "glob")
                          \/ At(c, "read") /\ <<n, d>> \in call[c].todo

\* No call repairs that, nor gets past it: every call starts with List, which
\* fails for all images when it fails for one.  The storage stays as it is until
\* somebody deletes the file by hand.
BrokenForGood ==
    [][\A n \in Images, d \in Digests : Broken(n, d) =>
          /\ Broken(n, d)'
          /\ root' = root /\ conf' = conf
          /\ \A c \in Callers : ans'[c] # ans[c] => ans'[c] \notin {"ok", "already"}]_vars

\* An image is installed when both its parts are there.
Shown == {s \in Images \X Digests : s[2] \in root[s[1]] \cap conf[s[1]]}

NoRequest == [op |-> "idle"]
Work == [c \in Callers |-> IF At(c, "idle") THEN NoRequest ELSE call[c].req]
Done == {c \in Callers : At(c, "rmRoot") /\ call[c].req.op = "remove"}

Store == INSTANCE ImageStore WITH Idle <- NoRequest, shown <- Shown, work <- Work, done <- Done

\* Seen from outside, images appear and disappear in one step: the second rename
\* of moveImage installs, the first deletion of Remove uninstalls.  A successful
\* update has installed its image, and nobody else's image is touched.
StorePromise == Store!Spec
=============================================================================
