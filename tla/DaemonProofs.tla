---------------------------- MODULE DaemonProofs ----------------------------
(***************************************************************************)
(* Proofs about Daemon, for any goroutines, pools, versions and names.     *)
(***************************************************************************)
EXTENDS Daemon, TLAPS

USE ManifestAssumption, RoleAssumption, SMTT(30), ZenonT(60)

-----------------------------------------------------------------------------
(* What holds whatever the manifests say.                                  *)

UserPcs  == {"idle", "lookup", "lock", "image", "start", "abort", "execute", "parse"}
AdminPcs == {"idle", "find", "replace", "install", "remove", "delete", "lock", "stop"}
MainPcs  == {"idle", "lock", "stop", "close"}

\* Where d.mu is held for writing.
Locked == {"image", "start", "abort", "stop"}

Roles ==
    /\ \A u \in Users : proc[u].pc \in UserPcs
    /\ \A a \in Admins : proc[a].pc \in AdminPcs
    /\ proc["main"].pc \in MainPcs

LockHeld == \A x \in Procs : proc[x].pc \in Locked <=> writer = x

UserOK(u) ==
    /\ proc[u].pc \in {"lookup", "lock", "image"} => proc[u].name \in Names
    /\ proc[u].pc \in {"start", "abort", "execute", "parse"} => proc[u].dp \in Pools
    /\ proc[u].pc = "start" => status[proc[u].dp] = "starting"
    /\ proc[u].pc = "abort" => status[proc[u].dp] \in {"stopping", "closed"}

AdminOK(a) ==
    /\ proc[a].pc \in {"find", "replace", "install"} => proc[a].ver \in Versions
    /\ proc[a].pc \in {"remove", "delete", "lock", "stop"} => proc[a].name \in Names
    /\ proc[a].pc = "stop" => proc[a].dp \in Pools /\ pool[proc[a].name] = proc[a].dp

PoolOK(p) ==
    /\ status[p] # "unused" => version[p] \in Versions
    /\ status[p] \in {"unused", "closed", "orphan"} => factory[p] \in {"off", "failed"}
    /\ factory[p] \in {"off", "create", "failed"} => container[p] \in {"none", "leaked"}

Registered ==
    \A n \in Names : pool[n] # "none" => status[pool[n]] \in {"open", "stopping", "closed"}

Inv ==
    /\ TypeOK /\ Roles /\ LockHeld /\ Registered
    /\ \A u \in Users : UserOK(u)
    /\ \A a \in Admins : AdminOK(a)
    /\ \A p \in Pools : PoolOK(p)

-----------------------------------------------------------------------------
(* What holds when the manifests agree on the names.                       *)

\* A pool that starts has a request that waits for it under the lock.
Starting ==
    \A p \in Pools : status[p] = "starting" =>
        \E u \in Users : proc[u].pc = "start" /\ proc[u].dp = p

\* A pool is registered under its language, and found by all its aliases.
UnderItsNames ==
    \A n \in Names : pool[n] # "none" =>
        /\ Language[version[pool[n]]] = n
        /\ \A m \in Aliases[version[pool[n]]] : aliases[m] = n

AliasOfVersion ==
    \A m \in Names : aliases[m] # "none" =>
        \E v \in Versions : m \in Aliases[v] /\ aliases[m] = Language[v]

\* What was looked up under the lock stays so while it is held.
NoPoolYet(u) ==
    /\ proc[u].pc = "image" =>
          /\ pool[proc[u].name] = "none"
          /\ \/ aliases[proc[u].name] = "none"
             \/ \E m \in Names : aliases[m] = proc[u].name
    /\ proc[u].pc = "start" => pool[Language[version[proc[u].dp]]] = "none"

Stopping ==
    \A p \in Pools : status[p] = "stopping" =>
        \/ pool[Language[version[p]]] = p
        \/ \E u \in Users : proc[u].pc = "abort" /\ proc[u].dp = p

NameInv ==
    /\ Starting /\ UnderItsNames /\ AliasOfVersion /\ NoLostPool /\ Stopping
    /\ \A u \in Users : NoPoolYet(u)

-----------------------------------------------------------------------------
(* The goroutines' local variables: what each form of update makes of them. *)

LEMMA IdleType == Idle \in ProcType /\ Idle.pc = "idle"
BY DEF Idle, ProcType, Pcs

LEMMA SetPc ==
    ASSUME NEW k \in ProcType, NEW p \in Pcs
    PROVE  LET n == [k EXCEPT !.pc = p]
           IN  n \in ProcType /\ n.pc = p /\ n.name = k.name /\ n.dp = k.dp /\ n.ver = k.ver
BY Zenon DEF ProcType

WithPool(k, l, d, p) == [k EXCEPT !.name = l, !.dp = d, !.pc = p]

LEMMA SetPool ==
    ASSUME NEW k \in ProcType, NEW l \in Names, NEW d \in Pools \cup {"none"}, NEW p \in Pcs
    PROVE  LET n == WithPool(k, l, d, p)
           IN  n \in ProcType /\ n.pc = p /\ n.name = l /\ n.dp = d
BY Zenon DEF ProcType, WithPool

WithDp(k, p, d) == [k EXCEPT !.pc = p, !.dp = d]

LEMMA SetDp ==
    ASSUME NEW k \in ProcType, NEW d \in Pools, NEW p \in Pcs
    PROVE  LET n == WithDp(k, p, d)
           IN  n \in ProcType /\ n.pc = p /\ n.name = k.name /\ n.dp = d
BY Zenon DEF ProcType, WithDp

WithName(k, p, v) == [k EXCEPT !.pc = p, !.name = v]

LEMMA SetName ==
    ASSUME NEW k \in ProcType, NEW v \in Names \cup Versions, NEW p \in Pcs
    PROVE  LET n == WithName(k, p, v)
           IN  n \in ProcType /\ n.pc = p /\ n.name = v /\ n.ver = k.ver
BY Zenon DEF ProcType, WithName

WithVer(k, p, v) == [k EXCEPT !.pc = p, !.ver = v]

LEMMA SetVer ==
    ASSUME NEW k \in ProcType, NEW v \in Versions, NEW p \in Pcs
    PROVE  LET n == WithVer(k, p, v)
           IN  n \in ProcType /\ n.pc = p /\ n.name = k.name /\ n.ver = v
BY Zenon DEF ProcType, WithVer

WithCall(k, p, v, b) == [k EXCEPT !.pc = p, !.ver = v, !.update = b]

LEMMA SetCall ==
    ASSUME NEW k \in ProcType, NEW v \in Versions, NEW b \in BOOLEAN, NEW p \in Pcs
    PROVE  LET n == WithCall(k, p, v, b)
           IN  n \in ProcType /\ n.pc = p /\ n.ver = v
BY Zenon DEF ProcType, WithCall

\* Goroutine x moves, and the others are as they were.
Moves(x, n) ==
    /\ proc' \in [Procs -> ProcType]
    /\ proc'[x] = n
    /\ \A o \in Procs : o # x => proc'[o] = proc[o]

LEMMA MovesEffect ==
    ASSUME proc \in [Procs -> ProcType], NEW x \in Procs, NEW n \in ProcType,
           proc' = [proc EXCEPT ![x] = n]
    PROVE  Moves(x, n)
BY DEF Moves

LEMMA GotoEffect ==
    ASSUME proc \in [Procs -> ProcType], NEW x \in Procs, NEW p \in Pcs, Goto(x, p)
    PROVE  \E n \in ProcType :
              /\ Moves(x, n)
              /\ n.pc = p /\ n.name = proc[x].name /\ n.dp = proc[x].dp /\ n.ver = proc[x].ver
<1> DEFINE n == [proc[x] EXCEPT !.pc = p]
<1>1. proc[x] \in ProcType
  OBVIOUS
<1>2. n \in ProcType /\ n.pc = p /\ n.name = proc[x].name /\ n.dp = proc[x].dp /\ n.ver = proc[x].ver
  BY <1>1, SetPc
<1>3. proc' = [proc EXCEPT ![x] = n]
  BY DEF Goto
<1> HIDE DEF n
<1> QED BY <1>2, <1>3, MovesEffect, Zenon

LEMMA AnswerEffect ==
    ASSUME proc \in [Procs -> ProcType], NEW x \in Procs, Answer(x)
    PROVE  Moves(x, Idle)
BY IdleType, MovesEffect, Zenon DEF Answer

-----------------------------------------------------------------------------
(* Steps of a goroutine that neither has nor takes the lock.               *)

\* What a goroutine must know of its own step.
MoveOK(x, n) ==
    /\ x \in Users => n.pc \in UserPcs /\ UserOK(x)'
    /\ x \in Admins => n.pc \in AdminPcs /\ AdminOK(x)'
    /\ x = "main" => n.pc \in MainPcs

LEMMA Quiet ==
    ASSUME Inv, NEW x \in Procs, NEW n \in ProcType, Moves(x, n), MoveOK(x, n),
           proc[x].pc \notin Locked, n.pc \notin Locked,
           installed' \subseteq Versions,
           UNCHANGED <<instanceVars, maps, writer, status, version, server>>
    PROVE  Inv' /\ (NameInv => NameInv')
<1> USE DEF Inv, instanceVars, maps, server
<1>1. TypeOK'
  BY DEF TypeOK, Moves
<1>2. Roles'
  BY DEF Roles, Moves, MoveOK, Procs
<1>3. LockHeld'
  BY DEF LockHeld, Moves
<1>4. Registered'
  BY DEF Registered
<1>5. ASSUME NEW u \in Users PROVE UserOK(u)'
  BY DEF UserOK, Moves, MoveOK, Procs
<1>6. ASSUME NEW a \in Admins PROVE AdminOK(a)'
  BY DEF AdminOK, Moves, MoveOK, Procs
<1>7. ASSUME NEW p \in Pools PROVE PoolOK(p)'
  BY DEF PoolOK
<1>8. ASSUME NameInv PROVE NameInv'
  <2> USE <1>8 DEF NameInv
  <2>1. Starting'
    BY DEF Starting, Moves, Procs, Locked
  <2>2. UnderItsNames' /\ AliasOfVersion' /\ NoLostPool'
    BY DEF UnderItsNames, AliasOfVersion, NoLostPool
  <2>3. Stopping'
    BY DEF Stopping, Moves, Procs, Locked
  <2>4. ASSUME NEW u \in Users PROVE NoPoolYet(u)'
    BY DEF NoPoolYet, Moves, Procs, Locked
  <2> QED BY <2>1, <2>2, <2>3, <2>4
<1> QED BY <1>1, <1>2, <1>3, <1>4, <1>5, <1>6, <1>7, <1>8

LEMMA QuietAnswer ==
    ASSUME Inv, NEW x \in Procs, Answer(x), proc[x].pc \notin Locked,
           installed' \subseteq Versions,
           UNCHANGED <<instanceVars, maps, writer, status, version, server>>
    PROVE  Inv' /\ (NameInv => NameInv')
<1>1. Moves(x, Idle) /\ Idle \in ProcType /\ Idle.pc = "idle"
  BY AnswerEffect, IdleType DEF Inv, TypeOK
<1>2. MoveOK(x, Idle)
  BY <1>1 DEF MoveOK, Moves, UserOK, AdminOK, UserPcs, AdminPcs, MainPcs
<1>3. Idle.pc \notin Locked
  BY <1>1 DEF Locked
<1> QED BY <1>1, <1>2, <1>3, Quiet

LEMMA ReceiveStep ==
    ASSUME Inv, NEW u \in Users, NEW n \in Names, Receive(u, n)
    PROVE  Inv' /\ (NameInv => NameInv')
<1> DEFINE k == WithName(Idle, "lookup", n)
<1>1. k \in ProcType /\ k.pc = "lookup" /\ k.name = n
  <2>1. Idle \in ProcType /\ "lookup" \in Pcs
    BY IdleType DEF Pcs
  <2> QED BY <2>1, SetName
<1>2. proc' = [proc EXCEPT ![u] = k]
  BY Zenon DEF Receive, WithName
<1> HIDE DEF k
<1>3. Moves(u, k)
  BY <1>1, <1>2, MovesEffect, Zenon DEF Inv, TypeOK, Procs
<1>4. MoveOK(u, k)
  BY <1>1, <1>3 DEF MoveOK, Moves, UserOK, UserPcs, Procs
<1>5. /\ proc[u].pc \notin Locked /\ k.pc \notin Locked /\ installed' \subseteq Versions
      /\ UNCHANGED <<instanceVars, maps, writer, status, version, server>>
  <2>1. proc[u].pc = "idle" /\ UNCHANGED <<instanceVars, installed, maps, writer, status, version, server>>
    BY Zenon DEF Receive, At
  <2> QED BY <1>1, <2>1 DEF Locked, Inv, TypeOK
<1> QED BY <1>1, <1>3, <1>4, <1>5, Quiet DEF Procs

LEMMA LookupStep ==
    ASSUME Inv, NEW u \in Users, Lookup(u)
    PROVE  Inv' /\ (NameInv => NameInv')
<1> DEFINE l == Resolve(proc[u].name)
           p == IF pool[l] = "none" THEN "lock" ELSE "execute"
           k == WithPool(proc[u], l, pool[l], p)
<1>1. /\ proc[u].pc = "lookup" /\ proc' = [proc EXCEPT ![u] = k]
      /\ UNCHANGED <<instanceVars, installed, maps, writer, status, version, server>>
  BY Zenon DEF Lookup, At, WithPool
<1>2. l \in Names
  BY <1>1 DEF Inv, UserOK, TypeOK, Resolve
<1>3. proc[u] \in ProcType /\ pool[l] \in Pools \cup {"none"} /\ p \in Pcs
  BY <1>2 DEF Inv, TypeOK, Procs, Pcs
<1> HIDE DEF l, p
<1>4. k \in ProcType /\ k.pc = p /\ k.name = l /\ k.dp = pool[l]
  BY <1>2, <1>3, SetPool
<1> HIDE DEF k
<1>5. Moves(u, k)
  BY <1>1, <1>4, MovesEffect, Zenon DEF Inv, TypeOK, Procs
<1>6. MoveOK(u, k) /\ k.pc \notin Locked
  BY <1>1, <1>2, <1>3, <1>4, <1>5 DEF MoveOK, Moves, UserOK, UserPcs, Procs, Locked, p
<1> QED BY <1>1, <1>4, <1>5, <1>6, Quiet DEF Procs, Locked, Inv, TypeOK

LEMMA ExecuteStep ==
    ASSUME Inv, NEW u \in Users, Execute(u)
    PROVE  Inv' /\ (NameInv => NameInv')
<1>1. /\ proc[u].pc = "execute"
      /\ UNCHANGED <<instanceVars, installed, maps, writer, status, version, server>>
  BY DEF Execute, At
<1>2. proc[u].pc \notin Locked /\ installed' \subseteq Versions /\ proc \in [Procs -> ProcType]
      /\ u \in Procs
  BY <1>1 DEF Locked, Inv, TypeOK, Procs
<1>3. CASE Goto(u, "parse")
  <2>1. "parse" \in Pcs
    BY DEF Pcs
  <2>2. PICK n \in ProcType : Moves(u, n) /\ n.pc = "parse" /\ n.dp = proc[u].dp
    BY <1>2, <1>3, <2>1, GotoEffect
  <2>3. MoveOK(u, n) /\ n.pc \notin Locked
    BY <1>1, <2>2 DEF MoveOK, Moves, UserOK, UserPcs, Procs, Inv, Locked
  <2> QED BY <1>1, <1>2, <2>2, <2>3, Quiet
<1>4. CASE Answer(u)
  BY <1>1, <1>2, <1>4, QuietAnswer
<1> QED BY <1>3, <1>4 DEF Execute

LEMMA ParsedStep ==
    ASSUME Inv, NEW u \in Users, Parsed(u)
    PROVE  Inv' /\ (NameInv => NameInv')
BY QuietAnswer DEF Parsed, At, Locked, Inv, TypeOK, Procs

LEMMA InstallDriverStep ==
    ASSUME Inv, NEW a \in Admins, NEW v \in Versions, NEW b \in BOOLEAN, InstallDriver(a, v, b)
    PROVE  Inv' /\ (NameInv => NameInv')
<1> DEFINE k == WithCall(Idle, "find", v, b)
<1>1. k \in ProcType /\ k.pc = "find" /\ k.ver = v
  <2>1. Idle \in ProcType /\ "find" \in Pcs
    BY IdleType DEF Pcs
  <2> QED BY <2>1, SetCall
<1>2. /\ proc[a].pc = "idle" /\ proc' = [proc EXCEPT ![a] = k]
      /\ UNCHANGED <<instanceVars, installed, maps, writer, status, version, server>>
  BY Zenon DEF InstallDriver, At, WithCall
<1> HIDE DEF k
<1>3. Moves(a, k)
  BY <1>1, <1>2, MovesEffect, Zenon DEF Inv, TypeOK, Procs
<1>4. MoveOK(a, k) /\ k.pc \notin Locked
  BY <1>1, <1>3 DEF MoveOK, Moves, AdminOK, AdminPcs, Procs, Locked
<1> QED BY <1>1, <1>2, <1>3, <1>4, Quiet DEF Procs, Locked, Inv, TypeOK

LEMMA InstallFindStep ==
    ASSUME Inv, NEW a \in Admins, InstallFind(a)
    PROVE  Inv' /\ (NameInv => NameInv')
<1> DEFINE old == WithLang(Language[proc[a].ver])
<1>1. /\ proc[a].pc = "find"
      /\ UNCHANGED <<instanceVars, installed, maps, writer, status, version, server>>
  BY Zenon DEF InstallFind, At
<1>2. /\ proc[a].pc \notin Locked /\ installed' \subseteq Versions /\ proc \in [Procs -> ProcType]
      /\ a \in Procs /\ proc[a].ver \in Versions
  BY <1>1 DEF Locked, Inv, TypeOK, Procs, AdminOK
<1>3. CASE Answer(a)
  BY <1>1, <1>2, <1>3, QuietAnswer
<1>4. CASE Goto(a, "install")
  <2>1. "install" \in Pcs
    BY DEF Pcs
  <2>2. PICK n \in ProcType : Moves(a, n) /\ n.pc = "install" /\ n.ver = proc[a].ver
    BY <1>2, <1>4, <2>1, GotoEffect
  <2>3. MoveOK(a, n) /\ n.pc \notin Locked
    BY <1>2, <2>2 DEF MoveOK, Moves, AdminOK, AdminPcs, Procs, Locked
  <2> QED BY <1>1, <1>2, <2>2, <2>3, Quiet
<1>5. ASSUME NEW v \in old, proc' = [proc EXCEPT ![a] = [proc[a] EXCEPT !.pc = "replace", !.name = v]]
      PROVE  Inv' /\ (NameInv => NameInv')
  <2> DEFINE k == WithName(proc[a], "replace", v)
  <2>1. proc[a] \in ProcType /\ "replace" \in Pcs /\ v \in Names \cup Versions
    BY <1>2 DEF Pcs, WithLang, Inv, TypeOK
  <2>2. k \in ProcType /\ k.pc = "replace" /\ k.ver = proc[a].ver
    BY <2>1, SetName
  <2>3. proc' = [proc EXCEPT ![a] = k]
    BY <1>5, Zenon DEF WithName
  <2> HIDE DEF k
  <2>4. Moves(a, k)
    BY <1>2, <2>2, <2>3, MovesEffect, Zenon
  <2>5. MoveOK(a, k) /\ k.pc \notin Locked
    BY <1>2, <2>2, <2>4 DEF MoveOK, Moves, AdminOK, AdminPcs, Procs, Locked
  <2> QED BY <1>1, <1>2, <2>2, <2>4, <2>5, Quiet
<1> QED BY <1>3, <1>4, <1>5, Zenon DEF InstallFind

LEMMA InstallReplaceStep ==
    ASSUME Inv, NEW a \in Admins, InstallReplace(a)
    PROVE  Inv' /\ (NameInv => NameInv')
<1>1. /\ proc[a].pc = "replace"
      /\ UNCHANGED <<instanceVars, maps, writer, status, version, server>>
  BY DEF InstallReplace, At
<1>2. /\ proc[a].pc \notin Locked /\ installed' \subseteq Versions /\ proc \in [Procs -> ProcType]
      /\ a \in Procs /\ proc[a].ver \in Versions
  <2>1. installed' \subseteq Versions
    BY DEF InstallReplace, Inv, TypeOK
  <2> QED BY <1>1, <2>1 DEF Locked, Inv, TypeOK, Procs, AdminOK
<1>3. CASE Answer(a)
  BY <1>1, <1>2, <1>3, QuietAnswer
<1>4. CASE Goto(a, "install")
  <2>1. "install" \in Pcs
    BY DEF Pcs
  <2>2. PICK n \in ProcType : Moves(a, n) /\ n.pc = "install" /\ n.ver = proc[a].ver
    BY <1>2, <1>4, <2>1, GotoEffect
  <2>3. MoveOK(a, n) /\ n.pc \notin Locked
    BY <1>2, <2>2 DEF MoveOK, Moves, AdminOK, AdminPcs, Procs, Locked
  <2> QED BY <1>1, <1>2, <2>2, <2>3, Quiet
<1> QED BY <1>3, <1>4 DEF InstallReplace

LEMMA InstallImageStep ==
    ASSUME Inv, NEW a \in Admins, InstallImage(a)
    PROVE  Inv' /\ (NameInv => NameInv')
<1>1. proc[a].pc = "install" /\ proc[a].ver \in Versions
  BY DEF InstallImage, At, Inv, AdminOK
<1>2. installed' \subseteq Versions
  BY <1>1 DEF InstallImage, Inv, TypeOK
<1> QED BY <1>1, <1>2, QuietAnswer DEF InstallImage, Locked, Procs

LEMMA RemoveDriverStep ==
    ASSUME Inv, NEW a \in Admins, NEW n \in Names, RemoveDriver(a, n)
    PROVE  Inv' /\ (NameInv => NameInv')
<1> DEFINE k == WithName(Idle, "remove", n)
<1>1. k \in ProcType /\ k.pc = "remove" /\ k.name = n
  <2>1. Idle \in ProcType /\ "remove" \in Pcs
    BY IdleType DEF Pcs
  <2> QED BY <2>1, SetName
<1>2. /\ proc[a].pc = "idle" /\ proc' = [proc EXCEPT ![a] = k]
      /\ UNCHANGED <<instanceVars, installed, maps, writer, status, version, server>>
  BY Zenon DEF RemoveDriver, At, WithName
<1> HIDE DEF k
<1>3. Moves(a, k)
  BY <1>1, <1>2, MovesEffect, Zenon DEF Inv, TypeOK, Procs
<1>4. MoveOK(a, k) /\ k.pc \notin Locked
  BY <1>1, <1>3 DEF MoveOK, Moves, AdminOK, AdminPcs, Procs, Locked
<1> QED BY <1>1, <1>2, <1>3, <1>4, Quiet DEF Procs, Locked, Inv, TypeOK

LEMMA RemoveFindStep ==
    ASSUME Inv, NEW a \in Admins, RemoveFind(a)
    PROVE  Inv' /\ (NameInv => NameInv')
<1>1. /\ proc[a].pc = "remove"
      /\ UNCHANGED <<instanceVars, installed, maps, writer, status, version, server>>
  BY Zenon DEF RemoveFind, At
<1>2. /\ proc[a].pc \notin Locked /\ installed' \subseteq Versions /\ proc \in [Procs -> ProcType]
      /\ a \in Procs /\ proc[a].name \in Names
  BY <1>1 DEF Locked, Inv, TypeOK, Procs, AdminOK
<1>3. CASE Answer(a)
  BY <1>1, <1>2, <1>3, QuietAnswer
<1>4. ASSUME NEW v \in WithLang(proc[a].name),
             proc' = [proc EXCEPT ![a] = [proc[a] EXCEPT !.pc = "delete", !.ver = v]]
      PROVE  Inv' /\ (NameInv => NameInv')
  <2> DEFINE k == WithVer(proc[a], "delete", v)
  <2>1. proc[a] \in ProcType /\ "delete" \in Pcs /\ v \in Versions
    BY <1>2 DEF Pcs, WithLang, Inv, TypeOK
  <2>2. k \in ProcType /\ k.pc = "delete" /\ k.name = proc[a].name
    BY <2>1, SetVer
  <2>3. proc' = [proc EXCEPT ![a] = k]
    BY <1>4, Zenon DEF WithVer
  <2> HIDE DEF k
  <2>4. Moves(a, k)
    BY <1>2, <2>2, <2>3, MovesEffect, Zenon
  <2>5. MoveOK(a, k) /\ k.pc \notin Locked
    BY <1>2, <2>2, <2>4 DEF MoveOK, Moves, AdminOK, AdminPcs, Procs, Locked
  <2> QED BY <1>1, <1>2, <2>2, <2>4, <2>5, Quiet
<1> QED BY <1>3, <1>4, Zenon DEF RemoveFind

LEMMA RemoveImageStep ==
    ASSUME Inv, NEW a \in Admins, RemoveImage(a)
    PROVE  Inv' /\ (NameInv => NameInv')
<1>1. /\ proc[a].pc = "delete"
      /\ UNCHANGED <<instanceVars, maps, writer, status, version, server>>
  BY DEF RemoveImage, At
<1>2. /\ proc[a].pc \notin Locked /\ installed' \subseteq Versions /\ proc \in [Procs -> ProcType]
      /\ a \in Procs /\ proc[a].name \in Names
  <2>1. installed' \subseteq Versions
    BY DEF RemoveImage, Inv, TypeOK
  <2> QED BY <1>1, <2>1 DEF Locked, Inv, TypeOK, Procs, AdminOK
<1>3. CASE Answer(a)
  BY <1>1, <1>2, <1>3, QuietAnswer
<1>4. CASE Goto(a, "lock")
  <2>1. "lock" \in Pcs
    BY DEF Pcs
  <2>2. PICK n \in ProcType : Moves(a, n) /\ n.pc = "lock" /\ n.name = proc[a].name
    BY <1>2, <1>4, <2>1, GotoEffect
  <2>3. MoveOK(a, n) /\ n.pc \notin Locked
    BY <1>2, <2>2 DEF MoveOK, Moves, AdminOK, AdminPcs, Procs, Locked
  <2> QED BY <1>1, <1>2, <2>2, <2>3, Quiet
<1> QED BY <1>3, <1>4 DEF RemoveImage

LEMMA SignalStep ==
    ASSUME Inv, Signal
    PROVE  Inv' /\ (NameInv => NameInv')
<1>1. "lock" \in Pcs /\ "main" \in Procs /\ proc \in [Procs -> ProcType]
  BY DEF Pcs, Procs, Inv, TypeOK
<1>2. PICK n \in ProcType : Moves("main", n) /\ n.pc = "lock"
  BY <1>1, GotoEffect DEF Signal
<1>3. MoveOK("main", n) /\ n.pc \notin Locked
  BY <1>2 DEF MoveOK, MainPcs, Locked
<1> QED BY <1>1, <1>2, <1>3, Quiet DEF Signal, At, Locked, Inv, TypeOK

-----------------------------------------------------------------------------
(* Steps that take the lock.  Nobody has it before.                        *)

\* Pools that serve may be told to stop.
Stops ==
    /\ status' \in [Pools -> {"unused", "starting", "open", "stopping", "closed", "orphan"}]
    /\ \A p \in Pools : status'[p] # status[p] => status[p] = "open" /\ status'[p] = "stopping"

LEMMA Take ==
    ASSUME Inv, NEW x \in Procs, NEW n \in ProcType, Moves(x, n), MoveOK(x, n),
           writer = "none", writer' = x, n.pc \in Locked, Stops,
           x \in Users /\ NameInv => n.pc = "image" /\ NoPoolYet(x)',
           UNCHANGED <<instanceVars, installed, maps, version, server>>
    PROVE  Inv' /\ (NameInv => NameInv')
<1> USE DEF Inv, instanceVars, maps, server
<1>1. TypeOK'
  BY DEF TypeOK, Moves, Stops
<1>2. Roles'
  BY DEF Roles, Moves, MoveOK, Procs
<1>3. \A o \in Procs : proc[o].pc \notin Locked
  BY DEF LockHeld, Procs
<1>4. LockHeld'
  BY <1>3 DEF Moves, LockHeld
<1>5. Registered'
  BY DEF Registered, Stops, TypeOK
<1>6. ASSUME NEW u \in Users PROVE UserOK(u)'
  BY <1>3 DEF UserOK, Moves, MoveOK, Procs, Locked
<1>7. ASSUME NEW a \in Admins PROVE AdminOK(a)'
  BY DEF AdminOK, Moves, MoveOK, Procs
<1>8. ASSUME NEW p \in Pools PROVE PoolOK(p)'
  BY DEF PoolOK, Stops
<1>9. ASSUME NameInv PROVE NameInv'
  <2> USE <1>9 DEF NameInv
  <2>1. Starting'
    BY <1>3 DEF Starting, Stops, Procs, Locked
  <2>2. UnderItsNames' /\ AliasOfVersion'
    BY DEF UnderItsNames, AliasOfVersion
  <2>3. NoLostPool'
    BY DEF NoLostPool, Stops
  <2>4. Stopping'
    BY <1>3 DEF Stopping, NoLostPool, Stops, Procs, Locked
  <2>5. ASSUME NEW u \in Users PROVE NoPoolYet(u)'
    BY <1>3 DEF NoPoolYet, Moves, Procs, Locked
  <2> QED BY <2>1, <2>2, <2>3, <2>4, <2>5
<1> QED BY <1>1, <1>2, <1>4, <1>5, <1>6, <1>7, <1>8, <1>9

LEMMA LookupLockedStep ==
    ASSUME Inv, NEW u \in Users, LookupLocked(u)
    PROVE  Inv' /\ (NameInv => NameInv')
<1> DEFINE l == Resolve(proc[u].name)
           p == IF pool[l] = "none" THEN "image" ELSE "execute"
           k == WithPool(proc[u], l, pool[l], p)
<1>1. /\ proc[u].pc = "lock" /\ proc' = [proc EXCEPT ![u] = k]
      /\ writer = "none" /\ writer' = IF pool[l] = "none" THEN u ELSE "none"
      /\ UNCHANGED <<instanceVars, installed, maps, status, version, server>>
  BY Zenon DEF LookupLocked, At, WithPool
<1>2. l \in Names /\ proc[u].name \in Names
  BY <1>1 DEF Inv, UserOK, TypeOK, Resolve
<1>3. proc[u] \in ProcType /\ pool[l] \in Pools \cup {"none"} /\ p \in Pcs
  BY <1>2 DEF Inv, TypeOK, Procs, Pcs
<1>4. aliases[l] = "none" \/ \E m \in Names : aliases[m] = l
  BY <1>2 DEF Resolve
<1> HIDE DEF l, p
<1>5. k \in ProcType /\ k.pc = p /\ k.name = l /\ k.dp = pool[l]
  BY <1>2, <1>3, SetPool
<1> HIDE DEF k
<1>6. Moves(u, k)
  BY <1>1, <1>5, MovesEffect, Zenon DEF Inv, TypeOK, Procs
<1>7. MoveOK(u, k)
  BY <1>2, <1>3, <1>5, <1>6 DEF MoveOK, Moves, UserOK, UserPcs, Procs, p
<1>8. CASE pool[l] = "none"
  <2>1. NoPoolYet(u)' /\ k.pc = "image"
    BY <1>1, <1>4, <1>5, <1>6, <1>8 DEF NoPoolYet, Moves, p, maps
  <2>2. Stops
    BY <1>1 DEF Stops, Inv, TypeOK
  <2> QED BY <1>1, <1>5, <1>6, <1>7, <1>8, <2>1, <2>2, Take DEF Procs, Locked
<1>9. CASE pool[l] # "none"
  BY <1>1, <1>5, <1>6, <1>7, <1>9, Quiet DEF Procs, Locked, Inv, TypeOK, p
<1> QED BY <1>8, <1>9

LEMMA RemovePoolStep ==
    ASSUME Inv, NEW a \in Admins, RemovePool(a)
    PROVE  Inv' /\ (NameInv => NameInv')
<1> DEFINE p == pool[proc[a].name]
           k == WithDp(proc[a], "stop", p)
<1>1. /\ proc[a].pc = "lock" /\ writer = "none"
      /\ UNCHANGED <<instanceVars, installed, maps, version, server>>
  BY Zenon DEF RemovePool, At
<1>2. /\ a \in Procs /\ proc[a] \in ProcType /\ proc \in [Procs -> ProcType]
      /\ proc[a].name \in Names /\ p \in Pools \cup {"none"} /\ a \notin Users
  BY <1>1 DEF Inv, AdminOK, TypeOK, Procs
<1>3. CASE p = "none"
  <2>1. Answer(a) /\ UNCHANGED <<writer, status>>
    BY <1>3, Zenon DEF RemovePool
  <2> QED BY <1>1, <1>2, <2>1, QuietAnswer DEF Locked, Inv, TypeOK
<1>4. CASE p # "none"
  <2>1. /\ writer' = a /\ proc' = [proc EXCEPT ![a] = k]
        /\ status' = [status EXCEPT ![p] = IF @ = "open" THEN "stopping" ELSE @]
    BY <1>4, Zenon DEF RemovePool, WithDp
  <2>2. p \in Pools /\ "stop" \in Pcs
    BY <1>2, <1>4 DEF Pcs
  <2> HIDE DEF p
  <2>3. k \in ProcType /\ k.pc = "stop" /\ k.name = proc[a].name /\ k.dp = p
    BY <1>2, <2>2, SetDp
  <2> HIDE DEF k
  <2>4. Moves(a, k)
    BY <1>2, <2>1, <2>3, MovesEffect, Zenon
  <2>5. MoveOK(a, k)
    BY <1>1, <1>2, <2>2, <2>3, <2>4 DEF MoveOK, Moves, AdminOK, AdminPcs, Procs, p, maps
  <2>6. Stops
    BY <2>1, <2>2 DEF Stops, Inv, TypeOK
  <2> QED BY <1>1, <1>2, <2>1, <2>3, <2>4, <2>5, <2>6, Take DEF Locked
<1> QED BY <1>3, <1>4

LEMMA StopLockStep ==
    ASSUME Inv, StopLock
    PROVE  Inv' /\ (NameInv => NameInv')
<1>1. "stop" \in Pcs /\ "main" \in Procs /\ proc \in [Procs -> ProcType] /\ "main" \notin Users
  BY DEF Pcs, Procs, Inv, TypeOK
<1>2. PICK n \in ProcType : Moves("main", n) /\ n.pc = "stop"
  BY <1>1, GotoEffect DEF StopLock
<1>3. MoveOK("main", n)
  BY <1>2 DEF MoveOK, MainPcs
<1>4. Stops
  BY DEF StopLock, Stops, Inv, TypeOK
<1> QED BY <1>1, <1>2, <1>3, <1>4, Take DEF StopLock, Locked

-----------------------------------------------------------------------------
(* Steps of the goroutine that holds the lock.                             *)

LEMMA OneHolder ==
    ASSUME Inv, NEW x \in Procs, proc[x].pc \in Locked
    PROVE  writer = x /\ \A o \in Procs : o # x => proc[o].pc \notin Locked
BY DEF Inv, LockHeld

\* It gives the lock back, with nothing else done.
LEMMA Release ==
    ASSUME Inv, NEW x \in Procs, NEW n \in ProcType, Moves(x, n), MoveOK(x, n),
           proc[x].pc \in Locked, n.pc \notin Locked, writer' = "none",
           proc[x].pc # "start",
           proc[x].pc = "abort" => status[proc[x].dp] = "closed",
           UNCHANGED <<instanceVars, installed, maps, status, version, server>>
    PROVE  Inv' /\ (NameInv => NameInv')
<1> USE DEF Inv, instanceVars, maps, server
<1>1. TypeOK'
  BY DEF TypeOK, Moves
<1>2. Roles'
  BY DEF Roles, Moves, MoveOK, Procs
<1>3. \A o \in Procs : o # x => proc[o].pc \notin Locked
  BY OneHolder
<1>4. LockHeld'
  BY <1>3 DEF Moves, LockHeld, Procs
<1>5. Registered'
  BY DEF Registered
<1>6. ASSUME NEW u \in Users PROVE UserOK(u)'
  BY DEF UserOK, Moves, MoveOK, Procs
<1>7. ASSUME NEW a \in Admins PROVE AdminOK(a)'
  BY DEF AdminOK, Moves, MoveOK, Procs
<1>8. ASSUME NEW p \in Pools PROVE PoolOK(p)'
  BY DEF PoolOK
<1>9. ASSUME NameInv PROVE NameInv'
  <2> USE <1>9 DEF NameInv
  <2>1. Starting'
    BY <1>3 DEF Starting, Procs, Locked
  <2>2. UnderItsNames' /\ AliasOfVersion' /\ NoLostPool'
    BY DEF UnderItsNames, AliasOfVersion, NoLostPool
  <2>3. Stopping'
    BY <1>3 DEF Stopping, Procs, Locked
  <2>4. ASSUME NEW u \in Users PROVE NoPoolYet(u)'
    BY <1>3 DEF NoPoolYet, Moves, Procs, Locked
  <2> QED BY <2>1, <2>2, <2>3, <2>4
<1> QED BY <1>1, <1>2, <1>4, <1>5, <1>6, <1>7, <1>8, <1>9

LEMMA ReleaseAnswer ==
    ASSUME Inv, NEW x \in Procs, Answer(x),
           proc[x].pc \in Locked, writer' = "none", proc[x].pc # "start",
           proc[x].pc = "abort" => status[proc[x].dp] = "closed",
           UNCHANGED <<instanceVars, installed, maps, status, version, server>>
    PROVE  Inv' /\ (NameInv => NameInv')
<1>1. Moves(x, Idle) /\ Idle \in ProcType /\ Idle.pc = "idle"
  BY AnswerEffect, IdleType DEF Inv, TypeOK
<1>2. MoveOK(x, Idle)
  BY <1>1 DEF MoveOK, Moves, UserOK, AdminOK, UserPcs, AdminPcs, MainPcs
<1>3. Idle.pc \notin Locked
  BY <1>1 DEF Locked
<1> QED BY <1>1, <1>2, <1>3, Release

LEMMA AbortStep ==
    ASSUME Inv, NEW u \in Users, Abort(u)
    PROVE  Inv' /\ (NameInv => NameInv')
BY ReleaseAnswer DEF Abort, At, Locked, Procs

LEMMA StoppedStep ==
    ASSUME Inv, Stopped
    PROVE  Inv' /\ (NameInv => NameInv')
<1>1. "close" \in Pcs /\ "main" \in Procs /\ proc \in [Procs -> ProcType]
  BY DEF Pcs, Procs, Inv, TypeOK
<1>2. PICK n \in ProcType : Moves("main", n) /\ n.pc = "close"
  BY <1>1, GotoEffect DEF Stopped
<1>3. MoveOK("main", n)
  BY <1>2 DEF MoveOK, MainPcs
<1> QED BY <1>1, <1>2, <1>3, Release DEF Stopped, At, Locked

LEMMA UnregisterStep ==
    ASSUME Inv, NEW a \in Admins, Unregister(a)
    PROVE  Inv' /\ (NameInv => NameInv')
<1> USE DEF Inv, instanceVars, server
<1>1. /\ proc[a].pc = "stop" /\ status[proc[a].dp] = "closed"
      /\ proc[a].name \in Names /\ pool[proc[a].name] = proc[a].dp /\ proc[a].dp \in Pools
      /\ pool' = [pool EXCEPT ![proc[a].name] = "none"]
      /\ writer' = "none" /\ a \in Procs /\ Answer(a)
      /\ UNCHANGED <<instanceVars, installed, aliases, status, version, server>>
  BY DEF Unregister, At, AdminOK, Procs
<1>2. Moves(a, Idle) /\ Idle \in ProcType /\ Idle.pc = "idle"
  BY <1>1, AnswerEffect, IdleType DEF TypeOK
<1>3. \A o \in Procs : o # a => proc[o].pc \notin Locked
  BY <1>1, OneHolder DEF Locked
<1> HIDE DEF Inv
<1>4. TypeOK'
  BY <1>1, <1>2 DEF Inv, TypeOK, Moves, Procs
<1>5. Roles'
  BY <1>2 DEF Inv, Roles, Moves, Procs, UserPcs, AdminPcs, MainPcs
<1>6. LockHeld'
  BY <1>1, <1>2, <1>3 DEF Moves, LockHeld, Procs, Locked
<1>7. Registered'
  BY <1>1 DEF Inv, TypeOK, Registered
<1>8. ASSUME NEW u \in Users PROVE UserOK(u)'
  BY <1>1, <1>2 DEF Inv, UserOK, Moves, Procs
<1>9. ASSUME NEW o \in Admins PROVE AdminOK(o)'
  BY <1>1, <1>2, <1>3 DEF Inv, AdminOK, Moves, Procs, Locked
<1>10. ASSUME NEW p \in Pools PROVE PoolOK(p)'
  BY <1>1 DEF Inv, PoolOK
<1>11. ASSUME NameInv PROVE NameInv'
  <2> USE <1>11 DEF NameInv
  <2>1. Starting'
    BY <1>1, <1>3, Zenon DEF Starting, Procs, Locked
  <2>2. UnderItsNames' /\ AliasOfVersion'
    BY <1>1 DEF UnderItsNames, AliasOfVersion, Inv, TypeOK
  <2>3. NoLostPool'
    BY <1>1 DEF NoLostPool, Inv, TypeOK, PoolOK
  <2>4. Stopping'
    BY <1>1, <1>3 DEF Stopping, Procs, Locked, Inv, TypeOK, PoolOK
  <2>5. ASSUME NEW u \in Users PROVE NoPoolYet(u)'
    BY <1>2, <1>3 DEF NoPoolYet, Moves, Procs, Locked
  <2> QED BY <2>1, <2>2, <2>3, <2>4, <2>5
<1> QED BY <1>4, <1>5, <1>6, <1>7, <1>8, <1>9, <1>10, <1>11 DEF Inv

\* The image that was found is of a language that has no pool: this is where the
\* names must agree.
LEMMA NoPoolOfImage ==
    ASSUME NamesAgree, Inv, NameInv, NEW u \in Users, proc[u].pc = "image",
           NEW v \in WithLang(proc[u].name)
    PROVE  pool[Language[v]] = "none"
<1> DEFINE n == proc[u].name
           q == pool[Language[v]]
<1>1. /\ v \in Versions /\ n \in Names /\ n \in NamesOf(v)
      /\ Language[v] \in Names /\ Language[v] \in NamesOf(v)
  BY DEF WithLang, NamesOf, Inv, TypeOK, UserOK
<1>2. pool[n] = "none" /\ (aliases[n] = "none" \/ \E m \in Names : aliases[m] = n)
  BY DEF NameInv, NoPoolYet
<1>3. SUFFICES ASSUME q # "none" PROVE FALSE
  OBVIOUS
<1>4. n # Language[v]
  BY <1>2, <1>3
<1>5. q \in Pools /\ version[q] \in Versions
  BY <1>1, <1>3 DEF Inv, TypeOK, Registered, PoolOK
<1>6. /\ Language[version[q]] = Language[v]
      /\ \A m \in Aliases[version[q]] : aliases[m] = Language[v]
  BY <1>1, <1>3 DEF NameInv, UnderItsNames
<1>7. Aliases[version[q]] = Aliases[v]
  BY <1>1, <1>5, <1>6 DEF NamesAgree, NamesOf
<1>8. aliases[n] # "none"
  BY <1>1, <1>4, <1>6, <1>7 DEF NamesOf
<1>9. PICK m \in Names : aliases[m] = n
  BY <1>2, <1>8
<1>10. PICK w \in Versions : n = Language[w]
  BY <1>1, <1>9 DEF NameInv, AliasOfVersion
<1> QED BY <1>1, <1>4, <1>10 DEF NamesAgree, NamesOf

LEMMA NewDriverPoolStep ==
    ASSUME Inv, NEW u \in Users, NewDriverPool(u)
    PROVE  Inv' /\ (NamesAgree /\ NameInv => NameInv')
<1>1. /\ proc[u].pc = "image" /\ u \in Procs /\ proc \in [Procs -> ProcType]
      /\ UNCHANGED <<container, installed, maps, server>>
  <2>1. proc[u].pc = "image" /\ UNCHANGED <<container, installed, maps, server>>
    BY Zenon DEF NewDriverPool, At
  <2> QED BY <2>1 DEF Procs, Inv, TypeOK
<1>2. writer = u /\ \A o \in Procs : o # u => proc[o].pc \notin Locked
  BY <1>1, OneHolder DEF Locked
<1>3. CASE Answer(u) /\ writer' = "none" /\ UNCHANGED <<factory, status, version>>
  BY <1>1, <1>3, ReleaseAnswer DEF Locked, instanceVars
<1>4. ASSUME NEW v \in WithLang(proc[u].name), NEW p \in Pools, status[p] = "unused",
             status' = [status EXCEPT ![p] = "starting"],
             version' = [version EXCEPT ![p] = v],
             Enter(p, "create"), UNCHANGED writer,
             proc' = [proc EXCEPT ![u] = [proc[u] EXCEPT !.pc = "start", !.dp = p]]
      PROVE  Inv' /\ (NamesAgree /\ NameInv => NameInv')
  <2> DEFINE k == WithDp(proc[u], "start", p)
  <2>1. proc[u] \in ProcType /\ "start" \in Pcs /\ v \in Versions
    BY <1>1 DEF Pcs, WithLang, Inv, TypeOK
  <2>2. k \in ProcType /\ k.pc = "start" /\ k.dp = p
    BY <2>1, SetDp
  <2>3. proc' = [proc EXCEPT ![u] = k]
    BY <1>4, Zenon DEF WithDp
  <2> HIDE DEF k
  <2>4. Moves(u, k)
    BY <1>1, <2>2, <2>3, MovesEffect, Zenon
  <2>a. /\ status' = [status EXCEPT ![p] = "starting"] /\ status[p] = "unused"
        /\ version' = [version EXCEPT ![p] = v]
        /\ factory' = [factory EXCEPT ![p] = "create"] /\ writer' = writer
    BY <1>4, Zenon DEF Enter
  <2>b. TypeOK'
    BY <1>1, <2>a, <2>1, <2>4 DEF Inv, TypeOK, Moves, maps, server
  <2>5. Roles'
    BY <2>2, <2>4 DEF Inv, Roles, Moves, Procs, UserPcs
  <2>6. LockHeld'
    BY <1>2, <2>2, <2>4, <2>a DEF Moves, LockHeld, Procs, Locked
  <2>7. Registered'
    BY <1>1, <2>a DEF Inv, TypeOK, Registered, maps
  <2>8. ASSUME NEW o \in Users PROVE UserOK(o)'
    BY <1>2, <2>2, <2>4, <2>a DEF Inv, UserOK, Moves, Procs, Locked, TypeOK
  <2>9. ASSUME NEW o \in Admins PROVE AdminOK(o)'
    BY <1>1, <2>4, Zenon DEF Inv, AdminOK, Moves, Procs, maps
  <2>10. ASSUME NEW o \in Pools PROVE PoolOK(o)'
    BY <1>1, <2>a, <2>1 DEF Inv, PoolOK, TypeOK
  <2>11. ASSUME NamesAgree, NameInv PROVE NameInv'
    <3> USE DEF NameInv
    <3>1. Starting'
      <4> SUFFICES ASSUME NEW q \in Pools, status'[q] = "starting"
                   PROVE  \E o \in Users : proc'[o].pc = "start" /\ proc'[o].dp = q
        BY DEF Starting
      <4>1. q = p
        BY <1>1, <1>2, <2>a, <2>11 DEF Starting, Procs, Locked, Inv, TypeOK
      <4> QED BY <4>1, <2>2, <2>4 DEF Moves
    <3>2. UnderItsNames'
      BY <1>1, <2>a, <2>11 DEF UnderItsNames, Inv, TypeOK, Registered, maps
    <3>3. AliasOfVersion'
      BY <1>1, <2>11 DEF AliasOfVersion, maps
    <3>4. NoLostPool'
      BY <1>1, <2>a, <2>11 DEF NoLostPool, Inv, TypeOK, maps
    <3>5. Stopping'
      BY <1>1, <1>2, <2>a, <2>11 DEF Stopping, Inv, TypeOK, maps, Procs, Locked
    <3>6. ASSUME NEW o \in Users PROVE NoPoolYet(o)'
      <4>1. pool[Language[v]] = "none"
        BY <1>1, <2>11, NoPoolOfImage
      <4> QED BY <1>1, <1>2, <2>a, <2>2, <2>4, <4>1 DEF NoPoolYet, Moves, Procs, Locked, maps, Inv, TypeOK
    <3> QED BY <3>1, <3>2, <3>3, <3>4, <3>5, <3>6
  <2> QED BY <2>b, <2>5, <2>6, <2>7, <2>8, <2>9, <2>10, <2>11 DEF Inv
<1> QED BY <1>3, <1>4, Zenon DEF NewDriverPool

LEMMA RegisterStep ==
    ASSUME Inv, NEW u \in Users, Register(u)
    PROVE  Inv' /\ (NamesAgree /\ NameInv => NameInv')
<1> DEFINE p == proc[u].dp
           v == version[p]
<1>1. /\ proc[u].pc = "start" /\ p \in Pools /\ status[p] = "starting" /\ v \in Versions
      /\ u \in Procs /\ proc \in [Procs -> ProcType]
  BY DEF Register, At, Inv, UserOK, PoolOK, Procs, TypeOK
<1>2. /\ status' = [status EXCEPT ![p] = "open"]
      /\ pool' = [pool EXCEPT ![Language[v]] = p]
      /\ aliases' = [n \in Names |-> IF n \in Aliases[v] THEN Language[v] ELSE aliases[n]]
      /\ writer' = "none" /\ Goto(u, "execute") /\ factory[p] = "up"
      /\ UNCHANGED <<instanceVars, installed, version, server>>
  BY DEF Register
<1>3. "execute" \in Pcs /\ Language[v] \in Names
  BY <1>1 DEF Pcs
<1>4. PICK k \in ProcType : Moves(u, k) /\ k.pc = "execute" /\ k.dp = p
  BY <1>1, <1>2, <1>3, GotoEffect
<1>5. \A o \in Procs : o # u => proc[o].pc \notin Locked
  BY <1>1, OneHolder DEF Locked
<1> HIDE DEF p, v
<1>6. TypeOK'
  BY <1>1, <1>2, <1>3, <1>4 DEF Inv, TypeOK, Moves, instanceVars, server
<1>7. Roles'
  BY <1>4 DEF Inv, Roles, Moves, Procs, UserPcs
<1>8. LockHeld'
  BY <1>2, <1>4, <1>5, Zenon DEF Moves, LockHeld, Procs, Locked
<1>9. Registered'
  BY <1>1, <1>2, <1>3 DEF Inv, TypeOK, Registered
<1>10. ASSUME NEW o \in Users PROVE UserOK(o)'
  BY <1>1, <1>2, <1>4, <1>5 DEF Inv, UserOK, Moves, Procs, Locked, TypeOK
<1>11. ASSUME NEW o \in Admins PROVE AdminOK(o)'
  BY <1>4, <1>5, Zenon DEF Inv, AdminOK, Moves, Procs, Locked
<1>12. ASSUME NEW q \in Pools PROVE PoolOK(q)'
  BY <1>1, <1>2 DEF Inv, PoolOK, TypeOK, instanceVars
<1>13. ASSUME NamesAgree, NameInv PROVE NameInv'
  <2> USE DEF NameInv
  <2>1. pool[Language[v]] = "none"
    BY <1>1, <1>13 DEF NoPoolYet, p, v
  <2>2. Starting'
    BY <1>1, <1>2, <1>5, <1>13 DEF Starting, Procs, Locked, Inv, TypeOK, p
  <2>3. UnderItsNames'
    <3> SUFFICES ASSUME NEW n \in Names, pool'[n] # "none"
                 PROVE  /\ Language[version[pool'[n]]] = n
                        /\ \A m \in Aliases[version[pool'[n]]] : aliases'[m] = n
      BY <1>2 DEF UnderItsNames
    <3>1. CASE n = Language[v]
      BY <1>1, <1>2, <1>3, <3>1 DEF Inv, TypeOK, v
    <3>2. CASE n # Language[v]
      <4> DEFINE q == pool[n]
      <4>1. pool'[n] = q /\ q \in Pools /\ version[q] \in Versions
        BY <1>2, <3>2 DEF Inv, TypeOK, Registered, PoolOK
      <4>2. Language[version[q]] = n /\ \A m \in Aliases[version[q]] : aliases[m] = n
        BY <1>13, <4>1 DEF UnderItsNames
      <4>3. \A m \in Aliases[version[q]] : m \notin Aliases[v]
        BY <1>1, <1>13, <3>2, <4>1, <4>2 DEF NamesAgree, NamesOf
      <4> QED BY <1>2, <4>1, <4>2, <4>3
    <3> QED BY <3>1, <3>2
  <2>4. AliasOfVersion'
    BY <1>1, <1>2, <1>13 DEF AliasOfVersion
  <2>5. NoLostPool'
    BY <1>1, <1>2, <1>3, <1>13, <2>1 DEF NoLostPool, Inv, TypeOK, PoolOK, v
  <2>6. Stopping'
    <3> SUFFICES ASSUME NEW q \in Pools, status'[q] = "stopping"
                 PROVE  pool'[Language[version'[q]]] = q
      BY DEF Stopping
    <3>1. q # p /\ status[q] = "stopping" /\ version' = version
      BY <1>1, <1>2 DEF Inv, TypeOK
    <3>2. \A o \in Users : proc[o].pc # "abort"
      BY <1>1, <1>5 DEF Procs, Locked
    <3>3. pool[Language[version[q]]] = q
      BY <1>13, <3>1, <3>2 DEF Stopping
    <3>4. Language[version[q]] # Language[v]
      BY <2>1, <3>3 DEF Inv, TypeOK
    <3> QED BY <1>2, <3>1, <3>3, <3>4 DEF Inv, TypeOK
  <2>7. ASSUME NEW o \in Users PROVE NoPoolYet(o)'
    BY <1>4, <1>5 DEF NoPoolYet, Moves, Procs, Locked
  <2> QED BY <2>2, <2>3, <2>4, <2>5, <2>6, <2>7
<1> QED BY <1>6, <1>7, <1>8, <1>9, <1>10, <1>11, <1>12, <1>13 DEF Inv

LEMMA StartFailsStep ==
    ASSUME Inv, NEW u \in Users, StartFails(u)
    PROVE  Inv' /\ (NameInv => NameInv')
<1> DEFINE p == proc[u].dp
<1>1. /\ proc[u].pc = "start" /\ p \in Pools /\ status[p] = "starting"
      /\ u \in Procs /\ proc \in [Procs -> ProcType] /\ "abort" \in Pcs
  BY DEF StartFails, At, Inv, UserOK, Procs, TypeOK, Pcs
<1>2. /\ status' = [status EXCEPT ![p] = "stopping"] /\ Goto(u, "abort")
      /\ UNCHANGED <<instanceVars, installed, maps, writer, version, server>>
  BY DEF StartFails
<1>3. PICK k \in ProcType : Moves(u, k) /\ k.pc = "abort" /\ k.dp = p
  BY <1>1, <1>2, GotoEffect
<1>4. \A o \in Procs : o # u => proc[o].pc \notin Locked
  BY <1>1, OneHolder DEF Locked
<1> HIDE DEF p
<1>5. TypeOK'
  BY <1>1, <1>2, <1>3 DEF Inv, TypeOK, Moves, instanceVars, server, maps
<1>6. Roles'
  BY <1>3 DEF Inv, Roles, Moves, Procs, UserPcs
<1>7. LockHeld'
  BY <1>1, <1>2, <1>3, <1>4, Zenon DEF Inv, Moves, LockHeld, Procs, Locked
<1>8. Registered'
  BY <1>1, <1>2 DEF Inv, TypeOK, Registered, maps
<1>9. ASSUME NEW o \in Users PROVE UserOK(o)'
  BY <1>1, <1>2, <1>3, <1>4 DEF Inv, UserOK, Moves, Procs, Locked, TypeOK
<1>10. ASSUME NEW o \in Admins PROVE AdminOK(o)'
  BY <1>2, <1>3 DEF Inv, AdminOK, Moves, Procs, maps
<1>11. ASSUME NEW q \in Pools PROVE PoolOK(q)'
  BY <1>1, <1>2 DEF Inv, PoolOK, TypeOK, instanceVars
<1>12. ASSUME NameInv PROVE NameInv'
  <2> USE DEF NameInv
  <2>1. Starting'
    BY <1>1, <1>2, <1>4, <1>12 DEF Starting, Procs, Locked, Inv, TypeOK, p
  <2>2. UnderItsNames' /\ AliasOfVersion'
    BY <1>2, <1>12 DEF UnderItsNames, AliasOfVersion, maps
  <2>3. NoLostPool'
    BY <1>1, <1>2, <1>12 DEF NoLostPool, Inv, TypeOK, maps
  <2>4. Stopping'
    BY <1>1, <1>2, <1>3, <1>4, <1>12 DEF Stopping, Inv, TypeOK, Moves, Procs, Locked, maps
  <2>5. ASSUME NEW o \in Users PROVE NoPoolYet(o)'
    BY <1>3, <1>4 DEF NoPoolYet, Moves, Procs, Locked
  <2> QED BY <2>1, <2>2, <2>3, <2>4, <2>5
<1> QED BY <1>5, <1>6, <1>7, <1>8, <1>9, <1>10, <1>11, <1>12 DEF Inv

LEMMA StartOrphansStep ==
    ASSUME Inv, NEW u \in Users, StartOrphans(u)
    PROVE  Inv' /\ (NameInv => NameInv')
<1> DEFINE p == proc[u].dp
<1>1. /\ proc[u].pc = "start" /\ p \in Pools /\ status[p] = "starting"
      /\ u \in Procs /\ proc \in [Procs -> ProcType]
  BY DEF StartOrphans, At, Inv, UserOK, Procs, TypeOK
<1>2. /\ status' = [status EXCEPT ![p] = "orphan"] /\ Answer(u) /\ writer' = "none"
      /\ factory' = [factory EXCEPT ![p] = "off"]
      /\ \/ container' = [container EXCEPT ![p] = "none"]
         \/ container' = [container EXCEPT ![p] = "leaked"]
      /\ UNCHANGED <<installed, maps, version, server>>
  BY DEF StartOrphans, StopInstance, Enter, ContainerStop, Container
<1>3. Moves(u, Idle) /\ Idle \in ProcType /\ Idle.pc = "idle"
  BY <1>1, <1>2, AnswerEffect, IdleType
<1>4. \A o \in Procs : o # u => proc[o].pc \notin Locked
  BY <1>1, OneHolder DEF Locked
<1> HIDE DEF p
<1>5. TypeOK'
  BY <1>1, <1>2, <1>3 DEF Inv, TypeOK, Moves, server, maps
<1>6. Roles'
  BY <1>3, Zenon DEF Inv, Roles, Moves, Procs, UserPcs
<1>7. LockHeld'
  BY <1>1, <1>2, <1>3, <1>4, Zenon DEF Inv, Moves, LockHeld, Procs, Locked
<1>8. Registered'
  BY <1>1, <1>2 DEF Inv, TypeOK, Registered, maps
<1>9. ASSUME NEW o \in Users PROVE UserOK(o)'
  BY <1>1, <1>2, <1>3, <1>4 DEF Inv, UserOK, Moves, Procs, Locked, TypeOK
<1>10. ASSUME NEW o \in Admins PROVE AdminOK(o)'
  BY <1>2, <1>3, Zenon DEF Inv, AdminOK, Moves, Procs, maps
<1>11. ASSUME NEW q \in Pools PROVE PoolOK(q)'
  BY <1>1, <1>2 DEF Inv, PoolOK, TypeOK
<1>12. ASSUME NameInv PROVE NameInv'
  <2> USE DEF NameInv
  <2>1. Starting'
    BY <1>1, <1>2, <1>4, <1>12 DEF Starting, Procs, Locked, Inv, TypeOK, p
  <2>2. UnderItsNames' /\ AliasOfVersion'
    BY <1>2, <1>12 DEF UnderItsNames, AliasOfVersion, maps
  <2>3. NoLostPool'
    BY <1>1, <1>2, <1>12 DEF NoLostPool, Inv, TypeOK, maps
  <2>4. Stopping'
    BY <1>1, <1>2, <1>3, <1>4, <1>12 DEF Stopping, Inv, TypeOK, Moves, Procs, Locked, maps
  <2>5. ASSUME NEW o \in Users PROVE NoPoolYet(o)'
    BY <1>3, <1>4, Zenon DEF NoPoolYet, Moves, Procs, Locked
  <2> QED BY <2>1, <2>2, <2>3, <2>4, <2>5
<1> QED BY <1>5, <1>6, <1>7, <1>8, <1>9, <1>10, <1>11, <1>12 DEF Inv

-----------------------------------------------------------------------------
(* Steps of the pools and of the server.                                   *)

LEMMA NamesUnchanged ==
    ASSUME NameInv, pool' = pool, aliases' = aliases, status' = status, version' = version,
           proc' = proc
    PROVE  NameInv'
<1>1. Starting' /\ Stopping'
  BY DEF NameInv, Starting, Stopping
<1>2. UnderItsNames' /\ AliasOfVersion'
  BY DEF NameInv, UnderItsNames, AliasOfVersion
<1>3. NoLostPool'
  BY DEF NameInv, NoLostPool
<1>4. ASSUME NEW u \in Users PROVE NoPoolYet(u)'
  BY DEF NameInv, NoPoolYet
<1> QED BY <1>1, <1>2, <1>3, <1>4 DEF NameInv

\* A step of a pool's factory, or the end of its driver.
LEMMA InstanceChange ==
    ASSUME Inv, NEW p \in Pools,
           NEW f \in {"off", "create", "run", "dial", "version", "up", "failed"},
           NEW c \in {"none", "created", "running", "leaked"},
           factory' = [factory EXCEPT ![p] = f],
           container' = [container EXCEPT ![p] = c],
           f \in {"off", "create", "failed"} => c \in {"none", "leaked"},
           status[p] \notin {"unused", "closed", "orphan"},
           UNCHANGED daemonVars
    PROVE  Inv' /\ (NameInv => NameInv')
<1> USE DEF daemonVars, maps, server
<1>1. TypeOK'
  BY DEF Inv, TypeOK
<1>2. Roles' /\ LockHeld' /\ Registered'
  BY DEF Inv, Roles, LockHeld, Registered
<1>3. ASSUME NEW u \in Users PROVE UserOK(u)'
  BY DEF Inv, UserOK
<1>4. ASSUME NEW a \in Admins PROVE AdminOK(a)'
  BY Zenon DEF Inv, AdminOK
<1>5. ASSUME NEW q \in Pools PROVE PoolOK(q)'
  BY DEF Inv, PoolOK, TypeOK
<1>6. ASSUME NameInv PROVE NameInv'
  BY <1>6, NamesUnchanged
<1> QED BY <1>1, <1>2, <1>3, <1>4, <1>5, <1>6 DEF Inv

LEMMA SpawnStep ==
    ASSUME Inv, NEW p \in Pools, Spawn(p)
    PROVE  Inv' /\ (NameInv => NameInv')
<1> DEFINE b == version[p] \in installed
<1>1. Factory(p, b) /\ UNCHANGED daemonVars
  BY DEF Spawn
<1>2. factory[p] \in {"create", "run", "dial", "version"}
  BY <1>1 DEF Factory, NewDriverInstance, ContainerStart, Dial, LoadVersion
<1>3. status[p] \notin {"unused", "closed", "orphan"}
  BY <1>2 DEF Inv, PoolOK
<1>4. container \in [Pools -> {"none", "created", "running", "leaked"}]
  BY DEF Inv, TypeOK
<1>5. container' = container => container' = [container EXCEPT ![p] = container[p]]
  BY <1>4
<1>6. factory[p] = "create" => container[p] \in {"none", "leaked"}
  BY DEF Inv, PoolOK
<1>7. CASE NewDriverInstance(p, b)
  BY <1>1, <1>3, <1>4, <1>5, <1>6, <1>7, InstanceChange DEF NewDriverInstance, Enter, Container
<1>8. CASE ContainerStart(p)
  BY <1>1, <1>3, <1>8, InstanceChange DEF ContainerStart, Enter, Container
<1>9. CASE Dial(p)
  BY <1>1, <1>3, <1>4, <1>5, <1>9, InstanceChange DEF Dial, Enter, Container, ContainerStop
<1>10. CASE LoadVersion(p)
  BY <1>1, <1>3, <1>4, <1>5, <1>10, InstanceChange DEF LoadVersion, Enter, Container
<1> QED BY <1>1, <1>7, <1>8, <1>9, <1>10 DEF Factory

LEMMA RetryStep ==
    ASSUME Inv, NEW p \in Pools, Retry(p)
    PROVE  Inv' /\ (NameInv => NameInv')
<1>1. /\ factory' = [factory EXCEPT ![p] = "create"] /\ factory[p] = "failed"
      /\ status[p] = "starting" /\ container' = container /\ UNCHANGED daemonVars
  BY DEF Retry, Enter
<1>2. container[p] \in {"none", "leaked"} /\ container = [container EXCEPT ![p] = container[p]]
  BY <1>1 DEF Inv, PoolOK, TypeOK
<1>3. CASE container' = [container EXCEPT ![p] = "none"]
  BY <1>1, <1>3, InstanceChange, Zenon
<1>4. CASE container' = [container EXCEPT ![p] = "leaked"]
  BY <1>1, <1>4, InstanceChange, Zenon
<1> QED BY <1>1, <1>2, <1>3, <1>4

LEMMA DrainStep ==
    ASSUME Inv, NEW p \in Pools, Drain(p)
    PROVE  Inv' /\ (NameInv => NameInv')
<1>1. /\ status[p] = "stopping" /\ factory' = [factory EXCEPT ![p] = "off"]
      /\ UNCHANGED daemonVars
  BY DEF Drain, StopInstance, Enter
<1>2. CASE container' = [container EXCEPT ![p] = "none"]
  BY <1>1, <1>2, InstanceChange, Zenon
<1>3. CASE container' = [container EXCEPT ![p] = "leaked"]
  BY <1>1, <1>3, InstanceChange, Zenon
<1> QED BY <1>2, <1>3 DEF Drain, StopInstance, Container, ContainerStop

\* A pool that serves begins to stop, or one that stops is closed.
LEMMA StatusChange ==
    ASSUME Inv, NEW p \in Pools, NEW s, status' = [status EXCEPT ![p] = s],
           \/ status[p] = "open" /\ s = "stopping"
           \/ status[p] = "stopping" /\ s = "closed" /\ factory[p] \in {"off", "failed"},
           UNCHANGED <<instanceVars, installed, maps, writer, version, proc, server>>
    PROVE  Inv' /\ (NameInv => NameInv')
<1> USE DEF instanceVars, maps, server
<1>1. TypeOK'
  BY DEF Inv, TypeOK
<1>2. Roles' /\ LockHeld'
  BY DEF Inv, Roles, LockHeld
<1>3. Registered'
  BY DEF Inv, TypeOK, Registered
<1>4. ASSUME NEW u \in Users PROVE UserOK(u)'
  BY DEF Inv, UserOK, TypeOK
<1>5. ASSUME NEW a \in Admins PROVE AdminOK(a)'
  BY Zenon DEF Inv, AdminOK
<1>6. ASSUME NEW q \in Pools PROVE PoolOK(q)'
  BY DEF Inv, PoolOK, TypeOK
<1>7. ASSUME NameInv PROVE NameInv'
  <2> USE <1>7 DEF NameInv
  <2>1. Starting'
    BY DEF Starting, Inv, TypeOK
  <2>2. UnderItsNames' /\ AliasOfVersion'
    BY Zenon DEF UnderItsNames, AliasOfVersion
  <2>3. NoLostPool' /\ Stopping'
    BY DEF NoLostPool, Stopping, Inv, TypeOK
  <2>4. ASSUME NEW u \in Users PROVE NoPoolYet(u)'
    BY DEF NoPoolYet
  <2> QED BY <2>1, <2>2, <2>3, <2>4
<1> QED BY <1>1, <1>2, <1>3, <1>4, <1>5, <1>6, <1>7 DEF Inv

LEMMA ServerStep ==
    ASSUME Inv, NEW l \in {"user", "control"}, CloseListener(l) \/ Exit(l)
    PROVE  Inv' /\ (NameInv => NameInv')
<1>1. UNCHANGED <<instanceVars, installed, maps, writer, status, version, proc>>
  BY DEF CloseListener, Exit
<1>2. TypeOK'
  BY <1>1 DEF Inv, TypeOK, CloseListener, Exit, instanceVars, maps
<1>3. Inv'
  BY <1>1, <1>2, Zenon DEF Inv, Roles, LockHeld, Registered, UserOK, AdminOK, PoolOK, instanceVars, maps
<1>4. NameInv => NameInv'
  BY <1>1, NamesUnchanged DEF maps
<1> QED BY <1>3, <1>4

-----------------------------------------------------------------------------
(* The invariants.                                                         *)

LEMMA InitInv == Init => Inv /\ NameInv
<1> SUFFICES ASSUME Init PROVE Inv /\ NameInv
  OBVIOUS
<1>1. \A x \in Procs : proc[x] = Idle
  BY DEF Init
<1>2. TypeOK
  <2>1. proc \in [Procs -> ProcType]
    BY IdleType DEF Init
  <2> QED BY <2>1 DEF Init, InstanceInit, TypeOK
<1>3. Inv
  BY <1>1, <1>2, IdleType
     DEF Init, InstanceInit, Inv, Roles, LockHeld, Registered, UserOK, AdminOK, PoolOK, Procs,
         UserPcs, AdminPcs, MainPcs, Locked
<1>4. NameInv
  BY <1>1, IdleType
     DEF Init, NameInv, Starting, UnderItsNames, AliasOfVersion, NoLostPool, Stopping, NoPoolYet,
         Procs
<1> QED BY <1>3, <1>4

LEMMA PoolStepInv ==
    ASSUME Inv, NEW p \in Pools, PoolStep(p) \/ GiveUp(p)
    PROVE  Inv' /\ (NameInv => NameInv')
<1>1. CASE Spawn(p)
  BY <1>1, SpawnStep
<1>2. CASE Retry(p)
  BY <1>2, RetryStep
<1>3. CASE Drain(p)
  BY <1>3, DrainStep
<1>4. CASE Close(p)
  BY <1>4, StatusChange, Zenon DEF Close
<1>5. CASE GiveUp(p)
  BY <1>5, StatusChange, Zenon DEF GiveUp
<1> QED BY <1>1, <1>2, <1>3, <1>4, <1>5 DEF PoolStep

LEMMA UserStepInv ==
    ASSUME Inv, NEW u \in Users, UserStep(u)
    PROVE  Inv' /\ (NamesAgree /\ NameInv => NameInv')
<1>1. CASE Lookup(u)
  BY <1>1, LookupStep
<1>2. CASE LookupLocked(u)
  BY <1>2, LookupLockedStep
<1>3. CASE NewDriverPool(u)
  BY <1>3, NewDriverPoolStep
<1>4. CASE Register(u)
  BY <1>4, RegisterStep
<1>5. CASE StartFails(u)
  BY <1>5, StartFailsStep
<1>6. CASE StartOrphans(u)
  BY <1>6, StartOrphansStep
<1>7. CASE Abort(u)
  BY <1>7, AbortStep
<1>8. CASE Execute(u)
  BY <1>8, ExecuteStep
<1>9. CASE Parsed(u)
  BY <1>9, ParsedStep
<1> QED BY <1>1, <1>2, <1>3, <1>4, <1>5, <1>6, <1>7, <1>8, <1>9 DEF UserStep

LEMMA AdminStepInv ==
    ASSUME Inv, NEW a \in Admins, AdminStep(a)
    PROVE  Inv' /\ (NameInv => NameInv')
BY InstallFindStep, InstallReplaceStep, InstallImageStep, RemoveFindStep, RemoveImageStep,
   RemovePoolStep, UnregisterStep DEF AdminStep

LEMMA MainStepInv ==
    ASSUME Inv, MainStep
    PROVE  Inv' /\ (NameInv => NameInv')
<1>1. ASSUME NEW n \in Names, StopPool(n)
      PROVE  Inv' /\ (NameInv => NameInv')
  <2>1. pool[n] \in Pools
    BY <1>1 DEF StopPool, Inv, TypeOK
  <2> QED BY <1>1, <2>1, StatusChange, Zenon DEF StopPool
<1> QED BY <1>1, StopLockStep, StoppedStep, ServerStep DEF MainStep

LEMMA NextInv == Inv /\ [Next]_vars => Inv' /\ (NamesAgree /\ NameInv => NameInv')
<1> SUFFICES ASSUME Inv, [Next]_vars PROVE Inv' /\ (NamesAgree /\ NameInv => NameInv')
  OBVIOUS
<1>1. CASE UNCHANGED vars
  <2>1. Inv'
    BY <1>1, Zenon DEF vars, daemonVars, instanceVars, maps, server, Inv, TypeOK, Roles, LockHeld,
                Registered, UserOK, AdminOK, PoolOK
  <2>2. NameInv => NameInv'
    BY <1>1, NamesUnchanged DEF vars, daemonVars, maps
  <2> QED BY <2>1, <2>2
<1>2. ASSUME NEW p \in Pools, PoolStep(p) \/ GiveUp(p)
      PROVE  Inv' /\ (NamesAgree /\ NameInv => NameInv')
  BY <1>2, PoolStepInv
<1>3. ASSUME NEW u \in Users, UserStep(u)
      PROVE  Inv' /\ (NamesAgree /\ NameInv => NameInv')
  BY <1>3, UserStepInv
<1>4. ASSUME NEW u \in Users, NEW n \in Names, Receive(u, n)
      PROVE  Inv' /\ (NamesAgree /\ NameInv => NameInv')
  BY <1>4, ReceiveStep
<1>5. ASSUME NEW a \in Admins, AdminStep(a)
      PROVE  Inv' /\ (NamesAgree /\ NameInv => NameInv')
  BY <1>5, AdminStepInv
<1>6. ASSUME NEW a \in Admins, NEW v \in Versions, NEW b \in BOOLEAN, InstallDriver(a, v, b)
      PROVE  Inv' /\ (NamesAgree /\ NameInv => NameInv')
  BY <1>6, InstallDriverStep
<1>7. ASSUME NEW a \in Admins, NEW n \in Names, RemoveDriver(a, n)
      PROVE  Inv' /\ (NamesAgree /\ NameInv => NameInv')
  BY <1>7, RemoveDriverStep
<1>8. CASE Signal
  BY <1>8, SignalStep
<1>9. CASE MainStep
  BY <1>9, MainStepInv
<1> QED BY <1>1, <1>2, <1>3, <1>4, <1>5, <1>6, <1>7, <1>8, <1>9 DEF Next

\* The daemon's state is well-formed whatever goroutines, pools and manifests there
\* are: d.mu has at most one writer, the one that is between Lock and Unlock in
\* DriverPool, removePool or Stop; what is registered has been started; a goroutine
\* has the pool, the name or the version that its next statement uses.
THEOREM DaemonInvariant == Spec => []Inv
<1>1. Init => Inv
  BY InitInv
<1>2. Inv /\ [Next]_vars => Inv'
  BY NextInv
<1> QED BY <1>1, <1>2, PTL DEF Spec

\* The variables of the daemon keep their types.
THEOREM DaemonTypes == Spec => []TypeOK
<1>1. Inv => TypeOK
  BY DEF Inv
<1> QED BY <1>1, DaemonInvariant, PTL

\* However a factory ends and whenever a pool is closed, no container is left but
\* one that container.Stop could not destroy or that did not answer the first call.
THEOREM DaemonNoContainerLeft == Spec => []NoContainerLeft
<1>1. Inv => NoContainerLeft
  BY DEF Inv, PoolOK, NoContainerLeft
<1> QED BY <1>1, DaemonInvariant, PTL

\* If versions that share a name agree on the language and the aliases, then every
\* pool that serves is registered under its language, whatever DriverPool,
\* RemoveDriver, InstallDriver and Stop do at the same time.
THEOREM DaemonNoLostPool ==
    ASSUME NamesAgree
    PROVE  Spec => []NoLostPool
<1>1. Init => Inv /\ NameInv
  BY InitInv
<1>2. Inv /\ NameInv /\ [Next]_vars => (Inv /\ NameInv)'
  BY NextInv
<1>3. NameInv => NoLostPool
  BY DEF NameInv
<1> QED BY <1>1, <1>2, <1>3, PTL DEF Spec

-----------------------------------------------------------------------------
(* Only its own steps move a goroutine.                                    *)

LEMMA Frame ==
    ASSUME proc \in [Procs -> ProcType], NEW x \in Procs, NEW n, proc' = [proc EXCEPT ![x] = n]
    PROVE  \A o \in Procs : o # x => proc'[o] = proc[o]
OBVIOUS

LEMMA UserFrame ==
    ASSUME Inv, NEW u \in Users, UserStep(u) \/ \E n \in Names : Receive(u, n)
    PROVE  \A o \in Procs : o # u => proc'[o] = proc[o]
<1>1. proc \in [Procs -> ProcType] /\ u \in Procs
  BY DEF Inv, TypeOK, Procs
<1>2. \E n : proc' = [proc EXCEPT ![u] = n]
  BY Zenon DEF UserStep, Lookup, LookupLocked, NewDriverPool, Register, StartFails, StartOrphans,
               Abort, Execute, Parsed, Receive, Goto, Answer
<1> QED BY <1>1, <1>2, Frame

LEMMA AdminFrame ==
    ASSUME Inv, NEW a \in Admins,
           \/ AdminStep(a)
           \/ \E v \in Versions, b \in BOOLEAN : InstallDriver(a, v, b)
           \/ \E n \in Names : RemoveDriver(a, n)
    PROVE  \A o \in Procs : o # a => proc'[o] = proc[o]
<1>1. proc \in [Procs -> ProcType] /\ a \in Procs
  BY DEF Inv, TypeOK, Procs
<1>2. \E n : proc' = [proc EXCEPT ![a] = n]
  BY Zenon DEF AdminStep, InstallFind, InstallReplace, InstallImage, RemoveFind, RemoveImage,
               RemovePool, Unregister, InstallDriver, RemoveDriver, Goto, Answer
<1> QED BY <1>1, <1>2, Frame

LEMMA MainFrame ==
    ASSUME Inv, MainStep \/ Signal
    PROVE  \A o \in Procs : o # "main" => proc'[o] = proc[o]
<1>1. proc \in [Procs -> ProcType] /\ "main" \in Procs
  BY DEF Inv, TypeOK, Procs
<1>2. proc' = proc \/ \E n : proc' = [proc EXCEPT !["main"] = n]
  BY Zenon DEF MainStep, Signal, StopLock, Stopped, StopPool, CloseListener, Exit, Goto
<1> QED BY <1>1, <1>2, Frame

LEMMA PoolFrame ==
    ASSUME NEW p \in Pools, PoolStep(p) \/ GiveUp(p)
    PROVE  proc' = proc
BY DEF PoolStep, GiveUp, Spawn, Retry, Drain, Close, daemonVars

\* A control call returns from removePool only by these two steps.
LEMMA RemoveReturns ==
    ASSUME Inv, [Next]_vars, NEW a \in Admins, proc[a].pc \in {"lock", "stop"},
           proc'[a].pc = "idle"
    PROVE  RemovePool(a) \/ Unregister(a)
<1>1. a \in Procs /\ proc'[a] # proc[a] /\ a \notin Users /\ a # "main"
  BY DEF Procs
<1>2. AdminStep(a) \/ (\E v \in Versions, b \in BOOLEAN : InstallDriver(a, v, b))
                   \/ (\E n \in Names : RemoveDriver(a, n))
  <2>1. ~UNCHANGED vars
    BY <1>1, Zenon DEF vars, daemonVars
  <2>2. ASSUME NEW p \in Pools PROVE ~(PoolStep(p) \/ GiveUp(p))
    BY <1>1, PoolFrame
  <2>3. ASSUME NEW u \in Users PROVE ~(UserStep(u) \/ \E n \in Names : Receive(u, n))
    BY <1>1, UserFrame
  <2>4. ~(MainStep \/ Signal)
    BY <1>1, MainFrame
  <2>5. ASSUME NEW o \in Admins, o # a
        PROVE  ~(\/ AdminStep(o)
                 \/ \E v \in Versions, b \in BOOLEAN : InstallDriver(o, v, b)
                 \/ \E n \in Names : RemoveDriver(o, n))
    BY <1>1, <2>5, AdminFrame
  <2> QED BY <2>1, <2>2, <2>3, <2>4, <2>5, Zenon DEF Next
<1> QED
  BY <1>2, Zenon DEF AdminStep, InstallFind, InstallReplace, InstallImage, RemoveFind, RemoveImage,
               InstallDriver, RemoveDriver, At

\* The handler of the signal leaves Stop only by this step.
LEMMA StopReturns ==
    ASSUME Inv, [Next]_vars, proc["main"].pc = "stop", proc'["main"].pc = "close"
    PROVE  Stopped
<1>1. "main" \in Procs /\ proc'["main"] # proc["main"] /\ "main" \notin Users /\ "main" \notin Admins
  BY DEF Procs
<1>2. MainStep \/ Signal
  <2>1. ~UNCHANGED vars
    BY <1>1 DEF vars, daemonVars
  <2>2. ASSUME NEW p \in Pools PROVE ~(PoolStep(p) \/ GiveUp(p))
    BY <1>1, PoolFrame
  <2>3. ASSUME NEW u \in Users PROVE ~(UserStep(u) \/ \E n \in Names : Receive(u, n))
    BY <1>1, UserFrame
  <2>4. ASSUME NEW o \in Admins
        PROVE  ~(\/ AdminStep(o)
                 \/ \E v \in Versions, b \in BOOLEAN : InstallDriver(o, v, b)
                 \/ \E n \in Names : RemoveDriver(o, n))
    BY <1>1, AdminFrame
  <2> QED BY <1>1, <2>1, <2>2, <2>3, <2>4 DEF Next
<1>3. ~StopLock /\ ~Signal
  BY Zenon DEF StopLock, Signal, At
<1>4. \A n \in Names : ~StopPool(n)
  BY <1>1 DEF StopPool
<1>5. \A l \in {"user", "control"} : ~(CloseListener(l) \/ Exit(l))
  BY <1>1 DEF CloseListener, Exit
<1> QED BY <1>2, <1>3, <1>4, <1>5 DEF MainStep

\* If the manifests agree on the names, RemoveDriver leaves no pool of the language
\* behind: a request either registered its pool before removePool had the lock, and
\* the pool is stopped, or it looks for the image afterwards.
THEOREM DaemonRemove ==
    ASSUME NamesAgree
    PROVE  Spec => RemoveLeavesNoPool
<1>1. Init => Inv /\ NameInv
  BY InitInv
<1>2. Inv /\ NameInv /\ [Next]_vars => (Inv /\ NameInv)'
  BY NextInv
<1>3. ASSUME Inv, NameInv, [Next]_vars, NEW a \in Admins,
             proc[a].pc \in {"lock", "stop"}, proc'[a].pc = "idle",
             NEW p \in Pools, status'[p] \in {"starting", "open"}
      PROVE  Language[version[p]] # proc[a].name
  <2> DEFINE n == proc[a].name
  <2>1. n \in Names /\ a \in Procs /\ a \notin Users
    BY <1>3 DEF Inv, AdminOK, Procs
  <2>2. status[p] = "open" => pool[Language[version[p]]] = p
    BY <1>3 DEF NameInv, NoLostPool
  <2>3. CASE RemovePool(a)
    <3>1. writer = "none" /\ pool[n] = "none" /\ status' = status
      <4>1. pool[n] # "none" => proc' = [proc EXCEPT ![a] = WithDp(proc[a], "stop", pool[n])]
        BY <2>3, Zenon DEF RemovePool, WithDp
      <4>2. proc[a] \in ProcType /\ "stop" \in Pcs /\ pool[n] \in Pools \cup {"none"}
        BY <1>3, <2>1 DEF Inv, TypeOK, Pcs
      <4>3. pool[n] # "none" => proc'[a].pc = "stop"
        BY <1>3, <2>1, <4>1, <4>2, SetDp, MovesEffect DEF Inv, TypeOK, Moves
      <4>4. pool[n] = "none"
        BY <1>3, <4>3
      <4> QED BY <2>3, <4>4, Zenon DEF RemovePool
    <3>2. status[p] # "starting"
      BY <1>3, <3>1 DEF Inv, LockHeld, NameInv, Starting, Procs, Locked
    <3> QED BY <1>3, <2>2, <3>1, <3>2
  <2>4. CASE Unregister(a)
    <3>1. status' = status /\ status[proc[a].dp] = "closed" /\ proc[a].pc = "stop"
      BY <2>4 DEF Unregister, At
    <3>2. pool[n] = proc[a].dp
      BY <1>3, <3>1 DEF Inv, AdminOK
    <3>3. status[p] # "starting"
      BY <1>3, <2>1, <3>1, OneHolder DEF NameInv, Starting, Procs, Locked
    <3> QED BY <1>3, <2>2, <3>1, <3>2, <3>3
  <2> QED BY <1>3, <2>3, <2>4, RemoveReturns
<1>4. Inv /\ NameInv /\ [Next]_vars =>
          [\A a \in Admins :
             proc[a].pc \in {"lock", "stop"} /\ proc'[a].pc = "idle" =>
                 \A p \in Pools : status'[p] \in {"starting", "open"} =>
                                      Language[version[p]] # proc[a].name]_vars
  BY <1>3
<1> QED BY <1>1, <1>2, <1>4, PTL DEF Spec, RemoveLeavesNoPool

\* If the manifests agree on the names, Stop of the daemon stops all the pools and
\* containers, but for orphans of a failed Start and leaked containers, whatever
\* requests and control calls it meets.
THEOREM DaemonStoppedAll ==
    ASSUME NamesAgree
    PROVE  Spec => StoppedAll
<1>1. Init => Inv /\ NameInv
  BY InitInv
<1>2. Inv /\ NameInv /\ [Next]_vars => (Inv /\ NameInv)'
  BY NextInv
<1>3. ASSUME Inv, NameInv, [Next]_vars, proc["main"].pc = "stop", proc'["main"].pc = "close",
             NEW p \in Pools
      PROVE  /\ status[p] \in {"unused", "closed", "orphan"}
             /\ container[p] \in {"none", "leaked"}
  <2>1. \A n \in Names : pool[n] # "none" => status[pool[n]] = "closed"
    BY <1>3, StopReturns DEF Stopped
  <2>2. \A u \in Users : proc[u].pc \notin Locked
    BY <1>3, OneHolder DEF Procs, Locked
  <2>3. status[p] # "starting"
    BY <1>3, <2>2 DEF NameInv, Starting, Locked
  <2>4. status[p] # "unused" => Language[version[p]] \in Names
    BY <1>3 DEF Inv, PoolOK
  <2>5. status[p] # "open"
    BY <1>3, <2>1, <2>4 DEF NameInv, NoLostPool
  <2>6. status[p] # "stopping"
    BY <1>3, <2>1, <2>2, <2>4 DEF NameInv, Stopping, Locked
  <2>7. status[p] \in {"unused", "closed", "orphan"}
    BY <1>3, <2>3, <2>5, <2>6 DEF Inv, TypeOK
  <2> QED BY <1>3, <2>7 DEF Inv, PoolOK
<1>4. Inv /\ NameInv /\ [Next]_vars =>
          [proc["main"].pc = "stop" /\ proc'["main"].pc = "close" =>
             \A p \in Pools : /\ status[p] \in {"unused", "closed", "orphan"}
                              /\ container[p] \in {"none", "leaked"}]_vars
  BY <1>3
<1> QED BY <1>1, <1>2, <1>4, PTL DEF Spec, StoppedAll
=============================================================================
