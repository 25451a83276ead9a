--------------------------- MODULE DriverPoolLease ---------------------------
(***************************************************************************)
(* DriverPool implements DriverLease: no driver has two owners, none is    *)
(* lost, and the counter running is accounted for.                         *)
(***************************************************************************)
EXTENDS DriverPoolBase, FiniteSetTheorems

\* Every step of the lease preserves its invariant.
LEMMA LeaseStep ==
    ASSUME Lease!LeaseInv, [Lease!LeaseNext]_Lease!leaseVars
    PROVE  Lease!LeaseInv'
<1> USE DriversAssumption
    DEF Lease!LeaseInv, Lease!LeaseType, Lease!Exclusive, Lease!Accounted, Lease!Owned,
        Lease!RunningCount
<1>10. \A S : Lease!Cardinality(S) = Cardinality(S)
  BY DEF Cardinality, Lease!Cardinality
<1>0. IsFiniteSet(all) /\ Lease!Cardinality(all) \in Int
  BY <1>10, FS_Subset, FS_CardinalityType
<1>1. ASSUME NEW p \in Procs, NEW d \in Drivers, Lease!Create(p, d) PROVE Lease!LeaseInv'
  BY <1>1 DEF Lease!Create
<1>2. ASSUME NEW p \in Procs, NEW d \in Drivers, Lease!Take(p, d) PROVE Lease!LeaseInv'
  BY <1>2 DEF Lease!Take
<1>3. ASSUME NEW p \in Procs, NEW q \in Procs \ {p}, Lease!Hand(p, q) PROVE Lease!LeaseInv'
  BY <1>3 DEF Lease!Hand
<1>4. ASSUME NEW p \in Procs, Lease!Enter(p) PROVE Lease!LeaseInv'
  <2>1. Lease!Cardinality(all') = Lease!Cardinality(all) + 1
    BY <1>0, <1>10, <1>4, FS_AddElement DEF Lease!Enter
  <2> QED
    BY <1>0, <1>4, <2>1 DEF Lease!Enter
<1>5. ASSUME NEW p \in Procs, Lease!Return(p) PROVE Lease!LeaseInv'
  BY <1>5 DEF Lease!Return
<1>6. ASSUME NEW p \in Procs, Lease!Strike(p) PROVE Lease!LeaseInv'
  <2>1. CASE held[p] \in all
    <3>1. Lease!Cardinality(all') = Lease!Cardinality(all) - 1
      BY <1>0, <1>10, <1>6, <2>1, FS_RemoveElement DEF Lease!Strike
    <3> QED
      BY <1>0, <1>6, <2>1, <3>1 DEF Lease!Strike
  <2>2. CASE held[p] \notin all
    <3>1. all' = all /\ Lease!Cardinality(all') = Lease!Cardinality(all)
      BY <1>6, <2>2 DEF Lease!Strike
    <3>2. running' = running - 1 /\ repeats' = repeats + 1
      BY <1>6, <2>2 DEF Lease!Strike
    <3>3. Lease!RunningCount'
      BY <1>0, <3>1, <3>2
    <3> QED
      BY <1>6, <3>1, <3>2, <3>3 DEF Lease!Strike
  <2> QED
    BY <2>1, <2>2
<1>7. ASSUME NEW p \in Procs, NEW keep \in BOOLEAN, Lease!Shut(p, keep) PROVE Lease!LeaseInv'
  BY <1>7 DEF Lease!Shut
<1>8. ASSUME NEW d \in Drivers, Lease!Die(d) PROVE Lease!LeaseInv'
  BY <1>8 DEF Lease!Die
<1>9. CASE UNCHANGED Lease!leaseVars
  BY <1>9 DEF Lease!leaseVars
<1> QED
  BY <1>1, <1>2, <1>3, <1>4, <1>5, <1>6, <1>7, <1>8, <1>9 DEF Lease!LeaseNext

\* The rules alone, that a goroutine only strikes, shuts, hands on and returns
\* what it owns, keep owners exclusive, drivers accounted for and the counter
\* right, with any number of owners and drivers.
THEOREM LeaseSafety == Lease!LeaseSpec => []Lease!LeaseInv
<1>1. Lease!LeaseInit => Lease!LeaseInv
  BY DriversAssumption, FS_EmptySet
     DEF Cardinality, Lease!Cardinality, Lease!LeaseInit, Lease!LeaseInv, Lease!LeaseType, Lease!Exclusive, Lease!Accounted,
         Lease!Owned, Lease!RunningCount
<1>2. Lease!LeaseInv /\ [Lease!LeaseNext]_Lease!leaseVars => Lease!LeaseInv'
  BY LeaseStep
<1> QED
  BY <1>1, <1>2, PTL DEF Lease!LeaseSpec

\* A driver in hand is registered where the code assumes it: nobody else kills
\* it, and an idle driver is registered.
LEMMA RegistrationStep ==
    ASSUME TypeOK, Places, Holding, Registration, Exclusive, Accounted,
           [Next]_vars
    PROVE  Registration'
<1> USE ClientsAssumption, DriversAssumption, SMTT(30), ZenonT(60)
    DEF    Callers, Procs, Manager, vars, procVars, chanVars, driverVars, counterVars,
           requestVars, localVars, boundVars, selectRest
<1> USE DEF Holding, HoldLabels, Registration, Exclusive, Accounted, Killing
<1>0. /\ pc \in [Procs -> Labels] /\ ret \in [Procs -> Labels]
      /\ held \in [Procs -> Drivers \cup {NoDriver}]
      /\ idle \subseteq Drivers /\ req \in Callers \cup {NoReq}
  BY DEF TypeOK
<1>1. ASSUME NEW c \in Clients, ExecuteCtx(c) PROVE Registration'
  BY <1>1, <1>0 DEF ExecuteCtx, Goto
<1>2. ASSUME NEW c \in Clients, Execute(c) PROVE Registration'
  BY <1>2, <1>0 DEF Execute, Goto
<1>3. ASSUME NEW c \in Clients, ParseTimeout(c) PROVE Registration'
  BY <1>3, <1>0 DEF ParseTimeout, Goto
<1>4. ASSUME NEW c \in Callers, Cancel(c) PROVE Registration'
  BY <1>4, <1>0 DEF Cancel
<1>5. ASSUME NEW c \in Callers, GetIdle(c) PROVE Registration'
  BY <1>5, <1>0 DEF GetIdle, Goto, GetFailed
<1>6. ASSUME NEW c \in Callers, LeaveGetIdle(c) PROVE Registration'
  BY <1>6, <1>0 DEF LeaveGetIdle, Goto, GetFailed
<1>7. ASSUME NEW d \in Drivers, Exit(d) PROVE Registration'
  BY <1>7, <1>0 DEF Exit
<1>8. ASSUME NEW p \in Callers \cup {"spawner"}, CheckStatus(p) PROVE Registration'
  BY <1>8, <1>0 DEF CheckStatus, Goto, GetDone, PutFailed
<1>9. ASSUME NEW p \in Callers \cup {"spawner"}, PutClosed(p) PROVE Registration'
  BY <1>9, <1>0 DEF PutClosed, Goto, PutFailed
<1>10. ASSUME NEW p \in Callers \cup {"spawner", "manager"}, KillDriver(p) PROVE Registration'
  BY <1>10, <1>0 DEF KillDriver, Goto
<1>11. ASSUME NEW p \in Callers \cup {"spawner", "manager"}, StopDriver(p) PROVE Registration'
  BY <1>11, <1>0 DEF StopDriver, Goto, Places
<1>12. CASE SpawnerStop
  BY <1>12, <1>0 DEF SpawnerStop, Goto
<1>13. CASE SpawnCount
  BY <1>13, <1>0 DEF SpawnCount, Goto
<1>14. CASE Factory
  BY <1>14, <1>0 DEF Factory, Goto, Held
<1>15. CASE Register
  BY <1>15, <1>0 DEF Register, Goto
<1>16. CASE SpawnFailed
  BY <1>16, <1>0 DEF SpawnFailed, Goto
<1>17. CASE PolicyStop
  BY <1>17, <1>0 DEF PolicyStop, Goto
<1>18. ASSUME NEW t \in 0..MaxTarget, PolicyTick(t) PROVE Registration'
  BY <1>18, <1>0 DEF PolicyTick, Goto
<1>19. CASE SignalRescale
  BY <1>19, <1>0 DEF SignalRescale, Goto
<1>20. CASE CallStop
  BY <1>20, <1>0 DEF CallStop, Goto
<1>21. ASSUME NEW s \in Stoppers \cup {"starter"}, StopSelect(s) PROVE Registration'
  BY <1>21, <1>0 DEF StopSelect, Goto
<1>22. ASSUME NEW s \in Stoppers \cup {"starter"}, CancelPool(s) PROVE Registration'
  BY <1>22, <1>0 DEF CancelPool, Goto
<1>23. ASSUME NEW s \in Stoppers \cup {"starter"}, StopWait(s) PROVE Registration'
  BY <1>23, <1>0 DEF StopWait, Goto
<1>24. CASE ManagePut
  BY <1>24, <1>0 DEF ManagePut, RecvPut, Putters, PutDone
<1>25. CASE ManageGet
  BY <1>25, <1>0 DEF ManageGet, RecvGet
<1>26. CASE ManageRescale
  BY <1>26, <1>0 DEF ManageRescale, Goto
<1>27. CASE ManageStop
  BY <1>27, <1>0 DEF ManageStop, Goto
<1>28. CASE SetIdle
  BY <1>28, <1>0 DEF SetIdle, Goto, Places
<1>29. CASE ScaleDiff
  BY <1>29, <1>0 DEF ScaleDiff, Goto
<1>30. CASE WaitOrScale
  BY <1>30, <1>0 DEF WaitOrScale, Goto
<1>31. CASE CheckRunning
  BY <1>31, <1>0 DEF CheckRunning, Goto, SendErr
<1>32. CASE PeekIdle
  BY <1>32, <1>0 DEF PeekIdle, Goto, TakeIdle
<1>33. CASE ReturnDriver
  BY <1>33, <1>0 DEF ReturnDriver, Goto, Cancelled
<1>34. CASE ScaleUpPut
  BY <1>34, <1>0 DEF ScaleUpPut, RecvPut, Putters, PutDone
<1>35. CASE ScaleUpSpawn
  BY <1>35, <1>0 DEF ScaleUpSpawn, SendSpawn
<1>36. CASE RequestFailed
  BY <1>36, <1>0 DEF RequestFailed, RecvSpawnErr, SendErr
<1>37. CASE RequestCancelled
  BY <1>37, <1>0 DEF RequestCancelled, Goto, Cancelled
<1>38. CASE ScaleDownPut
  BY <1>38, <1>0 DEF ScaleDownPut, RecvPut, Putters, PutDone
<1>39. CASE ScaleDownRescale
  BY <1>39, <1>0 DEF ScaleDownRescale, Goto
<1>40. CASE Scale
  BY <1>40, <1>0 DEF Scale, Goto
<1>41. CASE RescaleLater
  BY <1>41, <1>0 DEF RescaleLater, RecvGet, LeaveScale
<1>42. CASE ScaleStop
  BY <1>42, <1>0 DEF ScaleStop, Goto, LeaveScale
<1>43. CASE DownPut
  BY <1>43, <1>0 DEF DownPut, RecvPut, Putters, PutDone, CountDown
<1>44. CASE DownDefault
  BY <1>44, <1>0 DEF DownDefault, Goto
<1>45. CASE DownPeek
  BY <1>45, <1>0 DEF DownPeek, Goto, TakeIdle, CountDown
<1>46. CASE UpSpawn
  BY <1>46, <1>0 DEF UpSpawn, SendSpawn
<1>47. CASE UpPut
  BY <1>47, <1>0 DEF UpPut, RecvPut, Putters, PutDone
<1>48. CASE UpDiff
  BY <1>48, <1>0 DEF UpDiff, Goto, LeaveScale
<1>49. CASE UpWait
  BY <1>49, <1>0 DEF UpWait, RecvPut, Putters, PutDone, RecvSpawnErr
<1>50. CASE DrainIdle
  BY <1>50, <1>0 DEF DrainIdle, Goto, TakeIdle
<1>51. CASE DrainRunning
  BY <1>51, <1>0 DEF DrainRunning, Goto
<1>52. CASE DrainPut
  BY <1>52, <1>0 DEF DrainPut, RecvPut, Putters, PutDone
<1>53. CASE DrainDone
  BY <1>53, <1>0 DEF DrainDone, Goto
<1>54. CASE CloseStopped
  BY <1>54, <1>0 DEF CloseStopped
<1>55. CASE UNCHANGED vars
  BY <1>55, <1>0
<1> HIDE DEF Callers, Procs, Manager, vars, procVars, chanVars, driverVars, counterVars,
           requestVars, localVars, boundVars, selectRest,
           Holding, HoldLabels, Registration, Exclusive, Accounted, Killing
<1> QED
  BY NextActions, <1>1, <1>2, <1>3, <1>4, <1>5, <1>6, <1>7, <1>8, <1>9,
     <1>10, <1>11, <1>12, <1>13, <1>14, <1>15, <1>16, <1>17, <1>18, <1>19,
     <1>20, <1>21, <1>22, <1>23, <1>24, <1>25, <1>26, <1>27, <1>28, <1>29,
     <1>30, <1>31, <1>32, <1>33, <1>34, <1>35, <1>36, <1>37, <1>38, <1>39,
     <1>40, <1>41, <1>42, <1>43, <1>44, <1>45, <1>46, <1>47, <1>48, <1>49,
     <1>50, <1>51, <1>52, <1>53, <1>54, <1>55

\* What counts as a step of the lease.
LEMMA LeaseSteps ==
    /\ \A p \in Procs, d \in Drivers : Lease!Create(p, d) \/ Lease!Take(p, d) => Lease!LeaseNext
    /\ \A p, q \in Procs : p # q /\ Lease!Hand(p, q) => Lease!LeaseNext
    /\ \A p \in Procs : Lease!Enter(p) \/ Lease!Return(p) \/ Lease!Strike(p) => Lease!LeaseNext
    /\ \A p \in Procs, keep \in BOOLEAN : Lease!Shut(p, keep) => Lease!LeaseNext
    /\ \A d \in Drivers : Lease!Die(d) => Lease!LeaseNext
  BY DEF Lease!LeaseNext

\* Every step of the pool is a step of the lease or leaves it alone: the guards
\* of the lease follow from where the goroutines are.
LEMMA LeaseRefines ==
    ASSUME TypeOK, Places, Holding, Registration, Exclusive, Accounted,
           [Next]_vars
    PROVE  [Lease!LeaseNext]_Lease!leaseVars
<1> USE ClientsAssumption, DriversAssumption, SMTT(30), ZenonT(60)
    DEF    Callers, Procs, Manager, vars, procVars, chanVars, driverVars, counterVars,
           requestVars, localVars, boundVars, selectRest
<1>1. ASSUME NEW c \in Clients, ExecuteCtx(c) PROVE [Lease!LeaseNext]_Lease!leaseVars
  BY <1>1 DEF ExecuteCtx, Lease!leaseVars
<1>2. ASSUME NEW c \in Clients, Execute(c) PROVE [Lease!LeaseNext]_Lease!leaseVars
  BY <1>2 DEF Execute, Lease!leaseVars
<1>3. ASSUME NEW c \in Clients, ParseTimeout(c) PROVE [Lease!LeaseNext]_Lease!leaseVars
  BY <1>3 DEF ParseTimeout, Lease!leaseVars
<1>4. ASSUME NEW c \in Callers, Cancel(c) PROVE [Lease!LeaseNext]_Lease!leaseVars
  BY <1>4 DEF Cancel, Lease!leaseVars
<1>5. ASSUME NEW c \in Callers, LeaveGetIdle(c) PROVE [Lease!LeaseNext]_Lease!leaseVars
  BY <1>5 DEF LeaveGetIdle, Lease!leaseVars
<1>6. ASSUME NEW p \in Callers \cup {"spawner"}, CheckStatus(p) PROVE [Lease!LeaseNext]_Lease!leaseVars
  BY <1>6 DEF CheckStatus, Lease!leaseVars
<1>7. ASSUME NEW p \in Callers \cup {"spawner"}, PutClosed(p) PROVE [Lease!LeaseNext]_Lease!leaseVars
  BY <1>7 DEF PutClosed, Lease!leaseVars
<1>8. CASE SpawnerStop
  BY <1>8 DEF SpawnerStop, Lease!leaseVars
<1>9. CASE SpawnCount
  BY <1>9 DEF SpawnCount, Lease!leaseVars
<1>10. CASE SpawnFailed
  BY <1>10 DEF SpawnFailed, Lease!leaseVars
<1>11. CASE PolicyStop
  BY <1>11 DEF PolicyStop, Lease!leaseVars
<1>12. ASSUME NEW t \in 0..MaxTarget, PolicyTick(t) PROVE [Lease!LeaseNext]_Lease!leaseVars
  BY <1>12 DEF PolicyTick, Lease!leaseVars
<1>13. CASE SignalRescale
  BY <1>13 DEF SignalRescale, Lease!leaseVars
<1>14. CASE CallStop
  BY <1>14 DEF CallStop, Lease!leaseVars
<1>15. ASSUME NEW s \in Stoppers \cup {"starter"}, StopSelect(s) PROVE [Lease!LeaseNext]_Lease!leaseVars
  BY <1>15 DEF StopSelect, Lease!leaseVars
<1>16. ASSUME NEW s \in Stoppers \cup {"starter"}, CancelPool(s) PROVE [Lease!LeaseNext]_Lease!leaseVars
  BY <1>16 DEF CancelPool, Lease!leaseVars
<1>17. ASSUME NEW s \in Stoppers \cup {"starter"}, StopWait(s) PROVE [Lease!LeaseNext]_Lease!leaseVars
  BY <1>17 DEF StopWait, Lease!leaseVars
<1>18. CASE ManageGet
  BY <1>18 DEF ManageGet, Lease!leaseVars
<1>19. CASE ManageRescale
  BY <1>19 DEF ManageRescale, Lease!leaseVars
<1>20. CASE ManageStop
  BY <1>20 DEF ManageStop, Lease!leaseVars
<1>21. CASE ScaleDiff
  BY <1>21 DEF ScaleDiff, Lease!leaseVars
<1>22. CASE WaitOrScale
  BY <1>22 DEF WaitOrScale, Lease!leaseVars
<1>23. CASE CheckRunning
  BY <1>23 DEF CheckRunning, Lease!leaseVars
<1>24. CASE ScaleUpSpawn
  BY <1>24 DEF ScaleUpSpawn, Lease!leaseVars
<1>25. CASE RequestFailed
  BY <1>25 DEF RequestFailed, Lease!leaseVars
<1>26. CASE RequestCancelled
  BY <1>26 DEF RequestCancelled, Lease!leaseVars
<1>27. CASE ScaleDownRescale
  BY <1>27 DEF ScaleDownRescale, Lease!leaseVars
<1>28. CASE Scale
  BY <1>28 DEF Scale, Lease!leaseVars
<1>29. CASE RescaleLater
  BY <1>29 DEF RescaleLater, Lease!leaseVars
<1>30. CASE ScaleStop
  BY <1>30 DEF ScaleStop, Lease!leaseVars
<1>31. CASE DownDefault
  BY <1>31 DEF DownDefault, Lease!leaseVars
<1>32. CASE UpSpawn
  BY <1>32 DEF UpSpawn, Lease!leaseVars
<1>33. CASE UpDiff
  BY <1>33 DEF UpDiff, Lease!leaseVars
<1>34. CASE DrainRunning
  BY <1>34 DEF DrainRunning, Lease!leaseVars
<1>35. CASE DrainDone
  BY <1>35 DEF DrainDone, Lease!leaseVars
<1>36. CASE CloseStopped
  BY <1>36 DEF CloseStopped, Lease!leaseVars
<1>37. CASE UNCHANGED vars
  BY <1>37 DEF Lease!leaseVars
<1> USE DEF Holding, HoldLabels, Registration, Exclusive, Accounted
<1>0. /\ pc \in [Procs -> Labels] /\ ret \in [Procs -> Labels]
      /\ held \in [Procs -> Drivers \cup {NoDriver}]
      /\ idle \subseteq Drivers /\ req \in Callers \cup {NoReq}
  BY DEF TypeOK
<1>38. ASSUME NEW c \in Callers, GetIdle(c) PROVE [Lease!LeaseNext]_Lease!leaseVars
  <2>1. CASE UNCHANGED <<idle, held>>
    BY <1>38, <2>1 DEF GetIdle, Lease!leaseVars
  <2>2. CASE ~UNCHANGED <<idle, held>>
    <3>1. PICK d \in idle : idle' = idle \ {d} /\ held' = [held EXCEPT ![c] = d]
      BY <1>38, <2>2 DEF GetIdle
    <3>2. Lease!Take(c, d)
      BY <1>38, <1>0, <3>1 DEF GetIdle, Lease!Take
    <3> QED
      BY <1>0, <3>2, LeaseSteps
  <2> QED
    BY <2>1, <2>2
<1>39. ASSUME NEW d \in Drivers, Exit(d) PROVE [Lease!LeaseNext]_Lease!leaseVars
  <2>1. Lease!Die(d)
    BY <1>39, <1>0 DEF Exit, Lease!Die
  <2> QED
    BY <2>1, LeaseSteps
<1>40. ASSUME NEW p \in Callers \cup {"spawner", "manager"}, KillDriver(p) PROVE [Lease!LeaseNext]_Lease!leaseVars
  <2>1. Lease!Strike(p)
    BY <1>40, <1>0 DEF KillDriver, Lease!Strike
  <2> QED
    BY <2>1, LeaseSteps
<1>41. ASSUME NEW p \in Callers \cup {"spawner", "manager"}, StopDriver(p) PROVE [Lease!LeaseNext]_Lease!leaseVars
  <2>1. Lease!Shut(p, ret[p] = "checkPut")
    BY <1>41, <1>0 DEF StopDriver, Lease!Shut
  <2> QED
    BY <2>1, LeaseSteps, Zenon
<1>42. CASE Factory
  <2>1. CASE UNCHANGED <<up, held>>
    BY <1>42, <2>1 DEF Factory, Lease!leaseVars
  <2>2. CASE ~UNCHANGED <<up, held>>
    <3>1. PICK d \in Drivers \ (up \cup all \cup idle) :
              ~Held(d) /\ up' = up \cup {d} /\ held' = [held EXCEPT !["spawner"] = d]
      BY <1>42, <2>2 DEF Factory
    <3>2. Lease!Create("spawner", d)
      BY <1>42, <1>0, <3>1 DEF Factory, Held, Lease!Create, Lease!Owned
    <3> QED
      BY <3>2, LeaseSteps
  <2> QED
    BY <2>1, <2>2
<1>43. CASE Register
  <2>1. Lease!Enter("spawner")
    BY <1>43, <1>0 DEF Register, Lease!Enter
  <2> QED
    BY <2>1, LeaseSteps
<1>44. CASE ManagePut
  <2>1. PICK p \in Callers \cup {"spawner"} :
              pc[p] = "put" /\ held' = [held EXCEPT !["manager"] = held[p], ![p] = NoDriver]
    BY <1>44, Zenon DEF ManagePut, RecvPut, Putters
  <2>2. Lease!Hand(p, "manager")
    BY <1>44, <1>0, <2>1 DEF ManagePut, Lease!Hand
  <2> QED
    BY <2>2, LeaseSteps
<1>45. CASE SetIdle
  <2>1. Lease!Return("manager")
    BY <1>45, <1>0 DEF SetIdle, Lease!Return
  <2> QED
    BY <2>1, LeaseSteps
<1>46. CASE PeekIdle
  <2>1. CASE UNCHANGED <<idle, held>>
    BY <1>46, <2>1 DEF PeekIdle, Lease!leaseVars
  <2>2. CASE ~UNCHANGED <<idle, held>>
    <3>1. PICK d \in idle : TakeIdle(d)
      BY <1>46, <2>2 DEF PeekIdle
    <3>2. Lease!Take("manager", d)
      BY <1>46, <1>0, <3>1 DEF PeekIdle, TakeIdle, Lease!Take
    <3> QED
      BY <1>0, <3>2, LeaseSteps
  <2> QED
    BY <2>1, <2>2
<1>47. CASE ReturnDriver
  <2>1. CASE UNCHANGED held
    BY <1>47, <2>1 DEF ReturnDriver, Lease!leaseVars
  <2>2. CASE ~UNCHANGED held
    <3>1. req \in Callers /\ pc[req] = "await"
      BY <1>47, <1>0, <2>2 DEF ReturnDriver
    <3>2. Lease!Hand("manager", req)
      BY <1>47, <1>0, <2>2, <3>1 DEF ReturnDriver, Lease!Hand
    <3> QED
      BY <3>1, <3>2, LeaseSteps
  <2> QED
    BY <2>1, <2>2
<1>48. CASE ScaleUpPut
  <2>1. PICK p \in Callers \cup {"spawner"} :
              pc[p] = "put" /\ held' = [held EXCEPT !["manager"] = held[p], ![p] = NoDriver]
    BY <1>48, Zenon DEF ScaleUpPut, RecvPut, Putters
  <2>2. Lease!Hand(p, "manager")
    BY <1>48, <1>0, <2>1 DEF ScaleUpPut, Lease!Hand
  <2> QED
    BY <2>2, LeaseSteps
<1>49. CASE ScaleDownPut
  <2>1. PICK p \in Callers \cup {"spawner"} :
              pc[p] = "put" /\ held' = [held EXCEPT !["manager"] = held[p], ![p] = NoDriver]
    BY <1>49 DEF ScaleDownPut, RecvPut, Putters
  <2>2. Lease!Hand(p, "manager")
    BY <1>49, <1>0, <2>1 DEF ScaleDownPut, Lease!Hand
  <2> QED
    BY <2>2, LeaseSteps
<1>50. CASE DownPut
  <2>1. PICK p \in Callers \cup {"spawner"} :
              pc[p] = "put" /\ held' = [held EXCEPT !["manager"] = held[p], ![p] = NoDriver]
    BY <1>50, Zenon DEF DownPut, RecvPut, Putters
  <2>2. Lease!Hand(p, "manager")
    BY <1>50, <1>0, <2>1 DEF DownPut, Lease!Hand
  <2> QED
    BY <2>2, LeaseSteps
<1>51. CASE DownPeek
  <2>1. CASE UNCHANGED <<idle, held>>
    BY <1>51, <2>1 DEF DownPeek, Lease!leaseVars
  <2>2. CASE ~UNCHANGED <<idle, held>>
    <3>1. PICK d \in idle : TakeIdle(d)
      BY <1>51, <2>2 DEF DownPeek
    <3>2. Lease!Take("manager", d)
      BY <1>51, <1>0, <3>1 DEF DownPeek, TakeIdle, Lease!Take
    <3> QED
      BY <1>0, <3>2, LeaseSteps
  <2> QED
    BY <2>1, <2>2
<1>52. CASE UpPut
  <2>1. PICK p \in Callers \cup {"spawner"} :
              pc[p] = "put" /\ held' = [held EXCEPT !["manager"] = held[p], ![p] = NoDriver]
    BY <1>52, Zenon DEF UpPut, RecvPut, Putters
  <2>2. Lease!Hand(p, "manager")
    BY <1>52, <1>0, <2>1 DEF UpPut, Lease!Hand
  <2> QED
    BY <2>2, LeaseSteps
<1>53. CASE UpWait
  <2>1. CASE UNCHANGED held
    BY <1>53, <2>1 DEF UpWait, Lease!leaseVars
  <2>2. CASE ~UNCHANGED held
    <3>1. PICK p \in Callers \cup {"spawner"} :
              pc[p] = "put" /\ held' = [held EXCEPT !["manager"] = held[p], ![p] = NoDriver]
      BY <1>53, <2>2 DEF UpWait, RecvPut, Putters
    <3>2. Lease!Hand(p, "manager")
      BY <1>53, <1>0, <3>1 DEF UpWait, Lease!Hand
    <3> QED
      BY <3>2, LeaseSteps
  <2> QED
    BY <2>1, <2>2
<1>54. CASE DrainIdle
  <2>1. CASE UNCHANGED <<idle, held>>
    BY <1>54, <2>1 DEF DrainIdle, Lease!leaseVars
  <2>2. CASE ~UNCHANGED <<idle, held>>
    <3>1. PICK d \in idle : TakeIdle(d)
      BY <1>54, <2>2 DEF DrainIdle
    <3>2. Lease!Take("manager", d)
      BY <1>54, <1>0, <3>1 DEF DrainIdle, TakeIdle, Lease!Take
    <3> QED
      BY <1>0, <3>2, LeaseSteps
  <2> QED
    BY <2>1, <2>2
<1>55. CASE DrainPut
  <2>1. PICK p \in Callers \cup {"spawner"} :
              pc[p] = "put" /\ held' = [held EXCEPT !["manager"] = held[p], ![p] = NoDriver]
    BY <1>55, Zenon DEF DrainPut, RecvPut, Putters
  <2>2. Lease!Hand(p, "manager")
    BY <1>55, <1>0, <2>1 DEF DrainPut, Lease!Hand
  <2> QED
    BY <2>2, LeaseSteps
<1> HIDE DEF Callers, Procs, Manager, vars, procVars, chanVars, driverVars, counterVars,
           requestVars, localVars, boundVars, selectRest,
           Holding, HoldLabels, Registration, Exclusive, Accounted
<1> QED
  BY NextActions, <1>1, <1>2, <1>3, <1>4, <1>5, <1>6, <1>7, <1>8, <1>9,
     <1>10, <1>11, <1>12, <1>13, <1>14, <1>15, <1>16, <1>17, <1>18, <1>19,
     <1>20, <1>21, <1>22, <1>23, <1>24, <1>25, <1>26, <1>27, <1>28, <1>29,
     <1>30, <1>31, <1>32, <1>33, <1>34, <1>35, <1>36, <1>37, <1>38, <1>39,
     <1>40, <1>41, <1>42, <1>43, <1>44, <1>45, <1>46, <1>47, <1>48, <1>49,
     <1>50, <1>51, <1>52, <1>53, <1>54, <1>55

\* The lease's invariant, which its own steps preserve, carries over to the pool.
LEMMA LeaseStepInPool ==
    ASSUME TypeOK, Places, Holding, Registration, Exclusive, Accounted,
           RunningCount, [Next]_vars
    PROVE  (Exclusive /\ Accounted /\ RunningCount)'
<1>2. \A S : Lease!Cardinality(S) = Cardinality(S)
  BY DEF Cardinality, Lease!Cardinality
<1> USE DEF Exclusive, Accounted, RunningCount, Held, Lease!LeaseInv, Lease!Exclusive,
            Lease!Accounted, Lease!RunningCount, Lease!Owned
<1>3. Lease!LeaseInv
  BY <1>2 DEF TypeOK, Lease!LeaseType
<1>4. [Lease!LeaseNext]_Lease!leaseVars
  BY LeaseRefines
<1>5. Lease!LeaseInv'
  BY <1>3, <1>4, LeaseStep
<1> QED
  BY <1>2, <1>5

\* The initial state satisfies Ownership.
LEMMA OwnershipInit == Init => Ownership
<1>1. Init => Registration /\ Exclusive /\ Accounted /\ RunningCount
  BY FS_EmptySet, ClientsAssumption
  DEF Init, Registration, Exclusive, Accounted, Held, RunningCount, Procs, Callers
<1> QED
  BY <1>1, BaseInit DEF Ownership

\* Every step keeps Ownership.
LEMMA OwnershipStep == Ownership /\ [Next]_vars => Ownership'
  BY TypeStep, PlacesStep, HoldingStep, RegistrationStep, LeaseStepInPool DEF Ownership

\* Ownership holds in every reachable state.
THEOREM OwnershipInvariant == Spec => []Ownership
  BY OwnershipInit, OwnershipStep, PTL DEF Spec

\* A driver never has two owners, so it never gets concurrent requests: for any
\* number of clients, drivers, target, faults and parse timeouts.
THEOREM DriversExclusive == Spec => []Exclusive
<1>1. Ownership => Exclusive
  BY DEF Ownership
<1> QED
  BY <1>1, OwnershipInvariant, PTL

\* No registered driver and no running container is lost by the pool.
THEOREM DriversAccounted == Spec => []Accounted
<1>1. Ownership => Accounted
  BY DEF Ownership
<1> QED
  BY <1>1, OwnershipInvariant, PTL

\* The counter running is the size of drivers.all less the repeated kills.
THEOREM RunningAccounted == Spec => []RunningCount
<1>1. Ownership => RunningCount
  BY DEF Ownership
<1> QED
  BY <1>1, OwnershipInvariant, PTL

\* The pool implements the lease: its initial state is the lease's, and each of
\* its steps is a step of the lease or leaves the lease's variables alone.
THEOREM PoolImplementsLease == Spec => LeasePromise
<1>1. Init => Lease!LeaseInit
  BY DEF Init, Lease!LeaseInit
<1>2. Ownership /\ [Next]_vars => [Lease!LeaseNext]_Lease!leaseVars
  BY LeaseRefines DEF Ownership
<1> QED
  BY <1>1, <1>2, OwnershipInvariant, PTL DEF Spec, LeasePromise, Lease!LeaseSpec
===============================================================================
