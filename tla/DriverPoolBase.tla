---------------------------- MODULE DriverPoolBase ----------------------------
(***************************************************************************)
(* The base of the inductive invariant of DriverPool: TypeOK, Places and   *)
(* Holding are preserved by every step.                                    *)
(***************************************************************************)
EXTENDS DriverPoolInv, TLAPS

\* The disjuncts of Next, one by one.
LEMMA NextActions ==
    ASSUME Next
    PROVE  \/ \E c \in Clients : ExecuteCtx(c) \/ Execute(c) \/ ParseTimeout(c)
           \/ \E c \in Callers : Cancel(c) \/ GetIdle(c) \/ LeaveGetIdle(c)
           \/ \E d \in Drivers : Exit(d)
           \/ \E p \in Callers \cup {"spawner"} : CheckStatus(p) \/ PutClosed(p)
           \/ \E p \in Callers \cup {"spawner", "manager"} : KillDriver(p) \/ StopDriver(p)
           \/ SpawnerStop \/ SpawnCount \/ Factory \/ Register \/ SpawnFailed
           \/ PolicyStop \/ SignalRescale \/ \E t \in 0..MaxTarget : PolicyTick(t)
           \/ CallStop
           \/ \E s \in Stoppers \cup {"starter"} : StopSelect(s) \/ CancelPool(s) \/ StopWait(s)
           \/ ManagePut \/ ManageGet \/ ManageRescale \/ ManageStop \/ SetIdle
           \/ ScaleDiff \/ WaitOrScale \/ CheckRunning \/ PeekIdle \/ ReturnDriver
           \/ ScaleUpPut \/ ScaleUpSpawn \/ RequestFailed \/ RequestCancelled
           \/ ScaleDownPut \/ ScaleDownRescale
           \/ Scale \/ RescaleLater \/ ScaleStop \/ DownPut \/ DownDefault \/ DownPeek
           \/ UpSpawn \/ UpPut \/ UpDiff \/ UpWait
           \/ DrainIdle \/ DrainRunning \/ DrainPut \/ DrainDone \/ CloseStopped
  BY SMTT(30) DEF Callers, Next, ClientStep, CallerStep, SpawnerStep, PolicyStep, StopperStep, ManagerStep

\* Every step keeps the state well formed.  spawnOne registers, and setIdle
\* makes idle, a driver that the goroutine owns.
LEMMA TypeStep ==
    ASSUME TypeOK, Holding, [Next]_vars
    PROVE  TypeOK'
<1> USE ClientsAssumption, DriversAssumption, BoundsAssumption, SMTT(30), ZenonT(60)
    DEF    Callers, Procs, Manager, vars, procVars, chanVars, driverVars, counterVars,
           requestVars, localVars, boundVars, selectRest
<1> USE DEF TypeOK, Labels
<1>0. \A p \in Procs : pc[p] \in {"register", "setIdle"} => held[p] \in Drivers
  BY DEF Holding, HoldLabels
<1>1. ASSUME NEW c \in Clients, ExecuteCtx(c) PROVE TypeOK'
  BY <1>1 DEF ExecuteCtx, Goto
<1>2. ASSUME NEW c \in Clients, Execute(c) PROVE TypeOK'
  BY <1>2 DEF Execute, Goto
<1>3. ASSUME NEW c \in Clients, ParseTimeout(c) PROVE TypeOK'
  BY <1>3 DEF ParseTimeout, Goto
<1>4. ASSUME NEW c \in Callers, Cancel(c) PROVE TypeOK'
  BY <1>4 DEF Cancel
<1>5. ASSUME NEW c \in Callers, GetIdle(c) PROVE TypeOK'
  BY <1>5 DEF GetIdle, Goto, GetFailed
<1>6. ASSUME NEW c \in Callers, LeaveGetIdle(c) PROVE TypeOK'
  BY <1>6 DEF LeaveGetIdle, Goto, GetFailed
<1>7. ASSUME NEW d \in Drivers, Exit(d) PROVE TypeOK'
  BY <1>7 DEF Exit
<1>8. ASSUME NEW p \in Callers \cup {"spawner"}, CheckStatus(p) PROVE TypeOK'
  BY <1>8 DEF CheckStatus, Goto, GetDone, PutFailed
<1>9. ASSUME NEW p \in Callers \cup {"spawner"}, PutClosed(p) PROVE TypeOK'
  BY <1>9 DEF PutClosed, Goto, PutFailed
<1>10. ASSUME NEW p \in Callers \cup {"spawner", "manager"}, KillDriver(p) PROVE TypeOK'
  BY <1>10 DEF KillDriver, Goto
<1>11. ASSUME NEW p \in Callers \cup {"spawner", "manager"}, StopDriver(p) PROVE TypeOK'
  BY <1>11 DEF StopDriver, Goto
<1>12. CASE SpawnerStop
  BY <1>12 DEF SpawnerStop, Goto
<1>13. CASE SpawnCount
  BY <1>13 DEF SpawnCount, Goto
<1>14. CASE Factory
  BY <1>14 DEF Factory, Goto, Held
<1>15. CASE Register
  BY <1>15, <1>0 DEF Register, Goto
<1>16. CASE SpawnFailed
  BY <1>16 DEF SpawnFailed, Goto
<1>17. CASE PolicyStop
  BY <1>17 DEF PolicyStop, Goto
<1>18. ASSUME NEW t \in 0..MaxTarget, PolicyTick(t) PROVE TypeOK'
  BY <1>18 DEF PolicyTick, Goto
<1>19. CASE SignalRescale
  BY <1>19 DEF SignalRescale, Goto
<1>20. CASE CallStop
  BY <1>20 DEF CallStop, Goto
<1>21. ASSUME NEW s \in Stoppers \cup {"starter"}, StopSelect(s) PROVE TypeOK'
  BY <1>21 DEF StopSelect, Goto
<1>22. ASSUME NEW s \in Stoppers \cup {"starter"}, CancelPool(s) PROVE TypeOK'
  BY <1>22 DEF CancelPool, Goto
<1>23. ASSUME NEW s \in Stoppers \cup {"starter"}, StopWait(s) PROVE TypeOK'
  BY <1>23 DEF StopWait, Goto
<1>24. CASE ManagePut
  BY <1>24 DEF ManagePut, RecvPut, Putters, PutDone
<1>25. CASE ManageGet
  BY <1>25 DEF ManageGet, RecvGet
<1>26. CASE ManageRescale
  BY <1>26, Zenon DEF ManageRescale, Goto
<1>27. CASE ManageStop
  BY <1>27 DEF ManageStop, Goto
<1>28. CASE SetIdle
  BY <1>28, <1>0 DEF SetIdle, Goto
<1>29. CASE ScaleDiff
  BY <1>29 DEF ScaleDiff, Goto
<1>30. CASE WaitOrScale
  BY <1>30 DEF WaitOrScale, Goto
<1>31. CASE CheckRunning
  BY <1>31 DEF CheckRunning, Goto, SendErr
<1>32. CASE PeekIdle
  BY <1>32 DEF PeekIdle, Goto, TakeIdle
<1>33. CASE ReturnDriver
  BY <1>33 DEF ReturnDriver, Goto, Cancelled
<1>34. CASE ScaleUpPut
  BY <1>34 DEF ScaleUpPut, RecvPut, Putters, PutDone
<1>35. CASE ScaleUpSpawn
  BY <1>35 DEF ScaleUpSpawn, SendSpawn
<1>36. CASE RequestFailed
  BY <1>36 DEF RequestFailed, RecvSpawnErr, SendErr
<1>37. CASE RequestCancelled
  BY <1>37 DEF RequestCancelled, Goto, Cancelled
<1>38. CASE ScaleDownPut
  BY <1>38 DEF ScaleDownPut, RecvPut, Putters, PutDone
<1>39. CASE ScaleDownRescale
  <2>1. pc' \in [Procs -> Labels]
    BY <1>39 DEF ScaleDownRescale, Goto
  <2>2. UNCHANGED <<held, ret, closed, stopped, idle, all, up, running, spawning,
                    requests, targetSize, req, i, ctxDone, errc, faults,
                    parseKills, repeats>>
    BY <1>39 DEF ScaleDownRescale
  <2>3. rescale' \in BOOLEAN
    BY <1>39, Zenon DEF ScaleDownRescale
  <2>4. dn' = 0 /\ targetSize # 0
    BY <1>39 DEF ScaleDownRescale
  <2> QED
    BY <2>1, <2>2, <2>3, <2>4
<1>40. CASE Scale
  BY <1>40 DEF Scale, Goto
<1>41. CASE RescaleLater
  BY <1>41 DEF RescaleLater, RecvGet, LeaveScale
<1>42. CASE ScaleStop
  BY <1>42 DEF ScaleStop, Goto, LeaveScale
<1>43. CASE DownPut
  BY <1>43 DEF DownPut, RecvPut, Putters, PutDone, CountDown
<1>44. CASE DownDefault
  BY <1>44 DEF DownDefault, Goto
<1>45. CASE DownPeek
  BY <1>45 DEF DownPeek, Goto, TakeIdle, CountDown
<1>46. CASE UpSpawn
  BY <1>46 DEF UpSpawn, SendSpawn
<1>47. CASE UpPut
  BY <1>47 DEF UpPut, RecvPut, Putters, PutDone
<1>48. CASE UpDiff
  BY <1>48 DEF UpDiff, Goto, LeaveScale
<1>49. CASE UpWait
  BY <1>49 DEF UpWait, RecvPut, Putters, PutDone, RecvSpawnErr
<1>50. CASE DrainIdle
  BY <1>50 DEF DrainIdle, Goto, TakeIdle
<1>51. CASE DrainRunning
  BY <1>51 DEF DrainRunning, Goto
<1>52. CASE DrainPut
  BY <1>52 DEF DrainPut, RecvPut, Putters, PutDone
<1>53. CASE DrainDone
  BY <1>53 DEF DrainDone, Goto
<1>54. CASE CloseStopped
  BY <1>54 DEF CloseStopped
<1>55. CASE UNCHANGED vars
  BY <1>55
<1> HIDE DEF Callers, Procs, Manager, vars, procVars, chanVars, driverVars, counterVars,
           requestVars, localVars, boundVars, selectRest,
           TypeOK, Labels
<1> QED
  BY NextActions, <1>1, <1>2, <1>3, <1>4, <1>5, <1>6, <1>7, <1>8, <1>9,
     <1>10, <1>11, <1>12, <1>13, <1>14, <1>15, <1>16, <1>17, <1>18, <1>19,
     <1>20, <1>21, <1>22, <1>23, <1>24, <1>25, <1>26, <1>27, <1>28, <1>29,
     <1>30, <1>31, <1>32, <1>33, <1>34, <1>35, <1>36, <1>37, <1>38, <1>39,
     <1>40, <1>41, <1>42, <1>43, <1>44, <1>45, <1>46, <1>47, <1>48, <1>49,
     <1>50, <1>51, <1>52, <1>53, <1>54, <1>55

\* Every goroutine stays within its own labels.
LEMMA PlacesStep ==
    ASSUME TypeOK, Places, [Next]_vars
    PROVE  Places'
<1> USE ClientsAssumption, SMTT(30), ZenonT(60)
    DEF    Callers, Procs, Manager, vars, procVars, chanVars, driverVars, counterVars,
           requestVars, localVars, boundVars, selectRest
<1> USE DEF Places, Killing, CallerLabels, SpawnerLabels, ManagerLabels,
           OtherLabels
<1>0. pc \in [Procs -> Labels] /\ ret \in [Procs -> Labels] /\ req \in Callers \cup {NoReq}
  BY DEF TypeOK
<1>1. ASSUME NEW c \in Clients, ExecuteCtx(c) PROVE Places'
  BY <1>1, <1>0 DEF ExecuteCtx, Goto
<1>2. ASSUME NEW c \in Clients, Execute(c) PROVE Places'
  BY <1>2, <1>0 DEF Execute, Goto
<1>3. ASSUME NEW c \in Clients, ParseTimeout(c) PROVE Places'
  BY <1>3, <1>0 DEF ParseTimeout, Goto
<1>4. ASSUME NEW c \in Callers, Cancel(c) PROVE Places'
  BY <1>4, <1>0 DEF Cancel
<1>5. ASSUME NEW c \in Callers, GetIdle(c) PROVE Places'
  BY <1>5, <1>0 DEF GetIdle, Goto, GetFailed
<1>6. ASSUME NEW c \in Callers, LeaveGetIdle(c) PROVE Places'
  BY <1>6, <1>0 DEF LeaveGetIdle, Goto, GetFailed
<1>7. ASSUME NEW d \in Drivers, Exit(d) PROVE Places'
  BY <1>7, <1>0 DEF Exit
<1>8. ASSUME NEW p \in Callers \cup {"spawner"}, CheckStatus(p) PROVE Places'
  BY <1>8, <1>0 DEF CheckStatus, Goto, GetDone, PutFailed
<1>9. ASSUME NEW p \in Callers \cup {"spawner"}, PutClosed(p) PROVE Places'
  BY <1>9, <1>0 DEF PutClosed, Goto, PutFailed
<1>10. ASSUME NEW p \in Callers \cup {"spawner", "manager"}, KillDriver(p) PROVE Places'
  BY <1>10, <1>0 DEF KillDriver, Goto
<1>11. ASSUME NEW p \in Callers \cup {"spawner", "manager"}, StopDriver(p) PROVE Places'
  BY <1>11, <1>0 DEF StopDriver, Goto
<1>12. CASE SpawnerStop
  BY <1>12, <1>0 DEF SpawnerStop, Goto
<1>13. CASE SpawnCount
  BY <1>13, <1>0 DEF SpawnCount, Goto
<1>14. CASE Factory
  BY <1>14, <1>0 DEF Factory, Goto, Held
<1>15. CASE Register
  BY <1>15, <1>0 DEF Register, Goto
<1>16. CASE SpawnFailed
  BY <1>16, <1>0 DEF SpawnFailed, Goto
<1>17. CASE PolicyStop
  BY <1>17, <1>0 DEF PolicyStop, Goto
<1>18. ASSUME NEW t \in 0..MaxTarget, PolicyTick(t) PROVE Places'
  BY <1>18, <1>0 DEF PolicyTick, Goto
<1>19. CASE SignalRescale
  BY <1>19, <1>0 DEF SignalRescale, Goto
<1>20. CASE CallStop
  BY <1>20, <1>0 DEF CallStop, Goto
<1>21. ASSUME NEW s \in Stoppers \cup {"starter"}, StopSelect(s) PROVE Places'
  BY <1>21, <1>0 DEF StopSelect, Goto
<1>22. ASSUME NEW s \in Stoppers \cup {"starter"}, CancelPool(s) PROVE Places'
  BY <1>22, <1>0 DEF CancelPool, Goto
<1>23. ASSUME NEW s \in Stoppers \cup {"starter"}, StopWait(s) PROVE Places'
  BY <1>23, <1>0 DEF StopWait, Goto
<1>24. CASE ManagePut
  BY <1>24, <1>0 DEF ManagePut, RecvPut, Putters, PutDone
<1>25. CASE ManageGet
  BY <1>25, <1>0 DEF ManageGet, RecvGet
<1>26. CASE ManageRescale
  BY <1>26, <1>0 DEF ManageRescale, Goto
<1>27. CASE ManageStop
  BY <1>27, <1>0 DEF ManageStop, Goto
<1>28. CASE SetIdle
  BY <1>28, <1>0 DEF SetIdle, Goto
<1>29. CASE ScaleDiff
  BY <1>29, <1>0 DEF ScaleDiff, Goto
<1>30. CASE WaitOrScale
  BY <1>30, <1>0 DEF WaitOrScale, Goto
<1>31. CASE CheckRunning
  BY <1>31, <1>0 DEF CheckRunning, Goto, SendErr
<1>32. CASE PeekIdle
  BY <1>32, <1>0 DEF PeekIdle, Goto, TakeIdle
<1>33. CASE ReturnDriver
  BY <1>33, <1>0 DEF ReturnDriver, Goto, Cancelled
<1>34. CASE ScaleUpPut
  BY <1>34, <1>0 DEF ScaleUpPut, RecvPut, Putters, PutDone
<1>35. CASE ScaleUpSpawn
  BY <1>35, <1>0 DEF ScaleUpSpawn, SendSpawn
<1>36. CASE RequestFailed
  BY <1>36, <1>0 DEF RequestFailed, RecvSpawnErr, SendErr
<1>37. CASE RequestCancelled
  BY <1>37, <1>0 DEF RequestCancelled, Goto, Cancelled
<1>38. CASE ScaleDownPut
  BY <1>38, <1>0 DEF ScaleDownPut, RecvPut, Putters, PutDone
<1>39. CASE ScaleDownRescale
  BY <1>39, <1>0 DEF ScaleDownRescale, Goto
<1>40. CASE Scale
  BY <1>40, <1>0 DEF Scale, Goto
<1>41. CASE RescaleLater
  BY <1>41, <1>0 DEF RescaleLater, RecvGet, LeaveScale
<1>42. CASE ScaleStop
  BY <1>42, <1>0 DEF ScaleStop, Goto, LeaveScale
<1>43. CASE DownPut
  BY <1>43, <1>0 DEF DownPut, RecvPut, Putters, PutDone, CountDown
<1>44. CASE DownDefault
  BY <1>44, <1>0 DEF DownDefault, Goto
<1>45. CASE DownPeek
  BY <1>45, <1>0 DEF DownPeek, Goto, TakeIdle, CountDown
<1>46. CASE UpSpawn
  BY <1>46, <1>0 DEF UpSpawn, SendSpawn
<1>47. CASE UpPut
  BY <1>47, <1>0 DEF UpPut, RecvPut, Putters, PutDone
<1>48. CASE UpDiff
  BY <1>48, <1>0 DEF UpDiff, Goto, LeaveScale
<1>49. CASE UpWait
  BY <1>49, <1>0 DEF UpWait, RecvPut, Putters, PutDone, RecvSpawnErr
<1>50. CASE DrainIdle
  BY <1>50, <1>0 DEF DrainIdle, Goto, TakeIdle
<1>51. CASE DrainRunning
  BY <1>51, <1>0 DEF DrainRunning, Goto
<1>52. CASE DrainPut
  BY <1>52, <1>0 DEF DrainPut, RecvPut, Putters, PutDone
<1>53. CASE DrainDone
  BY <1>53, <1>0 DEF DrainDone, Goto
<1>54. CASE CloseStopped
  BY <1>54, <1>0 DEF CloseStopped
<1>55. CASE UNCHANGED vars
  BY <1>55, <1>0
<1> HIDE DEF Callers, Procs, Manager, vars, procVars, chanVars, driverVars, counterVars,
           requestVars, localVars, boundVars, selectRest,
           Places, Killing, CallerLabels, SpawnerLabels, ManagerLabels,
           OtherLabels
<1> QED
  BY NextActions, <1>1, <1>2, <1>3, <1>4, <1>5, <1>6, <1>7, <1>8, <1>9,
     <1>10, <1>11, <1>12, <1>13, <1>14, <1>15, <1>16, <1>17, <1>18, <1>19,
     <1>20, <1>21, <1>22, <1>23, <1>24, <1>25, <1>26, <1>27, <1>28, <1>29,
     <1>30, <1>31, <1>32, <1>33, <1>34, <1>35, <1>36, <1>37, <1>38, <1>39,
     <1>40, <1>41, <1>42, <1>43, <1>44, <1>45, <1>46, <1>47, <1>48, <1>49,
     <1>50, <1>51, <1>52, <1>53, <1>54, <1>55

\* A goroutine takes, receives and gives up its driver together with the change
\* of label.
LEMMA HoldingStep ==
    ASSUME TypeOK, Places, Holding, [Next]_vars
    PROVE  Holding'
<1> USE ClientsAssumption, DriversAssumption, SMTT(30), ZenonT(60)
    DEF    Callers, Procs, Manager, vars, procVars, chanVars, driverVars, counterVars,
           requestVars, localVars, boundVars, selectRest
<1> USE DEF Places, Holding, HoldLabels, Killing
<1>0. /\ pc \in [Procs -> Labels] /\ ret \in [Procs -> Labels]
      /\ held \in [Procs -> Drivers \cup {NoDriver}]
      /\ idle \subseteq Drivers /\ req \in Callers \cup {NoReq}
  BY DEF TypeOK
<1>1. ASSUME NEW c \in Clients, ExecuteCtx(c) PROVE Holding'
  BY <1>1, <1>0 DEF ExecuteCtx, Goto
<1>2. ASSUME NEW c \in Clients, Execute(c) PROVE Holding'
  BY <1>2, <1>0 DEF Execute, Goto
<1>3. ASSUME NEW c \in Clients, ParseTimeout(c) PROVE Holding'
  BY <1>3, <1>0 DEF ParseTimeout, Goto
<1>4. ASSUME NEW c \in Callers, Cancel(c) PROVE Holding'
  BY <1>4, <1>0 DEF Cancel
<1>5. ASSUME NEW c \in Callers, GetIdle(c) PROVE Holding'
  BY <1>5, <1>0 DEF GetIdle, Goto, GetFailed
<1>6. ASSUME NEW c \in Callers, LeaveGetIdle(c) PROVE Holding'
  BY <1>6, <1>0 DEF LeaveGetIdle, Goto, GetFailed
<1>7. ASSUME NEW d \in Drivers, Exit(d) PROVE Holding'
  BY <1>7, <1>0 DEF Exit
<1>8. ASSUME NEW p \in Callers \cup {"spawner"}, CheckStatus(p) PROVE Holding'
  BY <1>8, <1>0 DEF CheckStatus, Goto, GetDone, PutFailed
<1>9. ASSUME NEW p \in Callers \cup {"spawner"}, PutClosed(p) PROVE Holding'
  BY <1>9, <1>0 DEF PutClosed, Goto, PutFailed
<1>10. ASSUME NEW p \in Callers \cup {"spawner", "manager"}, KillDriver(p) PROVE Holding'
  BY <1>10, <1>0 DEF KillDriver, Goto
<1>11. ASSUME NEW p \in Callers \cup {"spawner", "manager"}, StopDriver(p) PROVE Holding'
  BY <1>11, <1>0 DEF StopDriver, Goto
<1>12. CASE SpawnerStop
  BY <1>12, <1>0 DEF SpawnerStop, Goto
<1>13. CASE SpawnCount
  BY <1>13, <1>0 DEF SpawnCount, Goto
<1>14. CASE Factory
  BY <1>14, <1>0 DEF Factory, Goto, Held
<1>15. CASE Register
  BY <1>15, <1>0 DEF Register, Goto
<1>16. CASE SpawnFailed
  BY <1>16, <1>0 DEF SpawnFailed, Goto
<1>17. CASE PolicyStop
  BY <1>17, <1>0 DEF PolicyStop, Goto
<1>18. ASSUME NEW t \in 0..MaxTarget, PolicyTick(t) PROVE Holding'
  BY <1>18, <1>0 DEF PolicyTick, Goto
<1>19. CASE SignalRescale
  BY <1>19, <1>0 DEF SignalRescale, Goto
<1>20. CASE CallStop
  BY <1>20, <1>0 DEF CallStop, Goto
<1>21. ASSUME NEW s \in Stoppers \cup {"starter"}, StopSelect(s) PROVE Holding'
  BY <1>21, <1>0 DEF StopSelect, Goto
<1>22. ASSUME NEW s \in Stoppers \cup {"starter"}, CancelPool(s) PROVE Holding'
  BY <1>22, <1>0 DEF CancelPool, Goto
<1>23. ASSUME NEW s \in Stoppers \cup {"starter"}, StopWait(s) PROVE Holding'
  BY <1>23, <1>0 DEF StopWait, Goto
<1>24. CASE ManagePut
  BY <1>24, <1>0 DEF ManagePut, RecvPut, Putters, PutDone
<1>25. CASE ManageGet
  BY <1>25, <1>0 DEF ManageGet, RecvGet
<1>26. CASE ManageRescale
  BY <1>26, <1>0 DEF ManageRescale, Goto
<1>27. CASE ManageStop
  BY <1>27, <1>0 DEF ManageStop, Goto
<1>28. CASE SetIdle
  BY <1>28, <1>0 DEF SetIdle, Goto
<1>29. CASE ScaleDiff
  BY <1>29, <1>0 DEF ScaleDiff, Goto
<1>30. CASE WaitOrScale
  BY <1>30, <1>0 DEF WaitOrScale, Goto
<1>31. CASE CheckRunning
  BY <1>31, <1>0 DEF CheckRunning, Goto, SendErr
<1>32. CASE PeekIdle
  BY <1>32, <1>0 DEF PeekIdle, Goto, TakeIdle
<1>33. CASE ReturnDriver
  BY <1>33, <1>0 DEF ReturnDriver, Goto, Cancelled
<1>34. CASE ScaleUpPut
  BY <1>34, <1>0 DEF ScaleUpPut, RecvPut, Putters, PutDone
<1>35. CASE ScaleUpSpawn
  BY <1>35, <1>0 DEF ScaleUpSpawn, SendSpawn
<1>36. CASE RequestFailed
  BY <1>36, <1>0 DEF RequestFailed, RecvSpawnErr, SendErr
<1>37. CASE RequestCancelled
  BY <1>37, <1>0 DEF RequestCancelled, Goto, Cancelled
<1>38. CASE ScaleDownPut
  BY <1>38, <1>0 DEF ScaleDownPut, RecvPut, Putters, PutDone
<1>39. CASE ScaleDownRescale
  BY <1>39, <1>0 DEF ScaleDownRescale, Goto
<1>40. CASE Scale
  BY <1>40, <1>0 DEF Scale, Goto
<1>41. CASE RescaleLater
  BY <1>41, <1>0 DEF RescaleLater, RecvGet, LeaveScale
<1>42. CASE ScaleStop
  BY <1>42, <1>0 DEF ScaleStop, Goto, LeaveScale
<1>43. CASE DownPut
  BY <1>43, <1>0 DEF DownPut, RecvPut, Putters, PutDone, CountDown
<1>44. CASE DownDefault
  BY <1>44, <1>0 DEF DownDefault, Goto
<1>45. CASE DownPeek
  BY <1>45, <1>0 DEF DownPeek, Goto, TakeIdle, CountDown
<1>46. CASE UpSpawn
  BY <1>46, <1>0 DEF UpSpawn, SendSpawn
<1>47. CASE UpPut
  BY <1>47, <1>0 DEF UpPut, RecvPut, Putters, PutDone
<1>48. CASE UpDiff
  BY <1>48, <1>0 DEF UpDiff, Goto, LeaveScale
<1>49. CASE UpWait
  BY <1>49, <1>0 DEF UpWait, RecvPut, Putters, PutDone, RecvSpawnErr
<1>50. CASE DrainIdle
  BY <1>50, <1>0 DEF DrainIdle, Goto, TakeIdle
<1>51. CASE DrainRunning
  BY <1>51, <1>0 DEF DrainRunning, Goto
<1>52. CASE DrainPut
  BY <1>52, <1>0 DEF DrainPut, RecvPut, Putters, PutDone
<1>53. CASE DrainDone
  BY <1>53, <1>0 DEF DrainDone, Goto
<1>54. CASE CloseStopped
  BY <1>54, <1>0 DEF CloseStopped
<1>55. CASE UNCHANGED vars
  BY <1>55, <1>0
<1> HIDE DEF Callers, Procs, Manager, vars, procVars, chanVars, driverVars, counterVars,
           requestVars, localVars, boundVars, selectRest,
           Places, Holding, HoldLabels, Killing
<1> QED
  BY NextActions, <1>1, <1>2, <1>3, <1>4, <1>5, <1>6, <1>7, <1>8, <1>9,
     <1>10, <1>11, <1>12, <1>13, <1>14, <1>15, <1>16, <1>17, <1>18, <1>19,
     <1>20, <1>21, <1>22, <1>23, <1>24, <1>25, <1>26, <1>27, <1>28, <1>29,
     <1>30, <1>31, <1>32, <1>33, <1>34, <1>35, <1>36, <1>37, <1>38, <1>39,
     <1>40, <1>41, <1>42, <1>43, <1>44, <1>45, <1>46, <1>47, <1>48, <1>49,
     <1>50, <1>51, <1>52, <1>53, <1>54, <1>55, Zenon

\* The initial state satisfies the base.
LEMMA BaseInit == Init => TypeOK /\ Places /\ Holding
<1> USE ClientsAssumption, SMTT(30), ZenonT(60) DEF Init, Callers, Procs, Manager
<1>1. Init => TypeOK
  <2> SUFFICES ASSUME Init PROVE TypeOK
    BY Zenon
  <2>1. pc \in [Procs -> Labels] /\ ret \in [Procs -> Labels]
    BY DEF Labels
  <2>2. /\ held \in [Procs -> Drivers \cup {NoDriver}]
        /\ errc \in [Callers -> {"none", "spawnErr", "poolClosed"}]
    OBVIOUS
  <2>3. closed \in BOOLEAN /\ stopped \in BOOLEAN /\ rescale \in BOOLEAN
    BY Zenon
  <2>4. targetSize \in 1..MaxTarget /\ faults \in 0..MaxFaults /\ parseKills \in 0..MaxParseKills
    BY BoundsAssumption
  <2> QED
    BY <2>1, <2>2, <2>3, <2>4, BoundsAssumption DEF TypeOK
<1>2. Init => Places
  BY DEF Places, Killing, CallerLabels, SpawnerLabels, ManagerLabels, OtherLabels
<1>3. Init => Holding
  BY DEF Holding, HoldLabels
<1> QED
  BY <1>1, <1>2, <1>3

\* Type correctness of the pool, for any clients, drivers and bounds: in
\* particular targetSize is 0 only after drain.
THEOREM TypeCorrect == Spec => []TypeOK
<1>1. TypeOK /\ Places /\ Holding /\ [Next]_vars => (TypeOK /\ Places /\ Holding)'
  BY TypeStep, PlacesStep, HoldingStep
<1> QED
  BY BaseInit, <1>1, PTL DEF Spec
===============================================================================
