-------------------------- MODULE DriverPoolService --------------------------
(***************************************************************************)
(* The rest of the inductive invariant of DriverPool: the requests in      *)
(* flight, the room for new instances, and what drain leaves behind.       *)
(***************************************************************************)
EXTENDS DriverPoolLease

\* The manager serves one request at a time, and lets go of it only when it has
\* answered or when the caller has left.
LEMMA RequestsStep ==
    ASSUME TypeOK, Places, Requests, [Next]_vars
    PROVE  Requests'
<1> USE ClientsAssumption, SMTT(30), ZenonT(60)
    DEF    Callers, Procs, Manager, vars, procVars, chanVars, driverVars, counterVars,
           requestVars, localVars, boundVars, selectRest
<1> USE DEF Places, Requests, NoForgottenRequest, Serving, Killing, ManagerLabels
<1>0. /\ pc \in [Procs -> Labels] /\ ret \in [Procs -> Labels]
      /\ req \in Callers \cup {NoReq} /\ ctxDone \subseteq Callers
      /\ errc \in [Callers -> {"none", "spawnErr", "poolClosed"}]
  BY DEF TypeOK
<1>1. ASSUME NEW c \in Clients, ExecuteCtx(c) PROVE Requests'
  BY <1>1, <1>0 DEF ExecuteCtx, Goto
<1>2. ASSUME NEW c \in Clients, Execute(c) PROVE Requests'
  BY <1>2, <1>0 DEF Execute, Goto
<1>3. ASSUME NEW c \in Clients, ParseTimeout(c) PROVE Requests'
  BY <1>3, <1>0 DEF ParseTimeout, Goto
<1>4. ASSUME NEW c \in Callers, Cancel(c) PROVE Requests'
  BY <1>4, <1>0 DEF Cancel
<1>5. ASSUME NEW c \in Callers, GetIdle(c) PROVE Requests'
  BY <1>5, <1>0 DEF GetIdle, Goto, GetFailed
<1>6. ASSUME NEW c \in Callers, LeaveGetIdle(c) PROVE Requests'
  BY <1>6, <1>0 DEF LeaveGetIdle, Goto, GetFailed
<1>7. ASSUME NEW d \in Drivers, Exit(d) PROVE Requests'
  BY <1>7, <1>0 DEF Exit
<1>8. ASSUME NEW p \in Callers \cup {"spawner"}, CheckStatus(p) PROVE Requests'
  BY <1>8, <1>0 DEF CheckStatus, Goto, GetDone, PutFailed
<1>9. ASSUME NEW p \in Callers \cup {"spawner"}, PutClosed(p) PROVE Requests'
  BY <1>9, <1>0 DEF PutClosed, Goto, PutFailed
<1>10. ASSUME NEW p \in Callers \cup {"spawner", "manager"}, KillDriver(p) PROVE Requests'
  BY <1>10, <1>0 DEF KillDriver, Goto
<1>11. ASSUME NEW p \in Callers \cup {"spawner", "manager"}, StopDriver(p) PROVE Requests'
  BY <1>11, <1>0 DEF StopDriver, Goto
<1>12. CASE SpawnerStop
  BY <1>12, <1>0 DEF SpawnerStop, Goto
<1>13. CASE SpawnCount
  BY <1>13, <1>0 DEF SpawnCount, Goto
<1>14. CASE Factory
  BY <1>14, <1>0 DEF Factory, Goto, Held
<1>15. CASE Register
  BY <1>15, <1>0 DEF Register, Goto
<1>16. CASE SpawnFailed
  BY <1>16, <1>0 DEF SpawnFailed, Goto
<1>17. CASE PolicyStop
  BY <1>17, <1>0 DEF PolicyStop, Goto
<1>18. ASSUME NEW t \in 0..MaxTarget, PolicyTick(t) PROVE Requests'
  BY <1>18, <1>0 DEF PolicyTick, Goto
<1>19. CASE SignalRescale
  BY <1>19, <1>0 DEF SignalRescale, Goto
<1>20. CASE CallStop
  BY <1>20, <1>0 DEF CallStop, Goto
<1>21. ASSUME NEW s \in Stoppers \cup {"starter"}, StopSelect(s) PROVE Requests'
  BY <1>21, <1>0 DEF StopSelect, Goto
<1>22. ASSUME NEW s \in Stoppers \cup {"starter"}, CancelPool(s) PROVE Requests'
  BY <1>22, <1>0 DEF CancelPool, Goto
<1>23. ASSUME NEW s \in Stoppers \cup {"starter"}, StopWait(s) PROVE Requests'
  BY <1>23, <1>0 DEF StopWait, Goto
<1>24. CASE ManagePut
  BY <1>24, <1>0 DEF ManagePut, RecvPut, Putters, PutDone
<1>25. CASE ManageGet
  BY <1>25, <1>0 DEF ManageGet, RecvGet
<1>26. CASE ManageRescale
  BY <1>26, <1>0 DEF ManageRescale, Goto
<1>27. CASE ManageStop
  BY <1>27, <1>0 DEF ManageStop, Goto
<1>28. CASE SetIdle
  BY <1>28, <1>0 DEF SetIdle, Goto
<1>29. CASE ScaleDiff
  BY <1>29, <1>0 DEF ScaleDiff, Goto
<1>30. CASE WaitOrScale
  BY <1>30, <1>0 DEF WaitOrScale, Goto
<1>31. CASE CheckRunning
  BY <1>31, <1>0 DEF CheckRunning, Goto, SendErr
<1>32. CASE PeekIdle
  BY <1>32, <1>0 DEF PeekIdle, Goto, TakeIdle
<1>33. CASE ReturnDriver
  BY <1>33, <1>0 DEF ReturnDriver, Goto, Cancelled
<1>34. CASE ScaleUpPut
  BY <1>34, <1>0 DEF ScaleUpPut, RecvPut, Putters, PutDone
<1>35. CASE ScaleUpSpawn
  BY <1>35, <1>0 DEF ScaleUpSpawn, SendSpawn
<1>36. CASE RequestFailed
  BY <1>36, <1>0 DEF RequestFailed, RecvSpawnErr, SendErr
<1>37. CASE RequestCancelled
  BY <1>37, <1>0 DEF RequestCancelled, Goto, Cancelled
<1>38. CASE ScaleDownPut
  BY <1>38, <1>0 DEF ScaleDownPut, RecvPut, Putters, PutDone
<1>39. CASE ScaleDownRescale
  BY <1>39, <1>0 DEF ScaleDownRescale, Goto
<1>40. CASE Scale
  BY <1>40, <1>0 DEF Scale, Goto
<1>41. CASE RescaleLater
  BY <1>41, <1>0 DEF RescaleLater, RecvGet, LeaveScale
<1>42. CASE ScaleStop
  BY <1>42, <1>0 DEF ScaleStop, Goto, LeaveScale
<1>43. CASE DownPut
  BY <1>43, <1>0 DEF DownPut, RecvPut, Putters, PutDone, CountDown
<1>44. CASE DownDefault
  BY <1>44, <1>0 DEF DownDefault, Goto
<1>45. CASE DownPeek
  BY <1>45, <1>0 DEF DownPeek, Goto, TakeIdle, CountDown
<1>46. CASE UpSpawn
  BY <1>46, <1>0 DEF UpSpawn, SendSpawn
<1>47. CASE UpPut
  BY <1>47, <1>0 DEF UpPut, RecvPut, Putters, PutDone
<1>48. CASE UpDiff
  BY <1>48, <1>0 DEF UpDiff, Goto, LeaveScale
<1>49. CASE UpWait
  BY <1>49, <1>0 DEF UpWait, RecvPut, Putters, PutDone, RecvSpawnErr
<1>50. CASE DrainIdle
  BY <1>50, <1>0 DEF DrainIdle, Goto, TakeIdle
<1>51. CASE DrainRunning
  BY <1>51, <1>0 DEF DrainRunning, Goto
<1>52. CASE DrainPut
  BY <1>52, <1>0 DEF DrainPut, RecvPut, Putters, PutDone
<1>53. CASE DrainDone
  BY <1>53, <1>0 DEF DrainDone, Goto
<1>54. CASE CloseStopped
  BY <1>54, <1>0 DEF CloseStopped
<1>55. CASE UNCHANGED vars
  BY <1>55, <1>0
<1> HIDE DEF Callers, Procs, Manager, vars, procVars, chanVars, driverVars, counterVars,
           requestVars, localVars, boundVars, selectRest,
           Places, Requests, NoForgottenRequest, Serving, Killing, ManagerLabels
<1> QED
  BY NextActions, <1>1, <1>2, <1>3, <1>4, <1>5, <1>6, <1>7, <1>8, <1>9,
     <1>10, <1>11, <1>12, <1>13, <1>14, <1>15, <1>16, <1>17, <1>18, <1>19,
     <1>20, <1>21, <1>22, <1>23, <1>24, <1>25, <1>26, <1>27, <1>28, <1>29,
     <1>30, <1>31, <1>32, <1>33, <1>34, <1>35, <1>36, <1>37, <1>38, <1>39,
     <1>40, <1>41, <1>42, <1>43, <1>44, <1>45, <1>46, <1>47, <1>48, <1>49,
     <1>50, <1>51, <1>52, <1>53, <1>54, <1>55

\* A difference that the manager computed earlier stays usable: until it is
\* used, only an instance that spawnOne registers can make it too large, and
\* that instance is Registered.
LEMMA RoomStep ==
    ASSUME TypeOK, Places, Room, [Next]_vars
    PROVE  Room'
<1> USE ClientsAssumption, BoundsAssumption, SMTT(30), ZenonT(60)
    DEF    Callers, Procs, Manager, vars, procVars, chanVars, driverVars, counterVars,
           requestVars, localVars, boundVars, selectRest
<1> USE DEF Places, Room, Registered, ScalingUp, Killing, SpawnerLabels
<1>0. /\ pc \in [Procs -> Labels] /\ ret \in [Procs -> Labels]
      /\ running \in Int /\ spawning \in Int /\ dn \in Int /\ i \in Int
      /\ targetSize \in 0..MaxTarget /\ req \in Callers \cup {NoReq}
  BY DEF TypeOK
<1>1. ASSUME NEW c \in Clients, ExecuteCtx(c) PROVE Room'
  BY <1>1, <1>0 DEF ExecuteCtx, Goto
<1>2. ASSUME NEW c \in Clients, Execute(c) PROVE Room'
  BY <1>2, <1>0 DEF Execute, Goto
<1>3. ASSUME NEW c \in Clients, ParseTimeout(c) PROVE Room'
  BY <1>3, <1>0 DEF ParseTimeout, Goto
<1>4. ASSUME NEW c \in Callers, Cancel(c) PROVE Room'
  BY <1>4, <1>0 DEF Cancel
<1>5. ASSUME NEW c \in Callers, GetIdle(c) PROVE Room'
  BY <1>5, <1>0 DEF GetIdle, Goto, GetFailed
<1>6. ASSUME NEW c \in Callers, LeaveGetIdle(c) PROVE Room'
  BY <1>6, <1>0 DEF LeaveGetIdle, Goto, GetFailed
<1>7. ASSUME NEW d \in Drivers, Exit(d) PROVE Room'
  BY <1>7, <1>0 DEF Exit
<1>8. ASSUME NEW p \in Callers \cup {"spawner"}, CheckStatus(p) PROVE Room'
  BY <1>8, <1>0 DEF CheckStatus, Goto, GetDone, PutFailed
<1>9. ASSUME NEW p \in Callers \cup {"spawner"}, PutClosed(p) PROVE Room'
  BY <1>9, <1>0 DEF PutClosed, Goto, PutFailed
<1>10. ASSUME NEW p \in Callers \cup {"spawner", "manager"}, KillDriver(p) PROVE Room'
  BY <1>10, <1>0 DEF KillDriver, Goto
<1>11. ASSUME NEW p \in Callers \cup {"spawner", "manager"}, StopDriver(p) PROVE Room'
  BY <1>11, <1>0 DEF StopDriver, Goto
<1>12. CASE SpawnerStop
  BY <1>12, <1>0 DEF SpawnerStop, Goto
<1>13. CASE SpawnCount
  BY <1>13, <1>0 DEF SpawnCount, Goto
<1>14. CASE Factory
  BY <1>14, <1>0 DEF Factory, Goto, Held
<1>15. CASE Register
  BY <1>15, <1>0 DEF Register, Goto
<1>16. CASE SpawnFailed
  BY <1>16, <1>0 DEF SpawnFailed, Goto
<1>17. CASE PolicyStop
  BY <1>17, <1>0 DEF PolicyStop, Goto
<1>18. ASSUME NEW t \in 0..MaxTarget, PolicyTick(t) PROVE Room'
  BY <1>18, <1>0 DEF PolicyTick, Goto
<1>19. CASE SignalRescale
  BY <1>19, <1>0 DEF SignalRescale, Goto
<1>20. CASE CallStop
  BY <1>20, <1>0 DEF CallStop, Goto
<1>21. ASSUME NEW s \in Stoppers \cup {"starter"}, StopSelect(s) PROVE Room'
  BY <1>21, <1>0 DEF StopSelect, Goto
<1>22. ASSUME NEW s \in Stoppers \cup {"starter"}, CancelPool(s) PROVE Room'
  BY <1>22, <1>0 DEF CancelPool, Goto
<1>23. ASSUME NEW s \in Stoppers \cup {"starter"}, StopWait(s) PROVE Room'
  BY <1>23, <1>0 DEF StopWait, Goto
<1>24. CASE ManagePut
  BY <1>24, <1>0 DEF ManagePut, RecvPut, Putters, PutDone
<1>25. CASE ManageGet
  BY <1>25, <1>0 DEF ManageGet, RecvGet
<1>26. CASE ManageRescale
  BY <1>26, <1>0 DEF ManageRescale, Goto
<1>27. CASE ManageStop
  BY <1>27, <1>0 DEF ManageStop, Goto
<1>28. CASE SetIdle
  BY <1>28, <1>0 DEF SetIdle, Goto
<1>29. CASE ScaleDiff
  BY <1>29, <1>0 DEF ScaleDiff, Goto
<1>30. CASE WaitOrScale
  BY <1>30, <1>0 DEF WaitOrScale, Goto
<1>31. CASE CheckRunning
  BY <1>31, <1>0 DEF CheckRunning, Goto, SendErr
<1>32. CASE PeekIdle
  BY <1>32, <1>0 DEF PeekIdle, Goto, TakeIdle
<1>33. CASE ReturnDriver
  BY <1>33, <1>0 DEF ReturnDriver, Goto, Cancelled
<1>34. CASE ScaleUpPut
  BY <1>34, <1>0 DEF ScaleUpPut, RecvPut, Putters, PutDone
<1>35. CASE ScaleUpSpawn
  BY <1>35, <1>0 DEF ScaleUpSpawn, SendSpawn
<1>36. CASE RequestFailed
  BY <1>36, <1>0 DEF RequestFailed, RecvSpawnErr, SendErr
<1>37. CASE RequestCancelled
  BY <1>37, <1>0 DEF RequestCancelled, Goto, Cancelled
<1>38. CASE ScaleDownPut
  BY <1>38, <1>0 DEF ScaleDownPut, RecvPut, Putters, PutDone
<1>39. CASE ScaleDownRescale
  BY <1>39, <1>0 DEF ScaleDownRescale, Goto
<1>40. CASE Scale
  BY <1>40, <1>0 DEF Scale, Goto
<1>41. CASE RescaleLater
  BY <1>41, <1>0 DEF RescaleLater, RecvGet, LeaveScale
<1>42. CASE ScaleStop
  BY <1>42, <1>0 DEF ScaleStop, Goto, LeaveScale
<1>43. CASE DownPut
  BY <1>43, <1>0 DEF DownPut, RecvPut, Putters, PutDone, CountDown
<1>44. CASE DownDefault
  BY <1>44, <1>0 DEF DownDefault, Goto
<1>45. CASE DownPeek
  BY <1>45, <1>0 DEF DownPeek, Goto, TakeIdle, CountDown
<1>46. CASE UpSpawn
  BY <1>46, <1>0 DEF UpSpawn, SendSpawn
<1>47. CASE UpPut
  BY <1>47, <1>0 DEF UpPut, RecvPut, Putters, PutDone
<1>48. CASE UpDiff
  BY <1>48, <1>0 DEF UpDiff, Goto, LeaveScale
<1>49. CASE UpWait
  BY <1>49, <1>0 DEF UpWait, RecvPut, Putters, PutDone, RecvSpawnErr
<1>50. CASE DrainIdle
  BY <1>50, <1>0 DEF DrainIdle, Goto, TakeIdle
<1>51. CASE DrainRunning
  BY <1>51, <1>0 DEF DrainRunning, Goto
<1>52. CASE DrainPut
  BY <1>52, <1>0 DEF DrainPut, RecvPut, Putters, PutDone
<1>53. CASE DrainDone
  BY <1>53, <1>0 DEF DrainDone, Goto
<1>54. CASE CloseStopped
  BY <1>54, <1>0 DEF CloseStopped
<1>55. CASE UNCHANGED vars
  BY <1>55, <1>0
<1> HIDE DEF Callers, Procs, Manager, vars, procVars, chanVars, driverVars, counterVars,
           requestVars, localVars, boundVars, selectRest,
           Places, Room, Registered, ScalingUp, Killing, SpawnerLabels
<1> QED
  BY NextActions, <1>1, <1>2, <1>3, <1>4, <1>5, <1>6, <1>7, <1>8, <1>9,
     <1>10, <1>11, <1>12, <1>13, <1>14, <1>15, <1>16, <1>17, <1>18, <1>19,
     <1>20, <1>21, <1>22, <1>23, <1>24, <1>25, <1>26, <1>27, <1>28, <1>29,
     <1>30, <1>31, <1>32, <1>33, <1>34, <1>35, <1>36, <1>37, <1>38, <1>39,
     <1>40, <1>41, <1>42, <1>43, <1>44, <1>45, <1>46, <1>47, <1>48, <1>49,
     <1>50, <1>51, <1>52, <1>53, <1>54, <1>55

\* After the first loop of drain nothing becomes idle, and after the second
\* only spawnOne can register an instance.
LEMMA DrainedStep ==
    ASSUME TypeOK, Places, Drained, [Next]_vars
    PROVE  Drained'
<1> USE ClientsAssumption, SMTT(30), ZenonT(60)
    DEF    Callers, Procs, Manager, vars, procVars, chanVars, driverVars, counterVars,
           requestVars, localVars, boundVars, selectRest
<1> USE DEF Places, Drained, Registered, Killing
<1>0. /\ pc \in [Procs -> Labels] /\ ret \in [Procs -> Labels]
      /\ running \in Int /\ req \in Callers \cup {NoReq}
  BY DEF TypeOK
<1>1. ASSUME NEW c \in Clients, ExecuteCtx(c) PROVE Drained'
  BY <1>1, <1>0 DEF ExecuteCtx, Goto
<1>2. ASSUME NEW c \in Clients, Execute(c) PROVE Drained'
  BY <1>2, <1>0 DEF Execute, Goto
<1>3. ASSUME NEW c \in Clients, ParseTimeout(c) PROVE Drained'
  BY <1>3, <1>0 DEF ParseTimeout, Goto
<1>4. ASSUME NEW c \in Callers, Cancel(c) PROVE Drained'
  BY <1>4, <1>0 DEF Cancel
<1>5. ASSUME NEW c \in Callers, GetIdle(c) PROVE Drained'
  BY <1>5, <1>0 DEF GetIdle, Goto, GetFailed
<1>6. ASSUME NEW c \in Callers, LeaveGetIdle(c) PROVE Drained'
  BY <1>6, <1>0 DEF LeaveGetIdle, Goto, GetFailed
<1>7. ASSUME NEW d \in Drivers, Exit(d) PROVE Drained'
  BY <1>7, <1>0 DEF Exit
<1>8. ASSUME NEW p \in Callers \cup {"spawner"}, CheckStatus(p) PROVE Drained'
  BY <1>8, <1>0 DEF CheckStatus, Goto, GetDone, PutFailed
<1>9. ASSUME NEW p \in Callers \cup {"spawner"}, PutClosed(p) PROVE Drained'
  BY <1>9, <1>0 DEF PutClosed, Goto, PutFailed
<1>10. ASSUME NEW p \in Callers \cup {"spawner", "manager"}, KillDriver(p) PROVE Drained'
  BY <1>10, <1>0 DEF KillDriver, Goto
<1>11. ASSUME NEW p \in Callers \cup {"spawner", "manager"}, StopDriver(p) PROVE Drained'
  BY <1>11, <1>0 DEF StopDriver, Goto
<1>12. CASE SpawnerStop
  BY <1>12, <1>0 DEF SpawnerStop, Goto
<1>13. CASE SpawnCount
  BY <1>13, <1>0 DEF SpawnCount, Goto
<1>14. CASE Factory
  BY <1>14, <1>0 DEF Factory, Goto, Held
<1>15. CASE Register
  BY <1>15, <1>0 DEF Register, Goto
<1>16. CASE SpawnFailed
  BY <1>16, <1>0 DEF SpawnFailed, Goto
<1>17. CASE PolicyStop
  BY <1>17, <1>0 DEF PolicyStop, Goto
<1>18. ASSUME NEW t \in 0..MaxTarget, PolicyTick(t) PROVE Drained'
  BY <1>18, <1>0 DEF PolicyTick, Goto
<1>19. CASE SignalRescale
  BY <1>19, <1>0 DEF SignalRescale, Goto
<1>20. CASE CallStop
  BY <1>20, <1>0 DEF CallStop, Goto
<1>21. ASSUME NEW s \in Stoppers \cup {"starter"}, StopSelect(s) PROVE Drained'
  BY <1>21, <1>0 DEF StopSelect, Goto
<1>22. ASSUME NEW s \in Stoppers \cup {"starter"}, CancelPool(s) PROVE Drained'
  BY <1>22, <1>0 DEF CancelPool, Goto
<1>23. ASSUME NEW s \in Stoppers \cup {"starter"}, StopWait(s) PROVE Drained'
  BY <1>23, <1>0 DEF StopWait, Goto
<1>24. CASE ManagePut
  BY <1>24, <1>0 DEF ManagePut, RecvPut, Putters, PutDone
<1>25. CASE ManageGet
  BY <1>25, <1>0 DEF ManageGet, RecvGet
<1>26. CASE ManageRescale
  BY <1>26, <1>0 DEF ManageRescale, Goto
<1>27. CASE ManageStop
  BY <1>27, <1>0 DEF ManageStop, Goto
<1>28. CASE SetIdle
  BY <1>28, <1>0 DEF SetIdle, Goto
<1>29. CASE ScaleDiff
  BY <1>29, <1>0 DEF ScaleDiff, Goto
<1>30. CASE WaitOrScale
  BY <1>30, <1>0 DEF WaitOrScale, Goto
<1>31. CASE CheckRunning
  BY <1>31, <1>0 DEF CheckRunning, Goto, SendErr
<1>32. CASE PeekIdle
  BY <1>32, <1>0 DEF PeekIdle, Goto, TakeIdle
<1>33. CASE ReturnDriver
  BY <1>33, <1>0 DEF ReturnDriver, Goto, Cancelled
<1>34. CASE ScaleUpPut
  BY <1>34, <1>0 DEF ScaleUpPut, RecvPut, Putters, PutDone
<1>35. CASE ScaleUpSpawn
  BY <1>35, <1>0 DEF ScaleUpSpawn, SendSpawn
<1>36. CASE RequestFailed
  BY <1>36, <1>0 DEF RequestFailed, RecvSpawnErr, SendErr
<1>37. CASE RequestCancelled
  BY <1>37, <1>0 DEF RequestCancelled, Goto, Cancelled
<1>38. CASE ScaleDownPut
  BY <1>38, <1>0 DEF ScaleDownPut, RecvPut, Putters, PutDone
<1>39. CASE ScaleDownRescale
  BY <1>39, <1>0 DEF ScaleDownRescale, Goto
<1>40. CASE Scale
  BY <1>40, <1>0 DEF Scale, Goto
<1>41. CASE RescaleLater
  BY <1>41, <1>0 DEF RescaleLater, RecvGet, LeaveScale
<1>42. CASE ScaleStop
  BY <1>42, <1>0 DEF ScaleStop, Goto, LeaveScale
<1>43. CASE DownPut
  BY <1>43, <1>0 DEF DownPut, RecvPut, Putters, PutDone, CountDown
<1>44. CASE DownDefault
  BY <1>44, <1>0 DEF DownDefault, Goto
<1>45. CASE DownPeek
  BY <1>45, <1>0 DEF DownPeek, Goto, TakeIdle, CountDown
<1>46. CASE UpSpawn
  BY <1>46, <1>0 DEF UpSpawn, SendSpawn
<1>47. CASE UpPut
  BY <1>47, <1>0 DEF UpPut, RecvPut, Putters, PutDone
<1>48. CASE UpDiff
  BY <1>48, <1>0 DEF UpDiff, Goto, LeaveScale
<1>49. CASE UpWait
  BY <1>49, <1>0 DEF UpWait, RecvPut, Putters, PutDone, RecvSpawnErr
<1>50. CASE DrainIdle
  BY <1>50, <1>0 DEF DrainIdle, Goto, TakeIdle
<1>51. CASE DrainRunning
  BY <1>51, <1>0 DEF DrainRunning, Goto
<1>52. CASE DrainPut
  BY <1>52, <1>0 DEF DrainPut, RecvPut, Putters, PutDone
<1>53. CASE DrainDone
  BY <1>53, <1>0 DEF DrainDone, Goto
<1>54. CASE CloseStopped
  BY <1>54, <1>0 DEF CloseStopped
<1>55. CASE UNCHANGED vars
  BY <1>55, <1>0
<1> HIDE DEF Callers, Procs, Manager, vars, procVars, chanVars, driverVars, counterVars,
           requestVars, localVars, boundVars, selectRest,
           Places, Drained, Registered, Killing
<1> QED
  BY NextActions, <1>1, <1>2, <1>3, <1>4, <1>5, <1>6, <1>7, <1>8, <1>9,
     <1>10, <1>11, <1>12, <1>13, <1>14, <1>15, <1>16, <1>17, <1>18, <1>19,
     <1>20, <1>21, <1>22, <1>23, <1>24, <1>25, <1>26, <1>27, <1>28, <1>29,
     <1>30, <1>31, <1>32, <1>33, <1>34, <1>35, <1>36, <1>37, <1>38, <1>39,
     <1>40, <1>41, <1>42, <1>43, <1>44, <1>45, <1>46, <1>47, <1>48, <1>49,
     <1>50, <1>51, <1>52, <1>53, <1>54, <1>55

\* The inductive invariant.
LEMMA IndInit == Init => IndInv
<1>1. Init => Requests
  BY ClientsAssumption DEF Init, Requests, NoForgottenRequest, Callers, Procs
<1>2. Init => Room
  BY ClientsAssumption, BoundsAssumption DEF Init, Room, Registered, ScalingUp, Manager, Procs, Callers
<1>3. Init => Drained
  BY ClientsAssumption DEF Init, Drained, Killing, Manager, Procs, Callers
<1> QED
  BY <1>1, <1>2, <1>3, OwnershipInit DEF IndInv

\* Every step keeps the inductive invariant, layer by layer.
LEMMA IndStep == IndInv /\ [Next]_vars => IndInv'
<1> SUFFICES ASSUME IndInv, [Next]_vars PROVE IndInv'
  OBVIOUS
<1>1. TypeOK /\ Places /\ Requests /\ Room /\ Drained
  BY DEF IndInv, Ownership
<1> QED
  BY <1>1, OwnershipStep, RequestsStep, RoomStep, DrainedStep DEF IndInv

\* The inductive invariant holds in every reachable state.
THEOREM IndInvariant == Spec => []IndInv
  BY IndInit, IndStep, PTL DEF Spec

\* The manager forgets no request, whatever the interleaving of its errors with
\* cancellations and with the pool's closing.
THEOREM NoRequestForgotten == Spec => []NoForgottenRequest
<1>1. IndInv => NoForgottenRequest
  BY DEF IndInv, Requests
<1> QED
  BY <1>1, IndInvariant, PTL

\* The number of registered instances stays within the largest target, up to
\* repeated kills.
THEOREM InstancesLimited == Spec => []InstanceLimit
<1>1. ASSUME IndInv PROVE InstanceLimit
  <2>1. IsFiniteSet(all) /\ Cardinality(all) \in Nat
    BY <1>1, DriversAssumption, FS_Subset, FS_CardinalityType DEF IndInv, Ownership, TypeOK
  <2> QED
    BY <1>1, <2>1, BoundsAssumption
    DEF IndInv, Ownership, TypeOK, RunningCount, Room, InstanceLimit
<1> QED
  BY <1>1, IndInvariant, PTL

\* When the three goroutines of the pool have returned nothing is idle and
\* nothing is registered, up to repeated kills.
THEOREM ExitsClean == Spec => []ExitedClean
<1>1. ASSUME IndInv PROVE ExitedClean
  <2>1. IsFiniteSet(all) /\ Cardinality(all) \in Nat
    BY <1>1, DriversAssumption, FS_Subset, FS_CardinalityType DEF IndInv, Ownership, TypeOK
  <2> QED
    BY <1>1, <2>1
    DEF IndInv, Ownership, TypeOK, RunningCount, Drained, Registered, ExitedClean,
        GoroutinesExited, Manager
<1> QED
  BY <1>1, IndInvariant, PTL

\* When the pool is stopped every running container is in the hands of a
\* goroutine that is about to stop it.
THEOREM StopsDrained == Spec => []DrainedWhenStopped
<1>1. ASSUME IndInv PROVE DrainedWhenStopped
  <2> SUFFICES ASSUME stopped
               PROVE  idle = {} /\ \A d \in up : \E p \in Procs \ {"manager"} : held[p] = d
    BY DEF DrainedWhenStopped
  <2>1. idle = {} /\ pc["manager"] = "exited"
    BY <1>1 DEF IndInv, Drained, Manager
  <2>2. held["manager"] = NoDriver
    BY <1>1, <2>1 DEF IndInv, Ownership, Holding, HoldLabels, Procs
  <2> QED
    BY <1>1, <2>1, <2>2, DriversAssumption DEF IndInv, Ownership, TypeOK, Accounted, Held
<1> QED
  BY <1>1, IndInvariant, PTL
===============================================================================
