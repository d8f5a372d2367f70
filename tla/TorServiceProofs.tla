--------------------------- MODULE TorServiceProofs ---------------------------
(***************************************************************************)
(* For any number of pool, stop and network threads, of circuits, intents  *)
(* and queue places: ServiceInv is an invariant of TorService, and the     *)
(* safety properties of the service follow from it.  Every lemma below has *)
(* one step per action.                                                    *)
(***************************************************************************)
EXTENDS TorService, TLAPS

(* The Boolean variables keep their type. *)
LEMMA FlagsStep == ASSUME TypeOK, [Next]_vars PROVE FlagsOK'
<1> USE DEF TypeOK, FlagsOK, WorkerGoto, StopperGoto, CreatorGoto, HandlerGoto,
        SetTorNetworkEnabledAsync, StopTorAsync, torVars, envVars, ghosts
<1>1. ASSUME NEW w \in Workers, RouteOther(w) PROVE FlagsOK'  BY <1>1, Zenon DEF RouteOther
<1>2. ASSUME NEW w \in Workers, RouteStart(w) PROVE FlagsOK'  BY <1>2, Zenon DEF RouteStart
<1>3. ASSUME NEW w \in Workers, StartTor(w) PROVE FlagsOK'  BY <1>3, Zenon DEF StartTor
<1>4. ASSUME NEW w \in Workers, StartCheckOn(w) PROVE FlagsOK'  BY <1>4, Zenon DEF StartCheckOn
<1>5. ASSUME NEW w \in Workers, StartAnnounce(w) PROVE FlagsOK'  BY <1>5, Zenon DEF StartAnnounce
<1>6. ASSUME NEW w \in Workers, ManagerStart(w) PROVE FlagsOK'  BY <1>6, Zenon DEF ManagerStart
<1>7. ASSUME NEW w \in Workers, ManagerConnect(w) PROVE FlagsOK'  BY <1>7, Zenon DEF ManagerConnect
<1>8. ASSUME NEW w \in Workers, StartCompletes(w) PROVE FlagsOK'  BY <1>8, Zenon DEF StartCompletes
<1>9. ASSUME NEW w \in Workers, StartReturns(w) PROVE FlagsOK'  BY <1>9, Zenon DEF StartReturns
<1>10. ASSUME NEW w \in Workers, StartFails(w) PROVE FlagsOK'  BY <1>10, Zenon DEF StartFails
<1>11. ASSUME NEW s \in Stoppers, StopBegins(s) PROVE FlagsOK'  BY <1>11, Zenon DEF StopBegins
<1>12. ASSUME NEW s \in Stoppers, ManagerStop(s) PROVE FlagsOK'  BY <1>12, Zenon DEF ManagerStop
<1>13. ASSUME NEW s \in Stoppers, StopClears(s) PROVE FlagsOK'  BY <1>13, Zenon DEF StopClears
<1>14. ASSUME NEW s \in Stoppers, StopCompletes(s) PROVE FlagsOK'  BY <1>14, Zenon DEF StopCompletes
<1>15. ASSUME NEW c \in Circuits, CircuitBuilt(c) PROVE FlagsOK'  BY <1>15, Zenon DEF CircuitBuilt
<1>16. ASSUME NEW c \in Circuits, CircuitClosed(c) PROVE FlagsOK'  BY <1>16, Zenon DEF CircuitClosed
<1>17. ASSUME NEW n \in NetThreads, NetThreadRuns(n) PROVE FlagsOK'  BY <1>17, Zenon DEF NetThreadRuns
<1>18. ASSUME NEW a \in Actions, OnStartCommand(a) PROVE FlagsOK'  BY <1>18, Zenon DEF OnStartCommand
<1>19. ASSUME SetupTor PROVE FlagsOK'  BY <1>19, Zenon DEF SetupTor
<1>20. ASSUME CreatorCheck PROVE FlagsOK'  BY <1>20, Zenon DEF CreatorCheck
<1>21. ASSUME CreatorPort PROVE FlagsOK'  BY <1>21, Zenon DEF CreatorPort
<1>22. ASSUME CreatorOn PROVE FlagsOK'  BY <1>22, Zenon DEF CreatorOn
<1>23. ASSUME CircuitOn PROVE FlagsOK'  BY <1>23, Zenon DEF CircuitOn
<1>24. ASSUME CircuitPut PROVE FlagsOK'  BY <1>24, Zenon DEF CircuitPut
<1>25. ASSUME OnReceive PROVE FlagsOK'  BY <1>25, Zenon DEF OnReceive
<1>26. ASSUME ManagerReceives PROVE FlagsOK'  BY <1>26, Zenon DEF ManagerReceives
<1>27. ASSUME OnTaskRemoved PROVE FlagsOK'  BY <1>27, Zenon DEF OnTaskRemoved
<1>28. ASSUME OnDestroy PROVE FlagsOK'  BY <1>28, Zenon DEF OnDestroy
<1>29. ASSUME TorExits PROVE FlagsOK'  BY <1>29, Zenon DEF TorExits
<1>30. ASSUME TorDies PROVE FlagsOK'  BY <1>30, Zenon DEF TorDies
<1>31. ASSUME ConnectivityChanges PROVE FlagsOK'  BY <1>31, Zenon DEF ConnectivityChanges
<1>32. ASSUME ProcessKilled PROVE FlagsOK'  BY <1>32, Zenon DEF ProcessKilled
<1>u. CASE UNCHANGED vars  BY <1>u DEF vars
<1> QED BY <1>u, <1>1, <1>2, <1>3, <1>4, <1>5, <1>6, <1>7, <1>8, <1>9, <1>10, <1>11, <1>12,
          <1>13, <1>14, <1>15, <1>16, <1>17, <1>18, <1>19, <1>20, <1>21, <1>22, <1>23,
          <1>24, <1>25, <1>26, <1>27, <1>28, <1>29, <1>30, <1>31, <1>32
   DEF Next, ServiceStep, ClientStep, TorStep, RouteStep, StartStep,
      StopStep, CreatorStep, HandlerStep, TorEvent

(* Every step of the service and its environment preserves the types. *)
LEMMA TypeStep == ASSUME TypeOK, [Next]_vars PROVE TypeOK'
<1> USE FlagsStep, BoundsPositive
    DEF TypeOK, Statuses, WorkerStates, StopperStates, CreatorStates,
        WorkerGoto, StopperGoto, CreatorGoto, HandlerGoto,
        SetTorNetworkEnabledAsync, StopTorAsync, torVars, envVars, ghosts
<1>1. ASSUME NEW w \in Workers, RouteOther(w) PROVE TypeOK'  BY <1>1 DEF RouteOther
<1>2. ASSUME NEW w \in Workers, RouteStart(w) PROVE TypeOK'  BY <1>2 DEF RouteStart
<1>3. ASSUME NEW w \in Workers, StartTor(w) PROVE TypeOK'  BY <1>3 DEF StartTor
<1>4. ASSUME NEW w \in Workers, StartCheckOn(w) PROVE TypeOK'  BY <1>4 DEF StartCheckOn
<1>5. ASSUME NEW w \in Workers, StartAnnounce(w) PROVE TypeOK'  BY <1>5 DEF StartAnnounce
<1>6. ASSUME NEW w \in Workers, ManagerStart(w) PROVE TypeOK'  BY <1>6 DEF ManagerStart
<1>7. ASSUME NEW w \in Workers, ManagerConnect(w) PROVE TypeOK'  BY <1>7 DEF ManagerConnect
<1>8. ASSUME NEW w \in Workers, StartCompletes(w) PROVE TypeOK'  BY <1>8 DEF StartCompletes
<1>9. ASSUME NEW w \in Workers, StartReturns(w) PROVE TypeOK'  BY <1>9 DEF StartReturns
<1>10. ASSUME NEW w \in Workers, StartFails(w) PROVE TypeOK'  BY <1>10 DEF StartFails
<1>11. ASSUME NEW s \in Stoppers, StopBegins(s) PROVE TypeOK'  BY <1>11 DEF StopBegins
<1>12. ASSUME NEW s \in Stoppers, ManagerStop(s) PROVE TypeOK'  BY <1>12 DEF ManagerStop
<1>13. ASSUME NEW s \in Stoppers, StopClears(s) PROVE TypeOK'  BY <1>13 DEF StopClears
<1>14. ASSUME NEW s \in Stoppers, StopCompletes(s) PROVE TypeOK'  BY <1>14 DEF StopCompletes
<1>15. ASSUME NEW c \in Circuits, CircuitBuilt(c) PROVE TypeOK'  BY <1>15 DEF CircuitBuilt
<1>16. ASSUME NEW c \in Circuits, CircuitClosed(c) PROVE TypeOK'  BY <1>16 DEF CircuitClosed
<1>17. ASSUME NEW n \in NetThreads, NetThreadRuns(n) PROVE TypeOK'  BY <1>17 DEF NetThreadRuns
<1>18. ASSUME NEW a \in Actions, OnStartCommand(a) PROVE TypeOK'  BY <1>18 DEF OnStartCommand
<1>19. ASSUME SetupTor PROVE TypeOK'  BY <1>19 DEF SetupTor
<1>20. ASSUME CreatorCheck PROVE TypeOK'  BY <1>20 DEF CreatorCheck
<1>21. ASSUME CreatorPort PROVE TypeOK'  BY <1>21 DEF CreatorPort
<1>22. ASSUME CreatorOn PROVE TypeOK'  BY <1>22 DEF CreatorOn
<1>23. ASSUME CircuitOn PROVE TypeOK'  BY <1>23 DEF CircuitOn
<1>24. ASSUME CircuitPut PROVE TypeOK'  BY <1>24 DEF CircuitPut
<1>25. ASSUME OnReceive PROVE TypeOK'  BY <1>25 DEF OnReceive
<1>26. ASSUME ManagerReceives PROVE TypeOK'  BY <1>26 DEF ManagerReceives
<1>27. ASSUME OnTaskRemoved PROVE TypeOK'  BY <1>27 DEF OnTaskRemoved
<1>28. ASSUME OnDestroy PROVE TypeOK'  BY <1>28 DEF OnDestroy
<1>29. ASSUME TorExits PROVE TypeOK'  BY <1>29 DEF TorExits
<1>30. ASSUME TorDies PROVE TypeOK'  BY <1>30 DEF TorDies
<1>31. ASSUME ConnectivityChanges PROVE TypeOK'  BY <1>31 DEF ConnectivityChanges
<1>32. ASSUME ProcessKilled PROVE TypeOK'  BY <1>32 DEF ProcessKilled
<1>u. CASE UNCHANGED vars  BY <1>u DEF vars
<1> QED BY <1>u, <1>1, <1>2, <1>3, <1>4, <1>5, <1>6, <1>7, <1>8, <1>9, <1>10, <1>11, <1>12,
          <1>13, <1>14, <1>15, <1>16, <1>17, <1>18, <1>19, <1>20, <1>21, <1>22, <1>23,
          <1>24, <1>25, <1>26, <1>27, <1>28, <1>29, <1>30, <1>31, <1>32
   DEF Next, ServiceStep, ClientStep, TorStep, RouteStep, StartStep,
      StopStep, CreatorStep, HandlerStep, TorEvent

(***************************************************************************)
(* The manager's lock and the monitor of startTor keep connection and Tor  *)
(* together: the stop waits while a start is connecting.                   *)
(***************************************************************************)
LEMMA ConnectedStep == ASSUME TypeOK, Connected, [Next]_vars PROVE Connected'
<1> USE DEF TypeOK, Statuses, WorkerStates, StopperStates, CreatorStates,
        Connected, PastCheck, MonitorFree, ManagerFree, WorkerGoto, StopperGoto, CreatorGoto, HandlerGoto,
        SetTorNetworkEnabledAsync, StopTorAsync, torVars, envVars, ghosts
<1>1. ASSUME NEW w \in Workers, RouteOther(w) PROVE Connected'  BY <1>1 DEF RouteOther
<1>2. ASSUME NEW w \in Workers, RouteStart(w) PROVE Connected'  BY <1>2 DEF RouteStart
<1>3. ASSUME NEW w \in Workers, StartTor(w) PROVE Connected'  BY <1>3 DEF StartTor
<1>4. ASSUME NEW w \in Workers, StartCheckOn(w) PROVE Connected'  BY <1>4 DEF StartCheckOn
<1>5. ASSUME NEW w \in Workers, StartAnnounce(w) PROVE Connected'  BY <1>5 DEF StartAnnounce
<1>6. ASSUME NEW w \in Workers, ManagerStart(w) PROVE Connected'  BY <1>6 DEF ManagerStart
<1>7. ASSUME NEW w \in Workers, ManagerConnect(w) PROVE Connected'  BY <1>7 DEF ManagerConnect
<1>8. ASSUME NEW w \in Workers, StartCompletes(w) PROVE Connected'  BY <1>8 DEF StartCompletes
<1>9. ASSUME NEW w \in Workers, StartReturns(w) PROVE Connected'  BY <1>9 DEF StartReturns
<1>10. ASSUME NEW w \in Workers, StartFails(w) PROVE Connected'  BY <1>10 DEF StartFails
<1>11. ASSUME NEW s \in Stoppers, StopBegins(s) PROVE Connected'  BY <1>11 DEF StopBegins
<1>12. ASSUME NEW s \in Stoppers, ManagerStop(s) PROVE Connected'  BY <1>12 DEF ManagerStop
<1>13. ASSUME NEW s \in Stoppers, StopClears(s) PROVE Connected'  BY <1>13 DEF StopClears
<1>14. ASSUME NEW s \in Stoppers, StopCompletes(s) PROVE Connected'  BY <1>14 DEF StopCompletes
<1>15. ASSUME NEW c \in Circuits, CircuitBuilt(c) PROVE Connected'  BY <1>15 DEF CircuitBuilt
<1>16. ASSUME NEW c \in Circuits, CircuitClosed(c) PROVE Connected'  BY <1>16 DEF CircuitClosed
<1>17. ASSUME NEW n \in NetThreads, NetThreadRuns(n) PROVE Connected'  BY <1>17 DEF NetThreadRuns
<1>18. ASSUME NEW a \in Actions, OnStartCommand(a) PROVE Connected'  BY <1>18 DEF OnStartCommand
<1>19. ASSUME SetupTor PROVE Connected'  BY <1>19 DEF SetupTor
<1>20. ASSUME CreatorCheck PROVE Connected'  BY <1>20 DEF CreatorCheck
<1>21. ASSUME CreatorPort PROVE Connected'  BY <1>21 DEF CreatorPort
<1>22. ASSUME CreatorOn PROVE Connected'  BY <1>22 DEF CreatorOn
<1>23. ASSUME CircuitOn PROVE Connected'  BY <1>23 DEF CircuitOn
<1>24. ASSUME CircuitPut PROVE Connected'  BY <1>24 DEF CircuitPut
<1>25. ASSUME OnReceive PROVE Connected'  BY <1>25 DEF OnReceive
<1>26. ASSUME ManagerReceives PROVE Connected'  BY <1>26 DEF ManagerReceives
<1>27. ASSUME OnTaskRemoved PROVE Connected'  BY <1>27 DEF OnTaskRemoved
<1>28. ASSUME OnDestroy PROVE Connected'  BY <1>28 DEF OnDestroy
<1>29. ASSUME TorExits PROVE Connected'  BY <1>29 DEF TorExits
<1>30. ASSUME TorDies PROVE Connected'  BY <1>30 DEF TorDies
<1>31. ASSUME ConnectivityChanges PROVE Connected'  BY <1>31 DEF ConnectivityChanges
<1>32. ASSUME ProcessKilled PROVE Connected'  BY <1>32 DEF ProcessKilled
<1>u. CASE UNCHANGED vars  BY <1>u DEF vars
<1> QED BY <1>u, <1>1, <1>2, <1>3, <1>4, <1>5, <1>6, <1>7, <1>8, <1>9, <1>10, <1>11, <1>12,
          <1>13, <1>14, <1>15, <1>16, <1>17, <1>18, <1>19, <1>20, <1>21, <1>22, <1>23,
          <1>24, <1>25, <1>26, <1>27, <1>28, <1>29, <1>30, <1>31, <1>32
   DEF Next, ServiceStep, ClientStep, TorStep, RouteStep, StartStep,
      StopStep, CreatorStep, HandlerStep, TorEvent

(* No step leaves a Tor without a connection, unless the application is killed. *)
LEMMA OrphanStep == ASSUME TypeOK, Connected, NoOrphanTor, [Next]_vars PROVE NoOrphanTor'
<1> USE DEF TypeOK, Statuses, WorkerStates, StopperStates, CreatorStates,
        FlagsOK, Connected, PastCheck, NoOrphanTor, ManagerFree, WorkerGoto, StopperGoto, CreatorGoto, HandlerGoto,
        SetTorNetworkEnabledAsync, StopTorAsync, torVars, envVars, ghosts
<1>1. ASSUME NEW w \in Workers, RouteOther(w) PROVE NoOrphanTor'  BY <1>1 DEF RouteOther
<1>2. ASSUME NEW w \in Workers, RouteStart(w) PROVE NoOrphanTor'  BY <1>2 DEF RouteStart
<1>3. ASSUME NEW w \in Workers, StartTor(w) PROVE NoOrphanTor'  BY <1>3 DEF StartTor
<1>4. ASSUME NEW w \in Workers, StartCheckOn(w) PROVE NoOrphanTor'  BY <1>4 DEF StartCheckOn
<1>5. ASSUME NEW w \in Workers, StartAnnounce(w) PROVE NoOrphanTor'  BY <1>5 DEF StartAnnounce
<1>6. ASSUME NEW w \in Workers, ManagerStart(w) PROVE NoOrphanTor'  BY <1>6 DEF ManagerStart
<1>7. ASSUME NEW w \in Workers, ManagerConnect(w) PROVE NoOrphanTor'  BY <1>7 DEF ManagerConnect
<1>8. ASSUME NEW w \in Workers, StartCompletes(w) PROVE NoOrphanTor'  BY <1>8 DEF StartCompletes
<1>9. ASSUME NEW w \in Workers, StartReturns(w) PROVE NoOrphanTor'  BY <1>9 DEF StartReturns
<1>10. ASSUME NEW w \in Workers, StartFails(w) PROVE NoOrphanTor'  BY <1>10 DEF StartFails
<1>11. ASSUME NEW s \in Stoppers, StopBegins(s) PROVE NoOrphanTor'  BY <1>11 DEF StopBegins
<1>12. ASSUME NEW s \in Stoppers, ManagerStop(s) PROVE NoOrphanTor'  BY <1>12 DEF ManagerStop
<1>13. ASSUME NEW s \in Stoppers, StopClears(s) PROVE NoOrphanTor'  BY <1>13 DEF StopClears
<1>14. ASSUME NEW s \in Stoppers, StopCompletes(s) PROVE NoOrphanTor'  BY <1>14 DEF StopCompletes
<1>15. ASSUME NEW c \in Circuits, CircuitBuilt(c) PROVE NoOrphanTor'  BY <1>15 DEF CircuitBuilt
<1>16. ASSUME NEW c \in Circuits, CircuitClosed(c) PROVE NoOrphanTor'  BY <1>16 DEF CircuitClosed
<1>17. ASSUME NEW n \in NetThreads, NetThreadRuns(n) PROVE NoOrphanTor'  BY <1>17 DEF NetThreadRuns
<1>18. ASSUME NEW a \in Actions, OnStartCommand(a) PROVE NoOrphanTor'  BY <1>18 DEF OnStartCommand
<1>19. ASSUME SetupTor PROVE NoOrphanTor'  BY <1>19 DEF SetupTor
<1>20. ASSUME CreatorCheck PROVE NoOrphanTor'  BY <1>20 DEF CreatorCheck
<1>21. ASSUME CreatorPort PROVE NoOrphanTor'  BY <1>21 DEF CreatorPort
<1>22. ASSUME CreatorOn PROVE NoOrphanTor'  BY <1>22 DEF CreatorOn
<1>23. ASSUME CircuitOn PROVE NoOrphanTor'  BY <1>23 DEF CircuitOn
<1>24. ASSUME CircuitPut PROVE NoOrphanTor'  BY <1>24 DEF CircuitPut
<1>25. ASSUME OnReceive PROVE NoOrphanTor'  BY <1>25 DEF OnReceive
<1>26. ASSUME ManagerReceives PROVE NoOrphanTor'  BY <1>26 DEF ManagerReceives
<1>27. ASSUME OnTaskRemoved PROVE NoOrphanTor'  BY <1>27 DEF OnTaskRemoved
<1>28. ASSUME OnDestroy PROVE NoOrphanTor'  BY <1>28 DEF OnDestroy
<1>29. ASSUME TorExits PROVE NoOrphanTor'  BY <1>29 DEF TorExits
<1>30. ASSUME TorDies PROVE NoOrphanTor'  BY <1>30 DEF TorDies
<1>31. ASSUME ConnectivityChanges PROVE NoOrphanTor'  BY <1>31 DEF ConnectivityChanges
<1>32. ASSUME ProcessKilled PROVE NoOrphanTor'  BY <1>32 DEF ProcessKilled
<1>u. CASE UNCHANGED vars  BY <1>u DEF vars
<1> QED BY <1>u, <1>1, <1>2, <1>3, <1>4, <1>5, <1>6, <1>7, <1>8, <1>9, <1>10, <1>11, <1>12,
          <1>13, <1>14, <1>15, <1>16, <1>17, <1>18, <1>19, <1>20, <1>21, <1>22, <1>23,
          <1>24, <1>25, <1>26, <1>27, <1>28, <1>29, <1>30, <1>31, <1>32
   DEF Next, ServiceStep, ClientStep, TorStep, RouteStep, StartStep,
      StopStep, CreatorStep, HandlerStep, TorEvent

(* The status is STOPPING only while some stop thread is at work. *)
LEMMA StoppingStep == ASSUME TypeOK, status = "STOPPING" => StopInProgress, [Next]_vars PROVE (status = "STOPPING" => StopInProgress)'
<1> USE DEF TypeOK, Statuses, WorkerStates, StopperStates, CreatorStates,
        StopInProgress, WorkerGoto, StopperGoto, CreatorGoto, HandlerGoto,
        SetTorNetworkEnabledAsync, StopTorAsync, torVars, envVars, ghosts
<1>1. ASSUME NEW w \in Workers, RouteOther(w) PROVE (status = "STOPPING" => StopInProgress)'  BY <1>1 DEF RouteOther
<1>2. ASSUME NEW w \in Workers, RouteStart(w) PROVE (status = "STOPPING" => StopInProgress)'  BY <1>2 DEF RouteStart
<1>3. ASSUME NEW w \in Workers, StartTor(w) PROVE (status = "STOPPING" => StopInProgress)'  BY <1>3 DEF StartTor
<1>4. ASSUME NEW w \in Workers, StartCheckOn(w) PROVE (status = "STOPPING" => StopInProgress)'  BY <1>4 DEF StartCheckOn
<1>5. ASSUME NEW w \in Workers, StartAnnounce(w) PROVE (status = "STOPPING" => StopInProgress)'  BY <1>5 DEF StartAnnounce
<1>6. ASSUME NEW w \in Workers, ManagerStart(w) PROVE (status = "STOPPING" => StopInProgress)'  BY <1>6 DEF ManagerStart
<1>7. ASSUME NEW w \in Workers, ManagerConnect(w) PROVE (status = "STOPPING" => StopInProgress)'  BY <1>7 DEF ManagerConnect
<1>8. ASSUME NEW w \in Workers, StartCompletes(w) PROVE (status = "STOPPING" => StopInProgress)'  BY <1>8 DEF StartCompletes
<1>9. ASSUME NEW w \in Workers, StartReturns(w) PROVE (status = "STOPPING" => StopInProgress)'  BY <1>9 DEF StartReturns
<1>10. ASSUME NEW w \in Workers, StartFails(w) PROVE (status = "STOPPING" => StopInProgress)'  BY <1>10 DEF StartFails
<1>11. ASSUME NEW s \in Stoppers, StopBegins(s) PROVE (status = "STOPPING" => StopInProgress)'  BY <1>11 DEF StopBegins
<1>12. ASSUME NEW s \in Stoppers, ManagerStop(s) PROVE (status = "STOPPING" => StopInProgress)'  BY <1>12 DEF ManagerStop
<1>13. ASSUME NEW s \in Stoppers, StopClears(s) PROVE (status = "STOPPING" => StopInProgress)'  BY <1>13 DEF StopClears
<1>14. ASSUME NEW s \in Stoppers, StopCompletes(s) PROVE (status = "STOPPING" => StopInProgress)'  BY <1>14 DEF StopCompletes
<1>15. ASSUME NEW c \in Circuits, CircuitBuilt(c) PROVE (status = "STOPPING" => StopInProgress)'  BY <1>15 DEF CircuitBuilt
<1>16. ASSUME NEW c \in Circuits, CircuitClosed(c) PROVE (status = "STOPPING" => StopInProgress)'  BY <1>16 DEF CircuitClosed
<1>17. ASSUME NEW n \in NetThreads, NetThreadRuns(n) PROVE (status = "STOPPING" => StopInProgress)'  BY <1>17 DEF NetThreadRuns
<1>18. ASSUME NEW a \in Actions, OnStartCommand(a) PROVE (status = "STOPPING" => StopInProgress)'  BY <1>18 DEF OnStartCommand
<1>19. ASSUME SetupTor PROVE (status = "STOPPING" => StopInProgress)'  BY <1>19 DEF SetupTor
<1>20. ASSUME CreatorCheck PROVE (status = "STOPPING" => StopInProgress)'  BY <1>20 DEF CreatorCheck
<1>21. ASSUME CreatorPort PROVE (status = "STOPPING" => StopInProgress)'  BY <1>21 DEF CreatorPort
<1>22. ASSUME CreatorOn PROVE (status = "STOPPING" => StopInProgress)'  BY <1>22 DEF CreatorOn
<1>23. ASSUME CircuitOn PROVE (status = "STOPPING" => StopInProgress)'  BY <1>23 DEF CircuitOn
<1>24. ASSUME CircuitPut PROVE (status = "STOPPING" => StopInProgress)'  BY <1>24 DEF CircuitPut
<1>25. ASSUME OnReceive PROVE (status = "STOPPING" => StopInProgress)'  BY <1>25 DEF OnReceive
<1>26. ASSUME ManagerReceives PROVE (status = "STOPPING" => StopInProgress)'  BY <1>26 DEF ManagerReceives
<1>27. ASSUME OnTaskRemoved PROVE (status = "STOPPING" => StopInProgress)'  BY <1>27 DEF OnTaskRemoved
<1>28. ASSUME OnDestroy PROVE (status = "STOPPING" => StopInProgress)'  BY <1>28 DEF OnDestroy
<1>29. ASSUME TorExits PROVE (status = "STOPPING" => StopInProgress)'  BY <1>29 DEF TorExits
<1>30. ASSUME TorDies PROVE (status = "STOPPING" => StopInProgress)'  BY <1>30 DEF TorDies
<1>31. ASSUME ConnectivityChanges PROVE (status = "STOPPING" => StopInProgress)'  BY <1>31 DEF ConnectivityChanges
<1>32. ASSUME ProcessKilled PROVE (status = "STOPPING" => StopInProgress)'  BY <1>32 DEF ProcessKilled
<1>u. CASE UNCHANGED vars  BY <1>u DEF vars
<1> QED BY <1>u, <1>1, <1>2, <1>3, <1>4, <1>5, <1>6, <1>7, <1>8, <1>9, <1>10, <1>11, <1>12,
          <1>13, <1>14, <1>15, <1>16, <1>17, <1>18, <1>19, <1>20, <1>21, <1>22, <1>23,
          <1>24, <1>25, <1>26, <1>27, <1>28, <1>29, <1>30, <1>31, <1>32
   DEF Next, ServiceStep, ClientStep, TorStep, RouteStep, StartStep,
      StopStep, CreatorStep, HandlerStep, TorEvent

(* A start that no stop has overlapped finds only its own effects. *)
LEMMA CleanStep == ASSUME TypeOK, Connected, CleanStart, [Next]_vars PROVE CleanStart'
<1> USE DEF TypeOK, Statuses, WorkerStates, StopperStates, CreatorStates,
        Connected, PastCheck, CleanStart, StopInProgress, StopPending, MonitorFree,
        ManagerFree, WorkerGoto, StopperGoto, CreatorGoto, HandlerGoto,
        SetTorNetworkEnabledAsync, StopTorAsync, torVars, envVars, ghosts
<1>1. ASSUME NEW w \in Workers, RouteOther(w) PROVE CleanStart'  BY <1>1 DEF RouteOther
<1>2. ASSUME NEW w \in Workers, RouteStart(w) PROVE CleanStart'  BY <1>2 DEF RouteStart
<1>3. ASSUME NEW w \in Workers, StartTor(w) PROVE CleanStart'  BY <1>3, ZenonT(60) DEF StartTor
<1>4. ASSUME NEW w \in Workers, StartCheckOn(w) PROVE CleanStart'  BY <1>4 DEF StartCheckOn
<1>5. ASSUME NEW w \in Workers, StartAnnounce(w) PROVE CleanStart'  BY <1>5 DEF StartAnnounce
<1>6. ASSUME NEW w \in Workers, ManagerStart(w) PROVE CleanStart'  BY <1>6 DEF ManagerStart
<1>7. ASSUME NEW w \in Workers, ManagerConnect(w) PROVE CleanStart'  BY <1>7 DEF ManagerConnect
<1>8. ASSUME NEW w \in Workers, StartCompletes(w) PROVE CleanStart'  BY <1>8 DEF StartCompletes
<1>9. ASSUME NEW w \in Workers, StartReturns(w) PROVE CleanStart'  BY <1>9 DEF StartReturns
<1>10. ASSUME NEW w \in Workers, StartFails(w) PROVE CleanStart'  BY <1>10 DEF StartFails
<1>11. ASSUME NEW s \in Stoppers, StopBegins(s) PROVE CleanStart'  BY <1>11 DEF StopBegins
<1>12. ASSUME NEW s \in Stoppers, ManagerStop(s) PROVE CleanStart'  BY <1>12 DEF ManagerStop
<1>13. ASSUME NEW s \in Stoppers, StopClears(s) PROVE CleanStart'  BY <1>13 DEF StopClears
<1>14. ASSUME NEW s \in Stoppers, StopCompletes(s) PROVE CleanStart'  BY <1>14 DEF StopCompletes
<1>15. ASSUME NEW c \in Circuits, CircuitBuilt(c) PROVE CleanStart'  BY <1>15 DEF CircuitBuilt
<1>16. ASSUME NEW c \in Circuits, CircuitClosed(c) PROVE CleanStart'  BY <1>16 DEF CircuitClosed
<1>17. ASSUME NEW n \in NetThreads, NetThreadRuns(n) PROVE CleanStart'  BY <1>17 DEF NetThreadRuns
<1>18. ASSUME NEW a \in Actions, OnStartCommand(a) PROVE CleanStart'  BY <1>18 DEF OnStartCommand
<1>19. ASSUME SetupTor PROVE CleanStart'  BY <1>19 DEF SetupTor
<1>20. ASSUME CreatorCheck PROVE CleanStart'  BY <1>20 DEF CreatorCheck
<1>21. ASSUME CreatorPort PROVE CleanStart'  BY <1>21 DEF CreatorPort
<1>22. ASSUME CreatorOn PROVE CleanStart'  BY <1>22 DEF CreatorOn
<1>23. ASSUME CircuitOn PROVE CleanStart'  BY <1>23 DEF CircuitOn
<1>24. ASSUME CircuitPut PROVE CleanStart'  BY <1>24 DEF CircuitPut
<1>25. ASSUME OnReceive PROVE CleanStart'  BY <1>25 DEF OnReceive
<1>26. ASSUME ManagerReceives PROVE CleanStart'  BY <1>26 DEF ManagerReceives
<1>27. ASSUME OnTaskRemoved PROVE CleanStart'  BY <1>27 DEF OnTaskRemoved
<1>28. ASSUME OnDestroy PROVE CleanStart'  BY <1>28 DEF OnDestroy
<1>29. ASSUME TorExits PROVE CleanStart'  BY <1>29 DEF TorExits
<1>30. ASSUME TorDies PROVE CleanStart'  BY <1>30 DEF TorDies
<1>31. ASSUME ConnectivityChanges PROVE CleanStart'  BY <1>31 DEF ConnectivityChanges
<1>32. ASSUME ProcessKilled PROVE CleanStart'  BY <1>32 DEF ProcessKilled
<1>u. CASE UNCHANGED vars  BY <1>u DEF vars
<1> QED BY <1>u, <1>1, <1>2, <1>3, <1>4, <1>5, <1>6, <1>7, <1>8, <1>9, <1>10, <1>11, <1>12,
          <1>13, <1>14, <1>15, <1>16, <1>17, <1>18, <1>19, <1>20, <1>21, <1>22, <1>23,
          <1>24, <1>25, <1>26, <1>27, <1>28, <1>29, <1>30, <1>31, <1>32
   DEF Next, ServiceStep, ClientStep, TorStep, RouteStep, StartStep,
      StopStep, CreatorStep, HandlerStep, TorEvent

(***************************************************************************)
(* Without a race, windows and stops exclude each other and the status     *)
(* agrees with the connection between the writes of a start or a stop.     *)
(***************************************************************************)
LEMMA SettledStep == ASSUME TypeOK, Connected, Settled, [Next]_vars PROVE Settled'
<1> USE DEF TypeOK, Statuses, WorkerStates, StopperStates, CreatorStates,
        FlagsOK, Connected, PastCheck, Settled, Agreed, InWindow, StopInProgress,
        MonitorFree, ManagerFree, WorkerGoto, StopperGoto, CreatorGoto, HandlerGoto,
        SetTorNetworkEnabledAsync, StopTorAsync, torVars, envVars, ghosts
<1>1. ASSUME NEW w \in Workers, RouteOther(w) PROVE Settled'  BY <1>1 DEF RouteOther
<1>2. ASSUME NEW w \in Workers, RouteStart(w) PROVE Settled'  BY <1>2 DEF RouteStart
<1>3. ASSUME NEW w \in Workers, StartTor(w) PROVE Settled'  BY <1>3 DEF StartTor
<1>4. ASSUME NEW w \in Workers, StartCheckOn(w) PROVE Settled'  BY <1>4 DEF StartCheckOn
<1>5. ASSUME NEW w \in Workers, StartAnnounce(w) PROVE Settled'  BY <1>5 DEF StartAnnounce
<1>6. ASSUME NEW w \in Workers, ManagerStart(w) PROVE Settled'  BY <1>6 DEF ManagerStart
<1>7. ASSUME NEW w \in Workers, ManagerConnect(w) PROVE Settled'  BY <1>7 DEF ManagerConnect
<1>8. ASSUME NEW w \in Workers, StartCompletes(w) PROVE Settled'  BY <1>8 DEF StartCompletes
<1>9. ASSUME NEW w \in Workers, StartReturns(w) PROVE Settled'  BY <1>9 DEF StartReturns
<1>10. ASSUME NEW w \in Workers, StartFails(w) PROVE Settled'
  <2>1. CASE conn # "none"
    <3>1. raced' = TRUE  BY <1>10, <2>1, Zenon DEF StartFails
    <3> QED BY <3>1
  <2>2. CASE conn = "none"
    <3>1. status' = "OFF" /\ conn' = "none"  BY <1>10, <2>2 DEF StartFails
    <3>2. raced => raced'  BY <1>10, Zenon DEF StartFails
    <3>3. CASE raced  BY <3>2, <3>3
    <3>4. CASE ~raced
      <4>1. ~StopInProgress /\ nodes = {}  BY <1>10, <2>2, <3>4 DEF StartFails
      <4>2. ~StopInProgress' /\ nodes' = {}  BY <1>10, <4>1 DEF StartFails
      <4>3. Agreed'  BY <3>1
      <4>4. handler'.pc = "idle" /\ creator' \notin {"port", "on"}
        BY <1>10, <2>2, <3>4 DEF StartFails
      <4>5. \A v \in Workers : worker'[v] \notin {"manager", "found", "spawned"}
        BY <1>10 DEF StartFails
      <4>6. \A s \in Stoppers : stopper'[s] \notin {"clear", "off"}
        BY <4>2
      <4> QED BY <3>1, <4>2, <4>3, <4>4, <4>5, <4>6
    <3> QED BY <3>3, <3>4
  <2> QED BY <2>1, <2>2
<1>11. ASSUME NEW s \in Stoppers, StopBegins(s) PROVE Settled'  BY <1>11, ZenonT(60) DEF StopBegins
<1>12. ASSUME NEW s \in Stoppers, ManagerStop(s) PROVE Settled'  BY <1>12, ZenonT(60) DEF ManagerStop
<1>13. ASSUME NEW s \in Stoppers, StopClears(s) PROVE Settled'  BY <1>13 DEF StopClears
<1>14. ASSUME NEW s \in Stoppers, StopCompletes(s) PROVE Settled'  BY <1>14 DEF StopCompletes
<1>15. ASSUME NEW c \in Circuits, CircuitBuilt(c) PROVE Settled'  BY <1>15 DEF CircuitBuilt
<1>16. ASSUME NEW c \in Circuits, CircuitClosed(c) PROVE Settled'  BY <1>16 DEF CircuitClosed
<1>17. ASSUME NEW n \in NetThreads, NetThreadRuns(n) PROVE Settled'  BY <1>17 DEF NetThreadRuns
<1>18. ASSUME NEW a \in Actions, OnStartCommand(a) PROVE Settled'  BY <1>18 DEF OnStartCommand
<1>19. ASSUME SetupTor PROVE Settled'  BY <1>19 DEF SetupTor
<1>20. ASSUME CreatorCheck PROVE Settled'  BY <1>20 DEF CreatorCheck
<1>21. ASSUME CreatorPort PROVE Settled'  BY <1>21 DEF CreatorPort
<1>22. ASSUME CreatorOn PROVE Settled'  BY <1>22 DEF CreatorOn
<1>23. ASSUME CircuitOn PROVE Settled'  BY <1>23 DEF CircuitOn
<1>24. ASSUME CircuitPut PROVE Settled'  BY <1>24 DEF CircuitPut
<1>25. ASSUME OnReceive PROVE Settled'  BY <1>25 DEF OnReceive
<1>26. ASSUME ManagerReceives PROVE Settled'  BY <1>26 DEF ManagerReceives
<1>27. ASSUME OnTaskRemoved PROVE Settled'  BY <1>27 DEF OnTaskRemoved
<1>28. ASSUME OnDestroy PROVE Settled'  BY <1>28 DEF OnDestroy
<1>29. ASSUME TorExits PROVE Settled'  BY <1>29 DEF TorExits
<1>30. ASSUME TorDies PROVE Settled'  BY <1>30 DEF TorDies
<1>31. ASSUME ConnectivityChanges PROVE Settled'  BY <1>31 DEF ConnectivityChanges
<1>32. ASSUME ProcessKilled PROVE Settled'  BY <1>32 DEF ProcessKilled
<1>u. CASE UNCHANGED vars  BY <1>u DEF vars
<1> QED BY <1>u, <1>1, <1>2, <1>3, <1>4, <1>5, <1>6, <1>7, <1>8, <1>9, <1>10, <1>11, <1>12,
          <1>13, <1>14, <1>15, <1>16, <1>17, <1>18, <1>19, <1>20, <1>21, <1>22, <1>23,
          <1>24, <1>25, <1>26, <1>27, <1>28, <1>29, <1>30, <1>31, <1>32
   DEF Next, ServiceStep, ClientStep, TorStep, RouteStep, StartStep,
      StopStep, CreatorStep, HandlerStep, TorEvent

(* The whole invariant is inductive. *)
LEMMA ServiceInvStep == ASSUME ServiceInv, [Next]_vars PROVE ServiceInv'
BY TypeStep, ConnectedStep, OrphanStep, StoppingStep, CleanStep, SettledStep DEF ServiceInv

(* It holds when the service is created. *)
LEMMA ServiceInvInit == ASSUME Init PROVE ServiceInv
<1> USE BoundsPositive DEF Init
<1>1. FlagsOK  BY Zenon DEF FlagsOK
<1>2. TypeOK
  BY <1>1 DEF TypeOK, Statuses, WorkerStates, StopperStates, CreatorStates
<1>3. Connected /\ NoOrphanTor /\ CleanStart
  BY DEF Connected, NoOrphanTor, CleanStart, PastCheck
<1>4. Settled
  BY DEF Settled, Agreed, InWindow, StopInProgress, PastCheck
<1> QED BY <1>2, <1>3, <1>4 DEF ServiceInv

(* ServiceInv holds throughout the life of the service. *)
THEOREM ServiceInvariance == Spec => []ServiceInv
<1>1. Init => ServiceInv  BY ServiceInvInit
<1>2. ServiceInv /\ [Next]_vars => ServiceInv'  BY ServiceInvStep
<1> QED BY <1>1, <1>2, PTL DEF Spec

(***************************************************************************)
(* A startTor that no stop overlaps returns with a control connection and  *)
(* the status STARTING or ON, from whatever state earlier races left.      *)
(***************************************************************************)
THEOREM StartEffectiveHolds == Spec => []StartEffective
<1>1. ServiceInv => StartEffective
  BY DEF ServiceInv, TypeOK, StartEffective, Connected, CleanStart, PastCheck
<1> QED BY <1>1, ServiceInvariance, PTL

(* No interleaving of startTor, stop and failures leaves Tor unattended. *)
THEOREM NoOrphanTorHolds == Spec => []NoOrphanTor
<1>1. ServiceInv => NoOrphanTor  BY DEF ServiceInv
<1> QED BY <1>1, ServiceInvariance, PTL

(* Once all threads are done and nothing raced, status and Tor agree. *)
THEOREM QuietStatusAgreesHolds == Spec => []QuietStatusAgrees
<1>1. ServiceInv => QuietStatusAgrees
  <2> SUFFICES ASSUME ServiceInv, Quiet, ~raced
               PROVE  \/ status = "OFF" /\ conn = "none" /\ nodes = {}
                      \/ status \in {"STARTING", "ON"} /\ conn # "none"
    BY DEF QuietStatusAgrees
  <2>1. ~StopInProgress  BY DEF Quiet, StopPending, StopInProgress
  <2> QED BY <2>1 DEF ServiceInv, Settled, Agreed, Quiet
<1> QED BY <1>1, ServiceInvariance, PTL

(***************************************************************************)
(* From STOPPING the status goes to OFF only, unless a stop met a window:  *)
(* every write of another status is made by a thread inside its window.    *)
(***************************************************************************)
THEOREM StoppingOnlyEndsHolds == Spec => StoppingOnlyEnds
<1> DEFINE Ends == status = "STOPPING" /\ status' # "STOPPING" /\ ~raced' => status' = "OFF"
<1>1. ASSUME ServiceInv, [Next]_vars PROVE Ends
  <2> SUFFICES ASSUME status = "STOPPING", status' # "STOPPING", ~raced', status' # "OFF"
               PROVE  FALSE
    OBVIOUS
  <2>1. raced \/ ~InWindow
    BY <1>1 DEF ServiceInv, Settled
  <2> USE DEF CreatorGoto, HandlerGoto, torVars, envVars, ghosts
  <2>2. ASSUME NEW w \in Workers, StartAnnounce(w) PROVE FALSE
    BY <2>1, <2>2 DEF StartAnnounce, InWindow, PastCheck
  <2>3. CASE CreatorOn  BY <2>1, <2>3 DEF CreatorOn, InWindow
  <2>4. CASE CircuitOn  BY <2>1, <2>4 DEF CircuitOn, InWindow
  <2>5. ASSUME NEW w \in Workers,
               \/ RouteStep(w) \/ StartTor(w) \/ StartCheckOn(w) \/ ManagerStart(w)
               \/ ManagerConnect(w) \/ StartCompletes(w) \/ StartReturns(w) \/ StartFails(w)
        PROVE  FALSE
    BY <2>5 DEF RouteStep, RouteOther, RouteStart, StartTor, StartCheckOn, ManagerStart,
                ManagerConnect, StartCompletes, StartReturns, StartFails
  <2>6. ASSUME NEW s \in Stoppers, StopStep(s) PROVE FALSE
    BY <2>6 DEF StopStep, StopBegins, ManagerStop, StopClears, StopCompletes
  <2>7. CASE \/ SetupTor \/ CreatorCheck \/ CreatorPort \/ CircuitPut \/ TorEvent
             \/ OnReceive \/ ManagerReceives \/ ClientStep \/ TorExits \/ TorDies
             \/ ConnectivityChanges \/ ProcessKilled \/ UNCHANGED vars
             \/ \E n \in NetThreads : NetThreadRuns(n)
    BY <2>7 DEF SetupTor, CreatorCheck, CreatorPort, CircuitPut, TorEvent, CircuitBuilt,
                CircuitClosed, OnReceive, ManagerReceives, ClientStep, OnStartCommand,
                OnTaskRemoved, OnDestroy, TorExits, TorDies, ConnectivityChanges,
                ProcessKilled, NetThreadRuns, vars
  <2> QED BY <1>1, <2>2, <2>3, <2>4, <2>5, <2>6, <2>7
          DEF Next, ServiceStep, TorStep, StartStep, CreatorStep, HandlerStep
<1>2. ServiceInv /\ [Next]_vars => [Ends]_vars  BY <1>1
<1> QED BY <1>2, ServiceInvariance, PTL DEF Spec, StoppingOnlyEnds
===============================================================================
