------------------------------ MODULE TorService ------------------------------
(***************************************************************************)
(* The Tor service of Orbot: TorService.java with its TorEventHandler, the *)
(* status kept by AndroidEventBroadcaster, and, as far as the service uses *)
(* them, the onion proxy manager of the universal library, the Tor process *)
(* and Android's connectivity broadcasts (external).                       *)
(*                                                                         *)
(* Threads: the pool mExecutor that runs IncomingIntentRouter, one thread  *)
(* per stopTorAsync, one per setTorNetworkEnabledAsync, the thread started *)
(* by onCreate, and the reader of the control connection, which calls the  *)
(* event handler.  startTor holds the service's monitor, the manager's     *)
(* start, stop and isRunning hold the manager's; everything else runs      *)
(* unsynchronised, so each read and each write of the status is a step.    *)
(***************************************************************************)
EXTENDS Naturals, Sequences, FiniteSets

CONSTANTS
    Workers,      \* the threads of mExecutor
    Stoppers,     \* threads of stopTorAsync that can run at the same time
    NetThreads,   \* threads of setTorNetworkEnabledAsync that can run at the same time
    Circuits,     \* circuit ids
    Actions,      \* the intents that clients send
    Flaky,        \* whether the device's connectivity changes
    MaxQueue      \* bound on the intents waiting in mExecutor

KnownActions == {"start", "status", "hup", "newnym", "vpn", "vpnclear", "setexit"}

ASSUME ActionsKnown == Actions \subseteq KnownActions
ASSUME BoundsPositive == MaxQueue \in Nat \ {0} /\ Flaky \in BOOLEAN

VARIABLES
    status,    \* AndroidEventBroadcaster.getStatus()
    conn,      \* the manager's controlConnection; "stale" once Tor has died under it
    tor,       \* the Tor process
    net,       \* Tor's network is enabled (DisableNetwork is 0)
    online,    \* the device has connectivity
    changed,   \* a connectivity broadcast waits for the service's receiver
    changedM,  \* and one for the receiver that the manager registers
    queue,     \* intents waiting in mExecutor
    worker,    \* what each pool thread is doing
    stopper,   \* what each stop thread is doing
    netThread, \* the value each asynchronous network switch will set
    creator,   \* the thread started by onCreate
    handler,   \* TorEventHandler.circuitStatus in the control connection's thread
    nodes,     \* hmBuiltNodes
    alive,     \* the service is created and not destroyed
    clean,     \* ghost: no stop has overlapped this worker's startTor
    raced      \* ghost: a stop has overlapped a check-then-act window, or a start
               \*        has failed, and said OFF, while Tor was running

torVars  == <<conn, tor, net>>
envVars  == <<online, changed, changedM>>
ghosts   == <<clean, raced>>
vars == <<status, torVars, envVars, queue, worker, stopper, netThread, creator,
          handler, nodes, alive, ghosts>>

Statuses == {"OFF", "STARTING", "ON", "STOPPING"}
WorkerStates == {"idle", "start", "check_on", "announce", "manager", "found",
                 "spawned", "register", "started", "failed"}
StopperStates == {"none", "begin", "manager", "clear", "off"}
CreatorStates == {"setup", "check", "port", "on", "done"}

FlagsOK ==
    /\ net \in BOOLEAN /\ online \in BOOLEAN
    /\ changed \in BOOLEAN /\ changedM \in BOOLEAN
    /\ alive \in BOOLEAN /\ raced \in BOOLEAN

TypeOK ==
    /\ FlagsOK
    /\ status \in Statuses
    /\ conn \in {"none", "live", "stale"}
    /\ tor \in {"down", "up", "exiting"}
    /\ queue \in Seq(Actions) /\ Len(queue) <= MaxQueue
    /\ worker \in [Workers -> WorkerStates]
    /\ stopper \in [Stoppers -> StopperStates]
    /\ netThread \in [NetThreads -> {"none", "enable", "disable"}]
    /\ creator \in CreatorStates
    /\ handler \in [pc : {"idle", "on", "put"}, circ : Circuits]
    /\ nodes \subseteq Circuits
    /\ clean \in [Workers -> BOOLEAN]

Init ==
    /\ status = "OFF"
    /\ conn = "none" /\ tor = "down" /\ net = FALSE
    /\ online \in {TRUE, ~Flaky} /\ changed = FALSE /\ changedM = FALSE
    /\ queue = <<>>
    /\ worker = [w \in Workers |-> "idle"]
    /\ stopper = [s \in Stoppers |-> "none"]
    /\ netThread = [n \in NetThreads |-> "none"]
    /\ creator = "setup"
    /\ handler \in [pc : {"idle"}, circ : Circuits]
    /\ nodes = {}
    /\ alive = TRUE
    /\ clean = [w \in Workers |-> FALSE]
    /\ raced = FALSE

(***************************************************************************)
(* The windows in which a thread acts on a status, or on a running Tor, it *)
(* has seen earlier; and the time in which a stop thread is at work.       *)
(***************************************************************************)
PastCheck == {"check_on", "announce", "manager", "found", "spawned", "register",
              "started", "failed"}
InWindow == \/ \E w \in Workers : worker[w] \in PastCheck
            \/ handler.pc # "idle"
            \/ creator \in {"port", "on"}
StopInProgress == \E s \in Stoppers : stopper[s] \in {"manager", "clear", "off"}
StopPending == \E s \in Stoppers : stopper[s] # "none"

ManagerFree == \A w \in Workers : worker[w] \notin {"found", "spawned"}
MonitorFree == \A w \in Workers : worker[w] \notin PastCheck
WorkerGoto(w, s) == worker' = [worker EXCEPT ![w] = s]
StopperGoto(s, p) == stopper' = [stopper EXCEPT ![s] = p]

(***************************************************************************)
(* setTorNetworkEnabledAsync.  Despite its name the manager's method       *)
(* disableNetwork(isEnabled) sets DisableNetwork to 0 when isEnabled.      *)
(***************************************************************************)
SetTorNetworkEnabledAsync(enabled) ==
    \E n \in NetThreads :
        /\ netThread[n] = "none"
        /\ netThread' = [netThread EXCEPT ![n] = IF enabled THEN "enable" ELSE "disable"]

NetThreadRuns(n) ==
    /\ netThread[n] # "none"
    /\ net' = IF conn = "live" THEN netThread[n] = "enable" ELSE net
    /\ netThread' = [netThread EXCEPT ![n] = "none"]
    /\ UNCHANGED <<status, conn, tor, envVars, queue, worker, stopper, creator, handler,
                   nodes, alive, ghosts>>
-----------------------------------------------------------------------------
(* onStartCommand with an intent; Android redelivers none after a kill. *)
OnStartCommand(a) ==
    /\ alive
    /\ Len(queue) < MaxQueue
    /\ queue' = Append(queue, a)
    /\ UNCHANGED <<status, torVars, envVars, worker, stopper, netThread, creator, handler,
                   nodes, alive, ghosts>>

StopTorAsync == \E s \in Stoppers : stopper[s] = "none" /\ StopperGoto(s, "begin")

OnTaskRemoved ==
    /\ alive
    /\ StopTorAsync
    /\ UNCHANGED <<status, torVars, envVars, queue, worker, netThread, creator, handler,
                   nodes, alive, ghosts>>

(* Unregisters the receivers; what the threads have begun goes on. *)
OnDestroy ==
    /\ alive
    /\ alive' = FALSE
    /\ changed' = FALSE
    /\ StopTorAsync
    /\ UNCHANGED <<status, torVars, online, changedM, queue, worker, netThread, creator,
                   handler, nodes, ghosts>>

(***************************************************************************)
(* IncomingIntentRouter.run for every intent but ACTION_START.  setExitNode*)
(* of the manager ends with DisableNetwork=0; the status reply, HUP and    *)
(* NEWNYM change nothing here, and the VPN intents are passed on to the    *)
(* VPN service (OrbotVpnManager).                                          *)
(***************************************************************************)
RouteOther(w) ==
    /\ worker[w] = "idle" /\ queue # <<>> /\ Head(queue) # "start"
    /\ queue' = Tail(queue)
    /\ net' = IF Head(queue) = "setexit" /\ conn = "live" THEN TRUE ELSE net
    /\ UNCHANGED <<status, conn, tor, envVars, worker, stopper, netThread, creator, handler,
                   nodes, alive, ghosts>>

RouteStart(w) ==
    /\ worker[w] = "idle" /\ queue # <<>> /\ Head(queue) = "start"
    /\ queue' = Tail(queue)
    /\ WorkerGoto(w, "start")
    /\ UNCHANGED <<status, torVars, envVars, stopper, netThread, creator, handler,
                   nodes, alive, ghosts>>

(* startTor takes the monitor and tests isStopping. *)
StartTor(w) ==
    /\ worker[w] = "start" /\ MonitorFree
    /\ WorkerGoto(w, IF status = "STOPPING" THEN "idle" ELSE "check_on")
    /\ clean' = [clean EXCEPT ![w] = ~StopPending]
    /\ raced' = (raced \/ (status # "STOPPING" /\ StopInProgress))
    /\ UNCHANGED <<status, torVars, envVars, queue, stopper, netThread, creator, handler,
                   nodes, alive>>

(* isOn() && getTorPid() != -1: a live control connection answers the pid. *)
StartCheckOn(w) ==
    /\ worker[w] = "check_on"
    /\ IF status = "ON" /\ conn = "live"
         THEN SetTorNetworkEnabledAsync(TRUE) /\ WorkerGoto(w, "idle")
         ELSE WorkerGoto(w, "announce") /\ UNCHANGED netThread
    /\ UNCHANGED <<status, torVars, envVars, queue, stopper, creator, handler,
                   nodes, alive, ghosts>>

(* Fault: starting() is not called. *)
StartAnnounce_Silent(w) ==
    /\ worker[w] = "announce"
    /\ WorkerGoto(w, "manager") \/ WorkerGoto(w, "failed")
    /\ UNCHANGED <<status, torVars, envVars, queue, stopper, netThread, creator, handler,
                   nodes, alive, ghosts>>

(* updateTorrcConfig, which may throw, then starting(). *)
StartAnnounce(w) ==
    /\ worker[w] = "announce"
    /\ \/ status' = "STARTING" /\ WorkerGoto(w, "manager")
       \/ WorkerGoto(w, "failed") /\ UNCHANGED status
    /\ UNCHANGED <<torVars, envVars, queue, stopper, netThread, creator, handler,
                   nodes, alive, ghosts>>

(***************************************************************************)
(* onionProxyManager.start(): nothing happens when there is a control      *)
(* connection, whether Tor answers on it or not; else a running Tor is     *)
(* found or a new one spawned.  An exiting Tor keeps the data directory    *)
(* locked, so that a spawn fails.                                          *)
(***************************************************************************)
ManagerStart(w) ==
    /\ worker[w] = "manager" /\ ManagerFree
    /\ \/ conn # "none" /\ WorkerGoto(w, "register") /\ UNCHANGED tor
       \/ conn = "none" /\ tor = "up" /\ WorkerGoto(w, "found") /\ UNCHANGED tor
       \/ conn = "none" /\ tor = "down" /\ WorkerGoto(w, "spawned") /\ tor' = "up"
       \/ conn = "none" /\ WorkerGoto(w, "failed") /\ UNCHANGED tor
    /\ UNCHANGED <<status, conn, net, envVars, queue, stopper, netThread, creator, handler,
                   nodes, alive, ghosts>>

(* Fault: a failed connection leaves the Tor it spawned. *)
ManagerConnect_LeavesTor(w) ==
    /\ worker[w] \in {"found", "spawned"}
    /\ \/ tor = "up" /\ conn' = "live" /\ net' = TRUE /\ WorkerGoto(w, "register")
       \/ WorkerGoto(w, "failed") /\ UNCHANGED <<conn, net>>
    /\ UNCHANGED <<status, tor, envVars, queue, stopper, netThread, creator, handler,
                   nodes, alive, ghosts>>

(* Connect, authenticate, own, subscribe, enable; a failure ends a Tor it spawned. *)
ManagerConnect(w) ==
    /\ worker[w] \in {"found", "spawned"}
    /\ \/ /\ tor = "up"
          /\ conn' = "live" /\ net' = TRUE
          /\ WorkerGoto(w, "register")
          /\ UNCHANGED tor
       \/ /\ tor' = IF worker[w] = "spawned" THEN "down" ELSE tor
          /\ WorkerGoto(w, "failed")
          /\ UNCHANGED <<conn, net>>
    /\ UNCHANGED <<status, envVars, queue, stopper, netThread, creator, handler,
                   nodes, alive, ghosts>>

(* Registration of the manager's receiver, then updateHiddenServices. *)
StartCompletes(w) ==
    /\ worker[w] = "register"
    /\ WorkerGoto(w, "started")
    /\ UNCHANGED <<status, torVars, envVars, queue, stopper, netThread, creator, handler,
                   nodes, alive, ghosts>>

StartReturns(w) ==
    /\ worker[w] = "started"
    /\ WorkerGoto(w, "idle")
    /\ UNCHANGED <<status, torVars, envVars, queue, stopper, netThread, creator, handler,
                   nodes, alive, ghosts>>

(* Fault: off() is missing in the catch block. *)
StartFails_KeepsStatus(w) ==
    /\ worker[w] = "failed"
    /\ WorkerGoto(w, "idle")
    /\ raced' = (raced \/ conn # "none")
    /\ UNCHANGED <<status, torVars, envVars, queue, stopper, netThread, creator, handler,
                   nodes, alive, clean>>

StartFails(w) ==
    /\ worker[w] = "failed"
    /\ status' = "OFF"
    /\ WorkerGoto(w, "idle")
    /\ raced' = (raced \/ conn # "none")
    /\ UNCHANGED <<torVars, envVars, queue, stopper, netThread, creator, handler,
                   nodes, alive, clean>>
-----------------------------------------------------------------------------
(* stopTorAndClearNotifications, in a thread of its own and unsynchronised. *)
StopBegins(s) ==
    /\ stopper[s] = "begin"
    /\ status' = "STOPPING"
    /\ StopperGoto(s, "manager")
    /\ raced' = (raced \/ InWindow)
    /\ clean' = [w \in Workers |-> FALSE]
    /\ UNCHANGED <<torVars, envVars, queue, worker, netThread, creator, handler,
                   nodes, alive>>

(***************************************************************************)
(* onionProxyManager.stop(): Tor halts on HALT, or because the connection  *)
(* that owns it is closed when HALT cannot be sent.                        *)
(***************************************************************************)
ManagerStop(s) ==
    /\ stopper[s] = "manager" /\ ManagerFree
    /\ conn' = "none"
    /\ tor' = IF conn = "live" THEN "exiting" ELSE tor
    /\ net' = FALSE
    /\ StopperGoto(s, "clear")
    /\ UNCHANGED <<status, envVars, queue, worker, netThread, creator, handler,
                   nodes, alive, ghosts>>

StopClears(s) ==
    /\ stopper[s] = "clear"
    /\ nodes' = {}
    /\ StopperGoto(s, "off")
    /\ UNCHANGED <<status, torVars, envVars, queue, worker, netThread, creator, handler,
                   alive, ghosts>>

(* Fault: off() is missing at the end of the stop. *)
StopCompletes_StaysStopping(s) ==
    /\ stopper[s] = "off"
    /\ StopperGoto(s, "none")
    /\ UNCHANGED <<status, torVars, envVars, queue, worker, netThread, creator, handler,
                   nodes, alive, ghosts>>

StopCompletes(s) ==
    /\ stopper[s] = "off"
    /\ status' = "OFF"
    /\ StopperGoto(s, "none")
    /\ UNCHANGED <<torVars, envVars, queue, worker, netThread, creator, handler,
                   nodes, alive, ghosts>>
-----------------------------------------------------------------------------
(* The thread of onCreate: setupTor, then notifyIfConnectedToTorNetwork. *)
CreatorGoto(p) ==
    /\ creator' = p
    /\ UNCHANGED <<torVars, envVars, queue, worker, stopper, netThread, handler, nodes,
                   alive, clean>>

SetupTor == /\ creator = "setup"
            /\ \E ok \in BOOLEAN : CreatorGoto(IF ok THEN "check" ELSE "done")
            /\ UNCHANGED <<status, raced>>

(* isRunning(): bootstrapped, which only Tor knows, and network enabled. *)
CreatorCheck ==
    /\ creator = "check" /\ ManagerFree
    /\ \E running \in BOOLEAN :
        /\ running => conn = "live" /\ net
        /\ CreatorGoto(IF running THEN "port" ELSE "done")
        /\ raced' = (raced \/ (running /\ StopInProgress))
    /\ UNCHANGED status

(* getIPv4LocalHostSocksPort throws when Tor does not answer. *)
CreatorPort ==
    /\ creator = "port" /\ ManagerFree
    /\ \E found \in BOOLEAN :
        /\ found => conn = "live"
        /\ CreatorGoto(IF found THEN "on" ELSE "done")
    /\ UNCHANGED <<status, raced>>

CreatorOn == /\ creator = "on"
             /\ status' = "ON"
             /\ CreatorGoto("done")
             /\ UNCHANGED raced
-----------------------------------------------------------------------------
(* TorEventHandler.circuitStatus: the test of isStarting, on(), the put. *)
HandlerGoto(p, c) ==
    /\ handler' = [pc |-> p, circ |-> c]
    /\ UNCHANGED <<torVars, envVars, queue, worker, stopper, netThread, creator,
                   alive, clean>>

CircuitBuilt(c) ==
    /\ handler.pc = "idle" /\ conn = "live" /\ net /\ tor = "up"
    /\ HandlerGoto(IF status = "STARTING" THEN "on" ELSE "put", c)
    /\ raced' = (raced \/ StopInProgress)
    /\ UNCHANGED <<status, nodes>>

CircuitOn ==
    /\ handler.pc = "on"
    /\ status' = "ON"
    /\ HandlerGoto("put", handler.circ)
    /\ UNCHANGED <<nodes, raced>>

(* Recorded only when Prefs.expandedNotifications(). *)
CircuitPut ==
    /\ handler.pc = "put"
    /\ \/ nodes' = nodes \cup {handler.circ}
       \/ UNCHANGED nodes
    /\ HandlerGoto("idle", handler.circ)
    /\ UNCHANGED <<status, raced>>

CircuitClosed(c) ==
    /\ handler.pc = "idle" /\ conn = "live" /\ c \in nodes
    /\ nodes' = nodes \ {c}
    /\ HandlerGoto("idle", c)
    /\ UNCHANGED <<status, raced>>
-----------------------------------------------------------------------------
(* mNetworkStateReceiver, on the main thread; pref_disable_network is on. *)
OnReceive ==
    /\ alive /\ changed
    /\ changed' = FALSE
    /\ IF status = "OFF" THEN UNCHANGED netThread ELSE SetTorNetworkEnabledAsync(online)
    /\ UNCHANGED <<status, torVars, online, changedM, queue, worker, stopper, creator, handler,
                   nodes, alive, ghosts>>

(* The receiver of AndroidOnionProxyManager: if isRunning(), enableNetwork(online). *)
ManagerReceives ==
    /\ changedM /\ ManagerFree
    /\ changedM' = FALSE
    /\ \E running \in BOOLEAN :
        /\ running => conn = "live" /\ net
        /\ net' = IF running THEN online ELSE net
    /\ UNCHANGED <<status, conn, tor, online, changed, queue, worker, stopper, netThread,
                   creator, handler, nodes, alive, ghosts>>

(* The environment: connectivity, and the end of the Tor process. *)
ConnectivityChanges ==
    /\ Flaky
    /\ online' = ~online
    /\ changed' = alive
    /\ changedM' = (conn # "none")
    /\ UNCHANGED <<status, torVars, queue, worker, stopper, netThread, creator, handler,
                   nodes, alive, ghosts>>

TorExits ==
    /\ tor = "exiting"
    /\ tor' = "down"
    /\ UNCHANGED <<status, conn, net, envVars, queue, worker, stopper, netThread, creator,
                   handler, nodes, alive, ghosts>>

(* Tor ends by itself; nothing tells the manager. *)
TorDies ==
    /\ tor = "up"
    /\ tor' = "down"
    /\ conn' = IF conn = "live" THEN "stale" ELSE conn
    /\ net' = FALSE
    /\ UNCHANGED <<status, envVars, queue, worker, stopper, netThread, creator, handler,
                   nodes, alive, ghosts>>

(***************************************************************************)
(* Android kills the application and, the service being START_STICKY,      *)
(* creates it again with no intent.  Tor dies with the connection that     *)
(* owns it; a Tor that was just spawned is left behind.                    *)
(***************************************************************************)
ProcessKilled ==
    /\ alive
    /\ raced' = (tor = "up" /\ conn = "none")
    /\ tor' = IF conn = "live" THEN "exiting" ELSE tor
    /\ conn' = "none" /\ net' = FALSE
    /\ status' = "OFF"
    /\ changed' = FALSE /\ changedM' = FALSE
    /\ queue' = <<>>
    /\ worker' = [w \in Workers |-> "idle"]
    /\ stopper' = [s \in Stoppers |-> "none"]
    /\ netThread' = [n \in NetThreads |-> "none"]
    /\ creator' = "setup"
    /\ handler' = [pc |-> "idle", circ |-> handler.circ]
    /\ nodes' = {}
    /\ clean' = [w \in Workers |-> FALSE]
    /\ UNCHANGED <<online, alive>>
-----------------------------------------------------------------------------
StartStep(w) == \/ StartTor(w) \/ StartCheckOn(w) \/ StartAnnounce(w) \/ ManagerStart(w)
                \/ ManagerConnect(w) \/ StartCompletes(w) \/ StartReturns(w) \/ StartFails(w)
RouteStep(w) == RouteOther(w) \/ RouteStart(w)
StopStep(s) == StopBegins(s) \/ ManagerStop(s) \/ StopClears(s) \/ StopCompletes(s)
CreatorStep == SetupTor \/ CreatorCheck \/ CreatorPort \/ CreatorOn
HandlerStep == CircuitOn \/ CircuitPut
TorEvent == \E c \in Circuits : CircuitBuilt(c) \/ CircuitClosed(c)

ServiceStep == \/ \E w \in Workers : RouteStep(w) \/ StartStep(w)
               \/ \E s \in Stoppers : StopStep(s)
               \/ \E n \in NetThreads : NetThreadRuns(n)
               \/ CreatorStep \/ HandlerStep \/ OnReceive \/ ManagerReceives
ClientStep == (\E a \in Actions : OnStartCommand(a)) \/ OnTaskRemoved \/ OnDestroy
TorStep == TorEvent \/ TorExits \/ TorDies
Next == ServiceStep \/ ClientStep \/ TorStep \/ ConnectivityChanges \/ ProcessKilled

Spec == Init /\ [][Next]_vars

(* The same while the application is not killed. *)
UnkilledSpec == Init /\ [][ServiceStep \/ ClientStep \/ TorStep \/ ConnectivityChanges]_vars

(***************************************************************************)
(* Fairness: Android and Java schedule every runnable thread; the manager's*)
(* waits for Tor have timeouts; a halted Tor ends.  Nothing is assumed of  *)
(* clients, connectivity, circuits or Tor's health, and the application is *)
(* not killed.                                                             *)
(***************************************************************************)
Fairness ==
    /\ \A w \in Workers : WF_vars(RouteStep(w)) /\ WF_vars(StartStep(w))
    /\ \A s \in Stoppers : WF_vars(StopStep(s))
    /\ \A n \in NetThreads : WF_vars(NetThreadRuns(n))
    /\ WF_vars(CreatorStep) /\ WF_vars(HandlerStep) /\ WF_vars(TorExits)
LiveSpec == UnkilledSpec /\ Fairness
-----------------------------------------------------------------------------
Quiet == /\ \A w \in Workers : worker[w] = "idle"
         /\ ~StopPending
         /\ \A n \in NetThreads : netThread[n] = "none"
         /\ creator = "done" /\ handler.pc = "idle"
         /\ ~changed /\ ~changedM /\ tor # "exiting"

(***************************************************************************)
(* A startTor that no stop overlaps and that does not fail does its work,  *)
(* whatever earlier races left behind: when it returns there is a control  *)
(* connection, to a running Tor unless Tor died, and the status is         *)
(* STARTING or ON.                                                         *)
(***************************************************************************)
StartEffective ==
    \A w \in Workers : worker[w] = "started" /\ clean[w] =>
        /\ status \in {"STARTING", "ON"}
        /\ conn = "stale" \/ (conn = "live" /\ tor = "up")

(***************************************************************************)
(* Tor never runs unattended: a Tor without a control connection is being  *)
(* started, or was left by a killed application.  In particular no         *)
(* interleaving of startTor and stop, and no failed start, leaves one.     *)
(***************************************************************************)
NoOrphanTor ==
    tor = "up" /\ conn = "none" => raced \/ \E w \in Workers : worker[w] = "spawned"

(***************************************************************************)
(* When all threads are done, and unless a stop met a check-then-act       *)
(* window, the status agrees with the connection: OFF without one, with    *)
(* no circuit listed, STARTING or ON with one, and never STOPPING.         *)
(***************************************************************************)
QuietStatusAgrees ==
    Quiet /\ ~raced => \/ status = "OFF" /\ conn = "none" /\ nodes = {}
                       \/ status \in {"STARTING", "ON"} /\ conn # "none"

(***************************************************************************)
(* A start request never cuts a stop short: from STOPPING the status goes  *)
(* to OFF, unless the two had overlapped before.                           *)
(***************************************************************************)
StoppingOnlyEnds ==
    [][status = "STOPPING" /\ status' # "STOPPING" /\ ~raced' => status' = "OFF"]_vars

(***************************************************************************)
(* The inductive invariant behind the four properties above.  Connected:   *)
(* a live connection has its Tor, and startTor runs in one thread at a     *)
(* time.  CleanStart: while a start is not overlapped, no stop is at work, *)
(* and status and connection are as far as the start has come.  Settled:   *)
(* unless raced, windows and stops exclude each other, and status,         *)
(* connection and circuits agree wherever no start or stop is between its  *)
(* writes.                                                                 *)
(***************************************************************************)
Connected ==
    /\ conn = "live" => tor = "up"
    /\ conn = "stale" => tor = "down"
    /\ \A w \in Workers : worker[w] \in {"found", "spawned"} => conn = "none"
    /\ \A v, w \in Workers : worker[v] \in PastCheck /\ worker[w] \in PastCheck => v = w

CleanStart ==
    \A w \in Workers : clean[w] /\ worker[w] \in PastCheck =>
        /\ ~StopInProgress
        /\ worker[w] \in {"manager", "found", "spawned", "register", "started"}
              => status \in {"STARTING", "ON"}
        /\ worker[w] \in {"register", "started"} => conn # "none"

Agreed == \/ status = "OFF" /\ conn = "none"
          \/ status \in {"STARTING", "ON"} /\ conn # "none"

Settled ==
    ~raced =>
        /\ ~(StopInProgress /\ InWindow)
        /\ conn = "none" => handler.pc = "idle" /\ creator \notin {"port", "on"}
        /\ conn = "none" /\ ~StopInProgress => nodes = {}
        /\ \A s \in Stoppers : /\ stopper[s] \in {"clear", "off"} => conn = "none"
                               /\ stopper[s] = "off" => nodes = {}
        /\ \A w \in Workers :
              worker[w] \in {"manager", "found", "spawned"} => status \in {"STARTING", "ON"}
        /\ \/ StopInProgress
           \/ \E w \in Workers : worker[w] \in {"manager", "found", "spawned", "failed"}
           \/ Agreed

ServiceInv == /\ TypeOK /\ Connected /\ NoOrphanTor /\ CleanStart /\ Settled
              /\ status = "STOPPING" => StopInProgress

(***************************************************************************)
(* The pool never wedges: a full queue of intents is drained, whatever     *)
(* Tor, clients and stop threads do meanwhile.                             *)
(***************************************************************************)
PoolDrains == (Len(queue) = MaxQueue) ~> (Len(queue) < MaxQueue)

(***************************************************************************)
(* Every stop that begins ends with Tor disconnected and the status OFF,   *)
(* unless it overlaps a check-then-act window.                             *)
(***************************************************************************)
StopCompletesOff ==
    \A s \in Stoppers : (stopper[s] = "begin") ~> (raced \/ (status = "OFF" /\ conn = "none"))

(***************************************************************************)
(* Both, with the same threads: no intent handed to the executor and no    *)
(* stopTorAsync is left half done.                                         *)
(***************************************************************************)
WorkCompletes == PoolDrains /\ StopCompletesOff

=============================================================================
