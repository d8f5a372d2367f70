--------------------------- MODULE OrbotVpnManager ---------------------------
(***************************************************************************)
(* OrbotVpnManager.java and Tun2Socks.java on Android 5 (API 21) and later:*)
(* the intents start, stop and refresh, handled one at a time on the main  *)
(* thread, and the threads that setupTun2Socks creates, each of which sets *)
(* up pdnsd and the VPN interface and then stays inside the native         *)
(* tun2socks.  The fields mInterface, mThreadVPN and isRestart are shared  *)
(* without a lock (setupTun2Socks is synchronized, but the threads it      *)
(* creates and stopVPN are not), so every access is a step.                *)
(***************************************************************************)
EXTENDS Naturals, FiniteSets

CONSTANTS
    Sessions,   \* threads of setupTun2Socks that can be alive at the same time
    NoSession   \* null

ASSUME NoSessionIsNone == NoSession \notin Sessions

VARIABLES
    main,       \* the main thread: idle, or inside stopVPN
    mThreadVPN, \* the session thread, or null
    mInterface, \* the session whose interface mInterface refers to, or null
    isRestart,
    thread,     \* what each session thread is doing
    fd,         \* the interface that each session has established
    runs,       \* the session whose interface each native tun2socks serves
    dns,        \* pdnsd is running
    stopped,    \* ghost: the last intent that had an effect was stop
    overlapped, \* ghost: an intent has met a session that was being set up
    gaveUp      \* ghost: the last stopVPN could not kill pdnsd

vars == <<main, mThreadVPN, mInterface, isRestart, thread, fd, runs, dns, stopped, overlapped, gaveUp>>

SettingUp == {"wait", "dns", "establish", "test_old", "close_old", "null_old", "assign", "start"}
Native == {"native", "ending"}

TypeOK ==
    /\ main \in {"idle", "test", "close", "null", "terminate", "kill"}
    /\ mThreadVPN \in Sessions \cup {NoSession}
    /\ mInterface \in Sessions \cup {NoSession}
    /\ isRestart \in BOOLEAN /\ dns \in BOOLEAN
    /\ stopped \in BOOLEAN /\ overlapped \in BOOLEAN /\ gaveUp \in BOOLEAN
    /\ thread \in [Sessions -> SettingUp \cup Native \cup {"dead"}]
    /\ fd \in [Sessions -> {"none", "open", "detached", "closed"}]
    /\ runs \in [Sessions -> Sessions \cup {NoSession}]

Init ==
    /\ main = "idle"
    /\ mThreadVPN = NoSession /\ mInterface = NoSession
    /\ isRestart = FALSE
    /\ thread = [t \in Sessions |-> "dead"]
    /\ fd = [t \in Sessions |-> "none"]
    /\ runs = [t \in Sessions |-> NoSession]
    /\ dns = FALSE
    /\ stopped = TRUE /\ overlapped = FALSE /\ gaveUp = FALSE

Goto(t, s) == thread' = [thread EXCEPT ![t] = s]
SetFd(t, s) == fd' = [fd EXCEPT ![t] = s]
InSetup == \E t \in Sessions : thread[t] \in SettingUp

(* Tun2Socks.Stop ends the native instances that run; it leaves no trace for later ones. *)
Terminated == [t \in Sessions |-> IF thread[t] = "native" THEN "ending" ELSE thread[t]]

(* Fault: a restart leaves the old instance running. *)
SetupTun2Socks_NoStop ==
    \E t \in Sessions :
        /\ thread[t] = "dead" /\ fd[t] \in {"none", "closed"} /\ t # mInterface
        /\ \A u \in Sessions : runs[u] # t
        /\ isRestart' = (isRestart \/ mInterface # NoSession)
        /\ Goto(t, "wait")
        /\ fd' = [fd EXCEPT ![t] = "none"]
        /\ mThreadVPN' = t
        /\ stopped' = FALSE
        /\ overlapped' = (overlapped \/ InSetup)

(***************************************************************************)
(* setupTun2Socks: a session that has an interface is taken for running.   *)
(* A new session takes the place of a dead one whose interface is gone.    *)
(***************************************************************************)
SetupTun2Socks ==
    \E t \in Sessions :
        /\ thread[t] = "dead" /\ fd[t] \in {"none", "closed"} /\ t # mInterface
        /\ \A u \in Sessions : runs[u] # t
        /\ isRestart' = (isRestart \/ mInterface # NoSession)
        /\ thread' = [IF mInterface # NoSession THEN Terminated ELSE thread
                        EXCEPT ![t] = "wait"]
        /\ fd' = [fd EXCEPT ![t] = "none"]
        /\ mThreadVPN' = t
        /\ stopped' = FALSE
        /\ overlapped' = (overlapped \/ InSetup)

(* Start is ignored while the session thread is alive. *)
HandleStart ==
    /\ main = "idle"
    /\ \A t \in Sessions : t = mThreadVPN => thread[t] = "dead"
    /\ SetupTun2Socks
    /\ UNCHANGED <<main, mInterface, runs, dns, gaveUp>>

HandleRefresh ==
    /\ main = "idle"
    /\ ~isRestart
    /\ SetupTun2Socks
    /\ UNCHANGED <<main, mInterface, runs, dns, gaveUp>>

HandleStop ==
    /\ main = "idle"
    /\ main' = "test"
    /\ stopped' = TRUE
    /\ overlapped' = (overlapped \/ InSetup)
    /\ UNCHANGED <<mThreadVPN, mInterface, isRestart, thread, fd, runs, dns, gaveUp>>
-----------------------------------------------------------------------------
(***************************************************************************)
(* stopVPN.  Closing a descriptor that was detached, or closed before, has *)
(* no effect; on a reference that has become null it throws, and the null  *)
(* assignment is skipped.                                                  *)
(***************************************************************************)
StopTests ==
    /\ main = "test"
    /\ main' = IF mInterface = NoSession THEN "terminate" ELSE "close"
    /\ UNCHANGED <<mThreadVPN, mInterface, isRestart, thread, fd, runs, dns, stopped, overlapped, gaveUp>>

Close(t) == fd' = IF t # NoSession /\ fd[t] = "open" THEN [fd EXCEPT ![t] = "closed"] ELSE fd

StopCloses ==
    /\ main = "close"
    /\ main' = IF mInterface = NoSession THEN "terminate" ELSE "null"
    /\ Close(mInterface)
    /\ UNCHANGED <<mThreadVPN, mInterface, isRestart, thread, runs, dns, stopped, overlapped, gaveUp>>

StopNulls ==
    /\ main = "null"
    /\ main' = "terminate"
    /\ mInterface' = NoSession
    /\ UNCHANGED <<mThreadVPN, isRestart, thread, fd, runs, dns, stopped, overlapped, gaveUp>>

(* Fault: tun2socks is terminated only if there still is an interface. *)
StopTerminates_WithInterface ==
    /\ main = "terminate"
    /\ main' = "kill"
    /\ thread' = IF mInterface # NoSession THEN Terminated ELSE thread
    /\ UNCHANGED <<mThreadVPN, mInterface, isRestart, fd, runs, dns, stopped, overlapped, gaveUp>>

StopTerminates ==
    /\ main = "terminate"
    /\ main' = "kill"
    /\ thread' = Terminated
    /\ UNCHANGED <<mThreadVPN, mInterface, isRestart, fd, runs, dns, stopped, overlapped, gaveUp>>

(***************************************************************************)
(* killProcess returns when no pdnsd is found; it throws after the fifth   *)
(* attempt, or when the process list cannot be read, and stopVPN goes on.  *)
(***************************************************************************)
StopKills ==
    /\ main = "kill"
    /\ main' = "idle"
    /\ \/ dns' = FALSE /\ gaveUp' = FALSE
       \/ (dns' = FALSE \/ UNCHANGED dns) /\ gaveUp' = TRUE
    /\ mThreadVPN' = NoSession
    /\ UNCHANGED <<mInterface, isRestart, thread, fd, runs, stopped, overlapped>>
-----------------------------------------------------------------------------
(* The run method of a session thread; an exception ends it where it is. *)
SessionWaits(t) ==
    /\ thread[t] = "wait"
    /\ Goto(t, "dns")
    /\ UNCHANGED <<main, mThreadVPN, mInterface, isRestart, fd, runs, dns, stopped, overlapped, gaveUp>>

(* startDNS; a pdnsd that already runs goes on, and one that fails is only logged. *)
StartDNS(t) ==
    /\ thread[t] = "dns"
    /\ \/ Goto(t, "establish") /\ (dns' = TRUE \/ UNCHANGED dns)
       \/ Goto(t, "dead") /\ UNCHANGED dns
    /\ UNCHANGED <<main, mThreadVPN, mInterface, isRestart, fd, runs, stopped, overlapped, gaveUp>>

(* establish() returns an interface, or null without permission, or throws. *)
Establish(t) ==
    /\ thread[t] = "establish"
    /\ \/ Goto(t, "test_old") /\ SetFd(t, "open")
       \/ Goto(t, "test_old") /\ UNCHANGED fd
       \/ Goto(t, "dead") /\ UNCHANGED fd
    /\ UNCHANGED <<main, mThreadVPN, mInterface, isRestart, runs, dns, stopped, overlapped, gaveUp>>

TestOld(t) ==
    /\ thread[t] = "test_old"
    /\ Goto(t, IF mInterface = NoSession THEN "assign" ELSE "close_old")
    /\ UNCHANGED <<main, mThreadVPN, mInterface, isRestart, fd, runs, dns, stopped, overlapped, gaveUp>>

(* A null reference throws, and the session dies with its interface open. *)
CloseOld(t) ==
    /\ thread[t] = "close_old"
    /\ Goto(t, IF mInterface = NoSession THEN "dead" ELSE "null_old")
    /\ Close(mInterface)
    /\ UNCHANGED <<main, mThreadVPN, mInterface, isRestart, runs, dns, stopped, overlapped, gaveUp>>

NullOld(t) ==
    /\ thread[t] = "null_old"
    /\ Goto(t, "assign")
    /\ mInterface' = NoSession
    /\ UNCHANGED <<main, mThreadVPN, isRestart, fd, runs, dns, stopped, overlapped, gaveUp>>

Assign(t) ==
    /\ thread[t] = "assign"
    /\ Goto(t, "start")
    /\ mInterface' = IF fd[t] = "open" THEN t ELSE NoSession
    /\ UNCHANGED <<main, mThreadVPN, isRestart, fd, runs, dns, stopped, overlapped, gaveUp>>

(***************************************************************************)
(* Tun2Socks.Start reads mInterface again: null returns at once, detachFd  *)
(* of a descriptor that is closed or was detached throws.  One step: the   *)
(* static field it goes through only lets a session take the interface of  *)
(* another one, which reading mInterface late does as well.                *)
(***************************************************************************)
Start(t) ==
    /\ thread[t] = "start"
    /\ \/ /\ mInterface = NoSession
          /\ Goto(t, "dead") /\ isRestart' = FALSE
          /\ UNCHANGED <<fd, runs>>
       \/ /\ mInterface # NoSession /\ fd[mInterface] = "open"
          /\ Goto(t, "native")
          /\ SetFd(mInterface, "detached")
          /\ runs' = [runs EXCEPT ![t] = mInterface]
          /\ UNCHANGED isRestart
       \/ /\ mInterface # NoSession /\ fd[mInterface] # "open"
          /\ Goto(t, "dead")
          /\ UNCHANGED <<isRestart, fd, runs>>
    /\ UNCHANGED <<main, mThreadVPN, mInterface, dns, stopped, overlapped, gaveUp>>

(* The native code returns, because it was terminated or by itself. *)
NativeEnds(t) ==
    /\ thread[t] \in Native
    /\ Goto(t, "dead")
    /\ isRestart' = FALSE
    /\ SetFd(runs[t], "closed")
    /\ runs' = [runs EXCEPT ![t] = NoSession]
    /\ UNCHANGED <<main, mThreadVPN, mInterface, dns, stopped, overlapped, gaveUp>>
-----------------------------------------------------------------------------
StopStep == StopTests \/ StopCloses \/ StopNulls \/ StopTerminates \/ StopKills
SetupStep(t) == \/ SessionWaits(t) \/ StartDNS(t) \/ Establish(t) \/ TestOld(t)
                \/ CloseOld(t) \/ NullOld(t) \/ Assign(t) \/ Start(t)
Intent == HandleStart \/ HandleRefresh \/ HandleStop

Next == Intent \/ StopStep \/ \E t \in Sessions : SetupStep(t) \/ NativeEnds(t)

Spec == Init /\ [][Next]_vars

(***************************************************************************)
(* Fairness: the main thread and the session threads run, pdnsd's parent   *)
(* and establish() return, and a terminated tun2socks ends.  A session     *)
(* that is not terminated may run for ever, and no intent need come.       *)
(***************************************************************************)
Fairness ==
    /\ WF_vars(StopStep)
    /\ \A t \in Sessions : WF_vars(SetupStep(t)) /\ WF_vars(thread[t] = "ending" /\ NativeEnds(t))
FairSpec == Spec /\ Fairness
-----------------------------------------------------------------------------
(***************************************************************************)
(* However intents and sessions interleave, each native tun2socks serves   *)
(* a descriptor that was detached for it alone: none is started on a       *)
(* closed interface, and no two share one, although every session reads    *)
(* the shared field mInterface.                                            *)
(***************************************************************************)
NativeOwnsInterface ==
    /\ \A t \in Sessions : thread[t] \in Native <=> runs[t] # NoSession
    /\ \A t \in Sessions : runs[t] # NoSession => fd[runs[t]] = "detached"
    /\ \A t, u \in Sessions : runs[t] # NoSession /\ runs[t] = runs[u] => t = u

(***************************************************************************)
(* When no intent meets a session that is being set up, a restart hands    *)
(* over: at most one tun2socks runs that was not told to end.              *)
(***************************************************************************)
SpacedOneInstance ==
    ~overlapped => \A t, u \in Sessions : thread[t] = "native" /\ thread[u] = "native" => t = u

(***************************************************************************)
(* When no intent meets a session that is being set up, stopVPN cleans up: *)
(* after it no interface is referenced or left open, and no pdnsd runs     *)
(* unless killProcess gave up.                                             *)
(***************************************************************************)
StopEffective ==
    ~overlapped /\ stopped /\ main = "idle" =>
        /\ mInterface = NoSession /\ (dns => gaveUp)
        /\ \A t \in Sessions : fd[t] # "open" /\ thread[t] # "native"

(***************************************************************************)
(* The inductive invariant behind the two.  Without overlap there is one   *)
(* session in setup at most, and none during stopVPN; it knows what        *)
(* mInterface holds; a running tun2socks is found by the next stop or      *)
(* restart; and an open interface is always referred to.                   *)
(***************************************************************************)
Spaced ==
    ~overlapped =>
        /\ \A t, u \in Sessions : thread[t] \in SettingUp /\ thread[u] \in SettingUp => t = u
        /\ InSetup => main = "idle" /\ ~stopped
        /\ \A t \in Sessions : thread[t] = "close_old" => mInterface # NoSession
        /\ \A t \in Sessions : thread[t] = "assign" => mInterface = NoSession
        /\ \A t \in Sessions : thread[t] = "native" =>
              /\ ~InSetup /\ main # "kill"
              /\ main # "terminate" => mInterface # NoSession
        /\ \A t \in Sessions : fd[t] = "open" =>
              t = mInterface \/ thread[t] \in {"test_old", "close_old", "null_old", "assign"}
        /\ \A t \in Sessions : thread[t] = "null_old" =>
              \A u \in Sessions : u = mInterface => fd[u] # "open"
        /\ main = "null" => \A t \in Sessions : fd[t] # "open"
        /\ main \in {"terminate", "kill"} => mInterface = NoSession
        /\ main \in {"test", "close", "null", "terminate", "kill"} => stopped

(* The interface of a session is unknown to all others until it is assigned. *)
Fresh ==
    \A t \in Sessions :
        thread[t] \in {"wait", "dns", "establish", "test_old", "close_old", "null_old", "assign"} =>
            t # mInterface /\ \A u \in Sessions : runs[u] # t

VpnInv == /\ TypeOK /\ NativeOwnsInterface /\ Fresh
          /\ SpacedOneInstance /\ StopEffective /\ Spaced

(***************************************************************************)
(* After a stop that met no setup, every session thread ends, unless a     *)
(* later intent starts one.                                                *)
(***************************************************************************)
SessionsEnd ==
    (main = "test" /\ ~overlapped)
        ~> ((\A t \in Sessions : thread[t] = "dead") \/ ~stopped \/ overlapped)

=============================================================================
