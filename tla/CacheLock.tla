------------------------------ MODULE CacheLock ------------------------------
(***************************************************************************)
(* The reader/writer lock of pdnsd's DNS cache (jni/pdnsd/src/cache.c):    *)
(* lock_cache_r, lock_cache_rw, timedlock_cache_rw, yield_lock_cache_rw,   *)
(* their unlock functions, and the "soft" versions the main thread uses    *)
(* while the process exits.                                                *)
(*                                                                         *)
(* Every critical section of lock_mutex is one step.  A condition variable *)
(* is the set of threads that sleep on it: a signalled thread leaves the   *)
(* set and tests the loop condition again in a later step of its own, so   *)
(* that other threads can enter in between.                                *)
(***************************************************************************)
EXTENDS Integers, FiniteSets

CONSTANTS
    Threads,   \* every thread but main: query, server status, control socket
    Emptiers,  \* the threads that run empty_cache (the control socket thread)
    MaxTries   \* SOFTLOCK_MAXTRIES

ASSUME ThreadsFinite == IsFiniteSet(Threads)
(***************************************************************************)
(* empty_cache is called from status_thread only, of which there is one;   *)
(* the argument needs no more than two callers.                            *)
(***************************************************************************)
ASSUME EmptiersFew == Emptiers \subseteq Threads /\ Cardinality(Emptiers) <= 2
ASSUME MainIsNoThread == "main" \notin Threads
ASSUME MaxTriesPositive == MaxTries \in Nat \ {0}

VARIABLES
    cache_w_lock,  \* a writer is in
    cache_r_lock,  \* number of readers that are in
    r_pend,        \* number of threads inside the loop of lock_cache_r
    rw_pend,       \* number of threads inside a loop of the rw lock functions
    r_susp,        \* read locking is suspended
    r_cond,        \* threads asleep on r_cond
    rw_cond,       \* threads asleep on rw_cond
    pc,            \* what each thread is doing
    exitpc,        \* what the main thread is doing
    tries          \* failed tries of the main thread's current soft lock

lockVars == <<cache_w_lock, cache_r_lock, r_pend, rw_pend, r_susp>>
condVars == <<r_cond, rw_cond>>
mainVars == <<exitpc, tries>>
vars == <<lockVars, condVars, pc, mainVars>>

(***************************************************************************)
(* States of a thread.  e_* are states inside empty_cache: e_wait in the   *)
(* loop of timedlock_cache_rw, e_expired when its wait has timed out but   *)
(* lock_mutex is not reacquired yet, e_held with the lock, and y_* inside  *)
(* yield_lock_cache_rw.                                                    *)
(***************************************************************************)
ReadWaiting  == {"r_wait"}
WriteWaiting == {"w_wait", "e_wait", "e_expired", "y_wait"}
WriteHolding == {"w_held", "e_held", "y_test", "y_give"}
ThreadStates == {"idle", "r_held", "y_sleep"}
                   \cup ReadWaiting \cup WriteWaiting \cup WriteHolding

(* The main thread: sigwait, write_disk_cache, destroy_cache, _exit. *)
ExitStates == {"run", "purge_lock", "purge", "write_lock", "write",
               "destroy_lock", "destroy", "dead"}

TypeOK == /\ cache_w_lock \in BOOLEAN
          /\ cache_r_lock \in Nat
          /\ r_pend \in Nat
          /\ rw_pend \in Nat
          /\ r_susp \in BOOLEAN
          /\ r_cond \subseteq Threads
          /\ rw_cond \subseteq Threads
          /\ pc \in [Threads -> ThreadStates]
          /\ exitpc \in ExitStates
          /\ tries \in 0 .. MaxTries - 1

SUSP_THRESH(r) == r \div 2 + 2

Init == /\ cache_w_lock = FALSE
        /\ cache_r_lock = 0
        /\ r_pend = 0
        /\ rw_pend = 0
        /\ r_susp = FALSE
        /\ r_cond = {}
        /\ rw_cond = {}
        /\ pc = [t \in Threads |-> "idle"]
        /\ exitpc = "run"
        /\ tries = 0

Goto(t, s) == pc' = [pc EXCEPT ![t] = s]
Busy == cache_w_lock \/ cache_r_lock > 0

Signal(cond) == \/ cond = {} /\ cond' = {}
                \/ \E t \in cond : cond' = cond \ {t}
Broadcast(cond) == cond' = {}

(***************************************************************************)
(* The loop of lock_cache_r.  The test suspends read locking as a side     *)
(* effect when too many writers are pending.                               *)
(***************************************************************************)
TryRead(t, rp) ==
    LET susp == r_susp \/ rw_pend > SUSP_THRESH(rp) IN
    /\ r_susp' = susp
    /\ IF susp \/ cache_w_lock
         THEN /\ r_pend' = rp
              /\ r_cond' = r_cond \cup {t}
              /\ Goto(t, "r_wait")
              /\ UNCHANGED cache_r_lock
         ELSE /\ r_pend' = rp - 1
              /\ cache_r_lock' = cache_r_lock + 1
              /\ Goto(t, "r_held")
              /\ UNCHANGED r_cond
    /\ UNCHANGED <<cache_w_lock, rw_pend, rw_cond, mainVars>>

(* The loop of the rw lock functions. *)
TryWrite(t, wp, waiting, holding) ==
    /\ IF Busy
         THEN /\ rw_pend' = wp
              /\ rw_cond' = rw_cond \cup {t}
              /\ Goto(t, waiting)
              /\ UNCHANGED cache_w_lock
         ELSE /\ rw_pend' = wp - 1
              /\ cache_w_lock' = TRUE
              /\ Goto(t, holding)
              /\ UNCHANGED rw_cond
    /\ UNCHANGED <<cache_r_lock, r_pend, r_susp, r_cond, mainVars>>

(* Fault: the end of a write never wakes the readers. *)
ReleaseWrite_NoBroadcast(t, next) ==
    /\ cache_w_lock' = FALSE
    /\ r_susp' = FALSE
    /\ Signal(rw_cond)
    /\ Goto(t, next)
    /\ UNCHANGED <<cache_r_lock, r_pend, rw_pend, r_cond, mainVars>>
(* Lifting the rw lock: unlock_cache_rw, and the first half of a yield. *)
ReleaseWrite(t, next) ==
    /\ cache_w_lock' = FALSE
    /\ r_susp' = FALSE
    /\ IF r_pend = 0 \/ rw_pend > SUSP_THRESH(r_pend)
         THEN Signal(rw_cond) /\ UNCHANGED r_cond
         ELSE Broadcast(r_cond) /\ UNCHANGED rw_cond
    /\ Goto(t, next)
    /\ UNCHANGED <<cache_r_lock, r_pend, rw_pend, mainVars>>

Alive == exitpc # "dead"

LockR(t)   == Alive /\ pc[t] = "idle" /\ TryRead(t, r_pend + 1)
RetryR(t)  == Alive /\ pc[t] = "r_wait" /\ t \notin r_cond /\ TryRead(t, r_pend)

(* Fault: the last reader leaves without waking a writer. *)
UnlockR_NoSignal(t) ==
    /\ Alive /\ pc[t] = "r_held"
    /\ cache_r_lock' = IF cache_r_lock > 0 THEN cache_r_lock - 1 ELSE cache_r_lock
    /\ Goto(t, "idle")
    /\ UNCHANGED <<cache_w_lock, r_pend, rw_pend, r_susp, condVars, mainVars>>
UnlockR(t) ==
    /\ Alive /\ pc[t] = "r_held"
    /\ cache_r_lock' = IF cache_r_lock > 0 THEN cache_r_lock - 1 ELSE cache_r_lock
    /\ IF cache_r_lock' = 0 THEN Signal(rw_cond) ELSE UNCHANGED rw_cond
    /\ Goto(t, "idle")
    /\ UNCHANGED <<cache_w_lock, r_pend, rw_pend, r_susp, r_cond, mainVars>>

LockRW(t)  == Alive /\ pc[t] = "idle" /\ TryWrite(t, rw_pend + 1, "w_wait", "w_held")
RetryRW(t) == /\ Alive /\ pc[t] = "w_wait" /\ t \notin rw_cond
              /\ TryWrite(t, rw_pend, "w_wait", "w_held")
UnlockRW(t) == Alive /\ pc[t] \in {"w_held", "e_held"} /\ ReleaseWrite(t, "idle")

TimedLockRW(t) == /\ Alive /\ t \in Emptiers /\ pc[t] = "idle"
                  /\ TryWrite(t, rw_pend + 1, "e_wait", "e_held")
RetryTimed(t)  == /\ Alive /\ pc[t] = "e_wait" /\ t \notin rw_cond
                  /\ TryWrite(t, rw_pend, "e_wait", "e_held")

(***************************************************************************)
(* pthread_cond_timedwait ends with ETIMEDOUT: the thread is no longer a   *)
(* sleeper that a signal could reach, but it still counts in rw_pend until *)
(* it has lock_mutex again and gives up.                                   *)
(***************************************************************************)
Expire(t) == /\ Alive /\ pc[t] = "e_wait" /\ t \in rw_cond
             /\ rw_cond' = rw_cond \ {t}
             /\ Goto(t, "e_expired")
             /\ UNCHANGED <<lockVars, r_cond, mainVars>>
GiveUp(t) == /\ Alive /\ pc[t] = "e_expired"
             /\ rw_pend' = rw_pend - 1
             /\ Goto(t, "idle")
             /\ UNCHANGED <<cache_w_lock, cache_r_lock, r_pend, r_susp, condVars, mainVars>>

(***************************************************************************)
(* yield_lock_cache_rw between two hash buckets of empty_cache.  r_pend    *)
(* and rw_pend are read one after the other and without lock_mutex.        *)
(***************************************************************************)
YieldReadR(t) == /\ Alive /\ pc[t] = "e_held"
                 /\ Goto(t, IF r_pend # 0 THEN "y_give" ELSE "y_test")
                 /\ UNCHANGED <<lockVars, condVars, mainVars>>
YieldReadRW(t) == /\ Alive /\ pc[t] = "y_test"
                  /\ Goto(t, IF rw_pend # 0 THEN "y_give" ELSE "e_held")
                  /\ UNCHANGED <<lockVars, condVars, mainVars>>
YieldGive(t)   == Alive /\ pc[t] = "y_give" /\ ReleaseWrite(t, "y_sleep")
YieldRelock(t) == /\ Alive /\ pc[t] = "y_sleep"
                  /\ TryWrite(t, rw_pend + 1, "y_wait", "e_held")
YieldRetry(t)  == /\ Alive /\ pc[t] = "y_wait" /\ t \notin rw_cond
                  /\ TryWrite(t, rw_pend, "y_wait", "e_held")

(* pthread_cond_wait may return without a signal. *)
SpuriousWakeup(t) ==
    /\ Alive
    /\ \/ t \in r_cond  /\ r_cond' = r_cond \ {t}   /\ UNCHANGED rw_cond
       \/ t \in rw_cond /\ rw_cond' = rw_cond \ {t} /\ UNCHANGED r_cond
    /\ UNCHANGED <<lockVars, pc, mainVars>>

(***************************************************************************)
(* The exit path of the main thread.  A soft lock polls, gives up after    *)
(* MaxTries tries, and fails when lock_mutex itself stays busy.  A soft    *)
(* unlock wakes nobody.                                                    *)
(***************************************************************************)
ExitSignal == /\ exitpc = "run"
              /\ exitpc' = "purge_lock"
              /\ UNCHANGED <<lockVars, condVars, pc, tries>>

(* Faults: the try counter is not limited, or limited one try too late. *)
SoftTry_Forever(from, busy, fail) ==
    /\ exitpc = from
    /\ busy
    /\ UNCHANGED vars
SoftTry_OneMore(from, busy, fail) ==
    /\ exitpc = from
    /\ busy
    /\ IF tries + 1 > MaxTries
         THEN exitpc' = fail /\ tries' = 0
         ELSE tries' = tries + 1 /\ UNCHANGED exitpc
    /\ UNCHANGED <<lockVars, condVars, pc>>
SoftTry(from, busy, fail) ==
    /\ exitpc = from
    /\ busy
    /\ IF tries + 1 >= MaxTries
         THEN exitpc' = fail /\ tries' = 0
         ELSE tries' = tries + 1 /\ UNCHANGED exitpc
    /\ UNCHANGED <<lockVars, condVars, pc>>

SoftMutexFail(from, fail) ==
    /\ exitpc = from
    /\ exitpc' = fail
    /\ tries' = 0
    /\ UNCHANGED <<lockVars, condVars, pc>>

SoftLockRW(from, held) ==
    /\ exitpc = from
    /\ ~Busy
    /\ cache_w_lock' = TRUE
    /\ exitpc' = held
    /\ tries' = 0
    /\ UNCHANGED <<cache_r_lock, r_pend, rw_pend, r_susp, condVars, pc>>

(* Fault: the main thread starts to write the file while a writer is in. *)
SoftLockR_IgnoresWriter == /\ exitpc = "write_lock"
                           /\ cache_r_lock' = cache_r_lock + 1
                           /\ exitpc' = "write"
                           /\ tries' = 0
                           /\ UNCHANGED <<cache_w_lock, r_pend, rw_pend, r_susp, condVars, pc>>
SoftLockR == /\ exitpc = "write_lock"
             /\ ~cache_w_lock
             /\ cache_r_lock' = cache_r_lock + 1
             /\ exitpc' = "write"
             /\ tries' = 0
             /\ UNCHANGED <<cache_w_lock, r_pend, rw_pend, r_susp, condVars, pc>>

SoftUnlockRW == /\ exitpc = "purge"
                /\ cache_w_lock' = FALSE
                /\ exitpc' = "write_lock"
                /\ UNCHANGED <<cache_r_lock, r_pend, rw_pend, r_susp, condVars, pc, tries>>

SoftUnlockR == /\ exitpc = "write"
               /\ cache_r_lock' = IF cache_r_lock > 0 THEN cache_r_lock - 1 ELSE cache_r_lock
               /\ exitpc' = "destroy_lock"
               /\ UNCHANGED <<cache_w_lock, r_pend, rw_pend, r_susp, condVars, pc, tries>>

(* write_disk_cache: purge under the rw lock, then write under the r lock. *)
WriteDiskCache ==
    \/ SoftLockRW("purge_lock", "purge")
    \/ SoftTry("purge_lock", Busy, "destroy_lock")
    \/ SoftMutexFail("purge_lock", "destroy_lock")
    \/ SoftUnlockRW
    \/ SoftMutexFail("purge", "destroy_lock")
    \/ SoftLockR
    \/ SoftTry("write_lock", cache_w_lock, "destroy_lock")
    \/ SoftMutexFail("write_lock", "destroy_lock")
    \/ SoftUnlockR
    \/ SoftMutexFail("write", "destroy_lock")

DestroyCache == \/ SoftLockRW("destroy_lock", "destroy")
                \/ SoftTry("destroy_lock", Busy, "dead")
                \/ SoftMutexFail("destroy_lock", "dead")

Exit == /\ exitpc = "destroy"
        /\ exitpc' = "dead"
        /\ UNCHANGED <<lockVars, condVars, pc, tries>>

Main == ExitSignal \/ WriteDiskCache \/ DestroyCache \/ Exit

Arrive(t) == LockR(t) \/ LockRW(t) \/ TimedLockRW(t)
Release(t) == UnlockR(t) \/ UnlockRW(t)
Retry(t) == RetryR(t) \/ RetryRW(t) \/ RetryTimed(t) \/ YieldRetry(t)
Timeout(t) == Expire(t) \/ GiveUp(t)
Yield(t) == YieldReadR(t) \/ YieldReadRW(t) \/ YieldGive(t) \/ YieldRelock(t)

Step(t) == Arrive(t) \/ Release(t) \/ Retry(t) \/ Timeout(t) \/ Yield(t) \/ SpuriousWakeup(t)

Next == (\E t \in Threads : Step(t)) \/ Main

Spec == Init /\ [][Next]_vars

(***************************************************************************)
(* Every thread that is not asleep keeps running: it retests its loop      *)
(* condition, releases what it holds, leaves yield, and leaves a wait that *)
(* has timed out.  Nothing forces a thread to arrive, a timeout to strike  *)
(* or a spurious wakeup to happen.  The main thread makes progress without *)
(* the help of a busy lock_mutex.  UnlockRW is strongly fair because the   *)
(* loop of empty_cache that yields runs over finitely many hash buckets.   *)
(***************************************************************************)
ExitProgress ==
    \/ SoftLockRW("purge_lock", "purge") \/ SoftTry("purge_lock", Busy, "destroy_lock")
    \/ SoftUnlockRW
    \/ SoftLockR \/ SoftTry("write_lock", cache_w_lock, "destroy_lock")
    \/ SoftUnlockR
    \/ SoftLockRW("destroy_lock", "destroy") \/ SoftTry("destroy_lock", Busy, "dead")
    \/ Exit
Fairness == /\ \A t \in Threads : WF_vars(Retry(t)) /\ WF_vars(GiveUp(t))
                                  /\ WF_vars(UnlockR(t)) /\ SF_vars(UnlockRW(t))
                                  /\ WF_vars(YieldReadRW(t) \/ YieldGive(t) \/ YieldRelock(t))
            /\ WF_vars(ExitProgress)
FairSpec == Spec /\ Fairness

-----------------------------------------------------------------------------
(* Who may touch the cache: a thread between its lock and unlock calls. *)
Reading(t) == pc[t] = "r_held"
Writing(t) == pc[t] \in WriteHolding
MainReading == exitpc = "write"
MainWriting == exitpc \in {"purge", "destroy"}

(***************************************************************************)
(* Nobody reads or writes the cache while a thread, or the main thread on  *)
(* exit, writes it (cache.c:263-268).                                      *)
(***************************************************************************)
MutualExclusion ==
    /\ \A t, u \in Threads : t # u /\ Writing(t) => ~Writing(u) /\ ~Reading(u)
    /\ \A t \in Threads : /\ Writing(t) => ~MainReading /\ ~MainWriting
                          /\ Reading(t) => ~MainWriting

(***************************************************************************)
(* No wakeup is lost (cache.c:250-261, 311-325): while the process is not  *)
(* exiting, a free lock with threads asleep has a thread that was woken    *)
(* and whose loop condition will let it in.                                *)
(***************************************************************************)
Woken(t) == /\ t \notin r_cond \cup rw_cond
            /\ \/ pc[t] \in WriteWaiting \ {"e_expired"}
               \/ pc[t] \in ReadWaiting /\ ~r_susp /\ rw_pend <= SUSP_THRESH(r_pend)
NoLostWakeup == /\ exitpc = "run"
                /\ ~Busy
                /\ r_cond \cup rw_cond # {}
                => \E t \in Threads : Woken(t)

(***************************************************************************)
(* Readers are never suspended for good (cache.c:241, 317-318): only the   *)
(* end of a write lifts r_susp, and a timed writer may go away without     *)
(* writing, so whenever readers sleep or are suspended there is a writer   *)
(* in, or one pending that cannot time out.                                *)
(***************************************************************************)
ReadersNotStranded ==
    exitpc = "run" /\ (r_susp \/ r_cond # {})
        => cache_w_lock \/ \E t \in Threads : pc[t] \in {"w_wait", "y_wait"}

(***************************************************************************)
(* What the counters mean.  r_pend and rw_pend count the threads inside    *)
(* the loops of the lock functions, those whose timed wait has expired     *)
(* included; cache_r_lock is at least the number of readers (a main thread *)
(* that could not take lock_mutex again leaves its count behind); and only *)
(* one thread writes, with cache_w_lock set and cache_r_lock zero.         *)
(***************************************************************************)
Count(A) == Cardinality({t \in Threads : pc[t] \in A})
PendingExact == /\ r_pend = Count(ReadWaiting)
                /\ rw_pend = Count(WriteWaiting)
HoldersCounted == /\ Count({"r_held"}) + (IF MainReading THEN 1 ELSE 0) <= cache_r_lock
                  /\ cache_w_lock => cache_r_lock = 0
                  /\ \A t \in Threads : Writing(t) => cache_w_lock /\ ~MainWriting
                  /\ \A t, u \in Threads : Writing(t) /\ Writing(u) => t = u
                  /\ MainWriting => cache_w_lock
SleepersWait == /\ \A t \in r_cond : pc[t] \in ReadWaiting
                /\ \A t \in rw_cond : pc[t] \in WriteWaiting \ {"e_expired"}
                /\ \A t \in Threads : pc[t] \in {"e_wait", "e_expired"} => t \in Emptiers

(***************************************************************************)
(* The inductive invariant behind the safety properties: the counters of   *)
(* cache.c agree with what the threads are doing, only waiting threads are *)
(* asleep, and no reader or wakeup is lost.                                *)
(***************************************************************************)
LockInv == /\ TypeOK
           /\ PendingExact
           /\ HoldersCounted
           /\ SleepersWait
           /\ ReadersNotStranded
           /\ NoLostWakeup

(***************************************************************************)
(* While read locking is suspended no thread gets a read lock, and only    *)
(* the end of a write lifts the suspension (cache.c:180, 185-187).         *)
(***************************************************************************)
SuspensionHolds ==
    [][exitpc = "run" /\ r_susp
         => /\ cache_r_lock' <= cache_r_lock
            /\ ~r_susp' => cache_w_lock /\ ~cache_w_lock']_vars

(***************************************************************************)
(* A thread in the loop of a lock function leaves it, provided that from   *)
(* some point on no new lock request barges in; an exiting process owes    *)
(* nothing to its threads (cache.c:395).                                   *)
(***************************************************************************)
Waiting(t) == pc[t] \in ReadWaiting \cup WriteWaiting
QuietInTheEnd == <>[][\A t \in Threads : ~Arrive(t) /\ ~YieldGive(t)]_vars
WaitersServed ==
    QuietInTheEnd => \A t \in Threads : Waiting(t) ~> (~Waiting(t) \/ exitpc # "run")

(***************************************************************************)
(* Exiting never hangs on the cache lock, whoever holds it (cache.c:367).  *)
(***************************************************************************)
ExitCompletes == (exitpc # "run") ~> (exitpc = "dead")

(* The lock implements the abstract reader/writer lock. *)
ReaderSet == {t \in Threads : Reading(t)} \cup {m \in {"main"} : MainReading}
WriterSet == {t \in Threads : Writing(t)} \cup {m \in {"main"} : MainWriting}
AbstractLock == INSTANCE RWLock WITH
    Procs   <- Threads \cup {"main"},
    readers <- ReaderSet,
    writers <- WriterSet
(***************************************************************************)
(* Seen from its users, the lock of cache.c does nothing that a            *)
(* reader/writer lock would not do (cache.c:226-268).                      *)
(***************************************************************************)
ImplementsRWLock == AbstractLock!Spec
=============================================================================
