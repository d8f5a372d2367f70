--------------------------- MODULE AnswerThreads ---------------------------
(***************************************************************************)
(* The threads of pdnsd that take and answer queries (dns_answer.c): the   *)
(* UDP and the TCP server thread, the answer threads they create, the      *)
(* counters under proc_lock that admit, queue and drop queries, the main   *)
(* thread that starts the servers and waits for a signal (main.c), and     *)
(* pdnsd_exit (helpers.c).  Every section under proc_lock is one step; what *)
(* a thread does between two of them is not.  The control thread reloads   *)
(* the limits without taking proc_lock (conff.c), field by field.          *)
(***************************************************************************)
EXTENDS Integers, FiniteSets

CONSTANTS
    Queries,      \* the datagrams and connections that may arrive
    NoQuery,      \* no query
    ProcLimits,   \* the values of proc_limit a configuration gives
    ProcqLimits,  \* the values of procq_limit a configuration gives
    StrictSuid    \* global.strict_suid: run_as was done before any thread

ASSUME LimitsAssumption == ProcLimits \subseteq Nat /\ ProcqLimits \subseteq Nat
ASSUME NoQueryAssumption == NoQuery \notin Queries
ASSUME StrictAssumption == StrictSuid \in BOOLEAN

VARIABLES
    procs,        \* active answer threads, as the code counts them
    qprocs,       \* active and queued answer threads, likewise
    spawned, dropped,
    proc_limit, procq_limit,   \* the fields of global that a reload replaces
    new_proc, new_procq,       \* the values the last reload read from its file
    qpc,          \* what became of each query
    spc,          \* where each server thread is
    job,          \* the query a server is creating a thread for
    socket,       \* udp_socket # -1 and tcp_socket # -1
    mainpc,       \* where the main thread is
    sigterm,      \* a SIGTERM is pending for the main thread
    refused,      \* ghost: answer threads whose run_as failed
    asked         \* ghost: some thread has called pdnsd_exit

countVars == <<procs, qprocs, spawned, dropped, refused>>
limitVars == <<proc_limit, procq_limit, new_proc, new_procq>>
serverVars == <<spc, job, socket>>
exitVars == <<sigterm, asked>>
vars == <<countVars, limitVars, qpc, serverVars, mainpc, exitVars>>

Servers == {"udp", "tcp"}
Other(s) == IF s = "udp" THEN "tcp" ELSE "udp"

(* A query is admitted, its thread born, queued for a place and active. *)
QueryStates == {"none", "admit", "born", "queued", "active", "ended", "dropped"}
ServerStates == {"none", "start", "loop", "create", "undo",
                 "close", "test", "end"}
MainStates == {"tcp", "udp", "sigwait", "exit", "dead", "gone"}

In(states) == {q \in Queries : qpc[q] \in states}
Admitted == In({"admit", "born", "queued", "active"})
Active == In({"active"})
Spawned == In({"admit", "born", "queued", "active", "ended"})
Dropped == In({"dropped"})

Goto(s, l) == spc' = [spc EXCEPT ![s] = l]
Becomes(q, l) == qpc' = [qpc EXCEPT ![q] = l]

-----------------------------------------------------------------------------
(* pdnsd_exit: a SIGTERM for the main thread; the caller then ends.  The   *)
(* threads have SIGTERM blocked, so it stays pending until sigwait.        *)

(* Fault: the thread ends without the signal. *)
PdnsdExit_Silent == sigterm' = sigterm /\ asked' = TRUE
PdnsdExit == sigterm' = TRUE /\ asked' = TRUE

(* decrease_procs, by the exit handler of an answer thread. *)

(* Fault: the place of the thread is not given back. *)
DecreaseProcs_KeepsPlace == procs' = procs /\ qprocs' = qprocs - 1
DecreaseProcs == procs' = procs - 1 /\ qprocs' = qprocs - 1

-----------------------------------------------------------------------------
(* An answer thread, udp_answer_thread or tcp_answer_thread.               *)

(* The thread takes the run_as identity, or calls pdnsd_exit and so runs   *)
(* its exit handler although procs does not count it yet.                  *)
AnswerBorn(q) ==
    /\ qpc[q] = "born"
    /\ Becomes(q, "queued")
    /\ UNCHANGED <<countVars, limitVars, serverVars, mainpc, exitVars>>

AnswerRefused(q) ==
    /\ qpc[q] = "born"
    /\ ~StrictSuid
    /\ Becomes(q, "ended")
    /\ DecreaseProcs
    /\ refused' = refused + 1
    /\ PdnsdExit
    /\ UNCHANGED <<spawned, dropped, limitVars, serverVars, mainpc>>

(* The poll loop: a thread that finds no place sleeps and looks again. *)

(* Fault: one place too many. *)
AnswerStarts_OffByOne(q) ==
    /\ qpc[q] = "queued"
    /\ procs <= proc_limit
    /\ procs' = procs + 1
    /\ Becomes(q, "active")
    /\ UNCHANGED <<qprocs, spawned, dropped, refused, limitVars, serverVars, mainpc, exitVars>>
AnswerStarts(q) ==
    /\ qpc[q] = "queued"
    /\ procs < proc_limit
    /\ procs' = procs + 1
    /\ Becomes(q, "active")
    /\ UNCHANGED <<qprocs, spawned, dropped, refused, limitVars, serverVars, mainpc, exitVars>>

(* The query is processed and answered, or the thread gives up: every way  *)
(* out runs the exit handler.                                              *)
AnswerEnds(q) ==
    /\ qpc[q] = "active"
    /\ Becomes(q, "ended")
    /\ DecreaseProcs
    /\ UNCHANGED <<spawned, dropped, refused, limitVars, serverVars, mainpc, exitVars>>

-----------------------------------------------------------------------------
(* The server threads, udp_server_thread and tcp_server_thread.            *)

ServerStarts(s) ==
    /\ spc[s] = "start"
    /\ Goto(s, "loop")
    /\ UNCHANGED <<countVars, limitVars, qpc, job, socket, mainpc, exitVars>>

(* run_as fails: the thread ends and leaves its socket as it is. *)
ServerRefused(s) ==
    /\ spc[s] = "start"
    /\ ~StrictSuid
    /\ Goto(s, "end")
    /\ PdnsdExit
    /\ UNCHANGED <<countVars, limitVars, qpc, job, socket, mainpc>>

(* listen fails (TCP only). *)
ListenFails ==
    /\ spc["tcp"] = "start"
    /\ Goto("tcp", "close")
    /\ UNCHANGED <<countVars, limitVars, qpc, job, socket, mainpc, exitVars>>

(* No memory for the buffer of the next query: the server stops. *)
ServerMallocFails(s) ==
    /\ spc[s] = "loop"
    /\ Goto(s, "close")
    /\ UNCHANGED <<countVars, limitVars, qpc, job, socket, mainpc, exitVars>>

(* A datagram or a connection arrives and is admitted, or dropped. *)
Admit(s, q) ==
    /\ spc[s] = "loop"
    /\ qpc[q] = "none"
    /\ qprocs < proc_limit + procq_limit
    /\ qprocs' = qprocs + 1
    /\ spawned' = spawned + 1
    /\ Becomes(q, "admit")
    /\ job' = [job EXCEPT ![s] = q]
    /\ Goto(s, "create")
    /\ UNCHANGED <<procs, dropped, refused, limitVars, socket, mainpc, exitVars>>

Drop(s, q) ==
    /\ spc[s] = "loop"
    /\ qpc[q] = "none"
    /\ qprocs >= proc_limit + procq_limit
    /\ dropped' = dropped + 1
    /\ Becomes(q, "dropped")
    /\ UNCHANGED <<procs, qprocs, spawned, refused, limitVars, serverVars, mainpc, exitVars>>

(* pthread_create, after proc_lock is released. *)

CreateAnswer(s) ==
    /\ spc[s] = "create"
    /\ Becomes(job[s], "born")
    /\ job' = [job EXCEPT ![s] = NoQuery]
    /\ Goto(s, "loop")
    /\ UNCHANGED <<countVars, limitVars, socket, mainpc, exitVars>>

CreateFails(s) ==
    /\ spc[s] = "create"
    /\ Goto(s, "undo")
    /\ UNCHANGED <<countVars, limitVars, qpc, job, socket, mainpc, exitVars>>

(* proc_lock is taken again to undo the admission. *)

(* Fault: the query keeps its place in the queue. *)
UndoAdmission_KeepsPlace(s) ==
    /\ spc[s] = "undo"
    /\ spawned' = spawned - 1
    /\ dropped' = dropped + 1
    /\ Becomes(job[s], "dropped")
    /\ job' = [job EXCEPT ![s] = NoQuery]
    /\ Goto(s, "loop")
    /\ UNCHANGED <<procs, qprocs, refused, limitVars, socket, mainpc, exitVars>>
UndoAdmission(s) ==
    /\ spc[s] = "undo"
    /\ qprocs' = qprocs - 1
    /\ spawned' = spawned - 1
    /\ dropped' = dropped + 1
    /\ Becomes(job[s], "dropped")
    /\ job' = [job EXCEPT ![s] = NoQuery]
    /\ Goto(s, "loop")
    /\ UNCHANGED <<procs, refused, limitVars, socket, mainpc, exitVars>>

(* The end of a server: its socket is marked closed, and then it looks     *)
(* whether the other server's socket is closed too.                        *)

(* Fault: the socket variable keeps its value. *)
ServerCloses_KeepsSocket(s) ==
    /\ spc[s] = "close"
    /\ Goto(s, "test")
    /\ UNCHANGED <<countVars, limitVars, qpc, job, socket, mainpc, exitVars>>
ServerCloses(s) ==
    /\ spc[s] = "close"
    /\ socket' = [socket EXCEPT ![s] = FALSE]
    /\ Goto(s, "test")
    /\ UNCHANGED <<countVars, limitVars, qpc, job, mainpc, exitVars>>

ServerEnds(s) ==
    /\ spc[s] = "test"
    /\ Goto(s, "end")
    /\ \/ socket[Other(s)] /\ UNCHANGED exitVars
       \/ ~socket[Other(s)] /\ PdnsdExit
    /\ UNCHANGED <<countVars, limitVars, qpc, job, socket, mainpc>>

-----------------------------------------------------------------------------
(* The main thread: start_dns_servers, sigwait, and the exit (write the    *)
(* cache and _exit), which CacheLock details.                              *)

AfterStart(s) == IF s = "tcp" THEN "udp" ELSE "sigwait"

(* A server without a socket is not started. *)
MainSkips(s) ==
    /\ mainpc = s
    /\ ~socket[s]
    /\ mainpc' = AfterStart(s)
    /\ UNCHANGED <<countVars, limitVars, qpc, serverVars, exitVars>>

MainCreates(s) ==
    /\ mainpc = s
    /\ socket[s]
    /\ Goto(s, "start")
    /\ mainpc' = AfterStart(s)
    /\ UNCHANGED <<countVars, limitVars, qpc, job, socket, exitVars>>

(* pthread_create fails: the main thread itself calls pdnsd_exit and ends. *)
MainCreateFails(s) ==
    /\ mainpc = s
    /\ socket[s]
    /\ PdnsdExit
    /\ mainpc' = "gone"
    /\ UNCHANGED <<countVars, limitVars, qpc, serverVars>>

MainSigwait ==
    /\ mainpc = "sigwait"
    /\ sigterm
    /\ sigterm' = FALSE
    /\ mainpc' = "exit"
    /\ UNCHANGED <<countVars, limitVars, qpc, serverVars, asked>>

MainExits ==
    /\ mainpc = "exit"
    /\ mainpc' = "dead"
    /\ UNCHANGED <<countVars, limitVars, qpc, serverVars, exitVars>>

(* The process ends with its last thread, the main thread being gone. *)
LastThreadEnds ==
    /\ mainpc = "gone"
    /\ \A s \in Servers : spc[s] \in {"none", "end"}
    /\ Admitted = {}
    /\ mainpc' = "dead"
    /\ UNCHANGED <<countVars, limitVars, qpc, serverVars, exitVars>>

-----------------------------------------------------------------------------
(* The control thread: reload_config_file assigns the new global, one      *)
(* field after the other, while other threads read them under proc_lock.   *)

ReloadBegins(p, q) ==
    /\ new_proc = proc_limit /\ new_procq = procq_limit
    /\ new_proc' = p /\ new_procq' = q
    /\ UNCHANGED <<countVars, proc_limit, procq_limit, qpc, serverVars, mainpc, exitVars>>

ReloadProc ==
    /\ proc_limit # new_proc
    /\ proc_limit' = new_proc
    /\ UNCHANGED <<countVars, procq_limit, new_proc, new_procq, qpc, serverVars, mainpc, exitVars>>

ReloadProcq ==
    /\ procq_limit # new_procq
    /\ procq_limit' = new_procq
    /\ UNCHANGED <<countVars, proc_limit, new_proc, new_procq, qpc, serverVars, mainpc, exitVars>>

(* Somebody sends pdnsd a SIGTERM. *)
Terminate ==
    /\ ~sigterm
    /\ sigterm' = TRUE
    /\ UNCHANGED <<countVars, limitVars, qpc, serverVars, mainpc, asked>>

-----------------------------------------------------------------------------
(* The sockets are those final_init could open, at least one of them. *)
Init ==
    /\ procs = 0 /\ qprocs = 0 /\ spawned = 0 /\ dropped = 0 /\ refused = 0
    /\ proc_limit \in ProcLimits /\ procq_limit \in ProcqLimits
    /\ new_proc = proc_limit /\ new_procq = procq_limit
    /\ qpc = [q \in Queries |-> "none"]
    /\ spc = [s \in Servers |-> "none"]
    /\ job = [s \in Servers |-> NoQuery]
    /\ socket \in [Servers -> BOOLEAN] /\ \E s \in Servers : socket[s]
    /\ mainpc = "tcp"
    /\ sigterm = FALSE /\ asked = FALSE

QueryStep(q) ==
    /\ mainpc # "dead"
    /\ AnswerBorn(q) \/ AnswerRefused(q) \/ AnswerStarts(q) \/ AnswerEnds(q)

(* What a server does by itself; Admit, Drop and ServerMallocFails need an *)
(* arrival or a failure.                                                   *)
ServerStep(s) ==
    /\ mainpc # "dead"
    /\ \/ ServerStarts(s) \/ ServerRefused(s) \/ (s = "tcp" /\ ListenFails)
       \/ CreateAnswer(s) \/ CreateFails(s) \/ UndoAdmission(s)
       \/ ServerCloses(s) \/ ServerEnds(s)

MainStep ==
    \/ \E s \in Servers : MainSkips(s) \/ MainCreates(s) \/ MainCreateFails(s)
    \/ MainSigwait \/ MainExits

Environment ==
    /\ mainpc # "dead"
    /\ \/ \E s \in Servers : ServerMallocFails(s) \/ \E q \in Queries : Admit(s, q) \/ Drop(s, q)
       \/ \E p \in ProcLimits, q \in ProcqLimits : ReloadBegins(p, q)
       \/ ReloadProc \/ ReloadProcq \/ Terminate \/ LastThreadEnds

Next ==
    \/ \E q \in Queries : QueryStep(q)
    \/ \E s \in Servers : ServerStep(s)
    \/ MainStep
    \/ Environment

Fairness ==
    /\ \A q \in Queries : WF_vars(QueryStep(q))
    /\ \A s \in Servers : WF_vars(ServerStep(s))
    /\ WF_vars(MainStep)

Spec == Init /\ [][Next]_vars /\ Fairness

-----------------------------------------------------------------------------
(* Every variable has its type; in particular no counter but procs can go  *)
(* below zero, whatever thread creations and run_as calls fail.            *)
TypeOK ==
    /\ procs \in Int /\ qprocs \in Nat /\ spawned \in Nat /\ dropped \in Nat
    /\ refused \in Nat
    /\ proc_limit \in ProcLimits /\ new_proc \in ProcLimits
    /\ procq_limit \in ProcqLimits /\ new_procq \in ProcqLimits
    /\ qpc \in [Queries -> QueryStates]
    /\ spc \in [Servers -> ServerStates]
    /\ job \in [Servers -> Queries \cup {NoQuery}]
    /\ socket \in [Servers -> BOOLEAN]
    /\ mainpc \in MainStates
    /\ sigterm \in BOOLEAN /\ asked \in BOOLEAN

(* The counters agree with the threads at every release of proc_lock:      *)
(* qprocs counts the admitted queries and spawned and dropped the fates,   *)
(* also while an admission is being undone; procs counts the active        *)
(* threads less those that ended in a failed run_as.                       *)
CountsExact ==
    /\ qprocs = Cardinality(Admitted)
    /\ procs + refused = Cardinality(Active)
    /\ spawned = Cardinality(Spawned)
    /\ dropped = Cardinality(Dropped)

(* Whatever limits are reloaded and whatever mixture of old and new limits *)
(* an admission reads, the admitted and the active threads stay within     *)
(* configured limits.                                                      *)
LimitsHold ==
    /\ \E p \in ProcLimits, q \in ProcqLimits : qprocs <= p + q
    /\ \E p \in ProcLimits : procs <= p

(* pdnsd never goes on without a server: once every server that was        *)
(* started has ended, somebody has called pdnsd_exit, although the two     *)
(* servers test each other's socket without a lock.                        *)
NoSilentServers ==
    (mainpc = "sigwait" /\ \A s \in Servers : spc[s] \in {"none", "end"}) => asked

(* What a server is creating a thread for is an admitted query that no     *)
(* thread and no other server has.                                         *)
JobsOK ==
    /\ \A s \in Servers : spc[s] \in {"create", "undo"} =>
            job[s] \in Queries /\ qpc[job[s]] = "admit"
    /\ \A s \in Servers : spc[s] \notin {"create", "undo"} => job[s] = NoQuery
    /\ job["udp"] = job["tcp"] => job["udp"] = NoQuery

(* The sockets tell which servers are left: a server that has ended with   *)
(* its socket open was refused, one that ended and finds no other server   *)
(* has called pdnsd_exit, and one without a thread has no socket once the  *)
(* main thread has passed it.                                              *)
SocketsOK ==
    /\ \A s \in Servers :
        /\ spc[s] = "end" /\ socket[s] => asked
        /\ (spc[s] = "end" /\ ~socket[Other(s)] /\ spc[Other(s)] \in {"none", "end"}) => asked
        /\ spc[s] = "test" => ~socket[s]
    /\ mainpc = "tcp" => spc["tcp"] = "none"
    /\ mainpc \in {"tcp", "udp"} => spc["udp"] = "none"
    /\ mainpc \notin {"tcp", "gone", "dead"} /\ spc["tcp"] = "none" => ~socket["tcp"]
    /\ mainpc = "sigwait" /\ spc["udp"] = "none" => ~socket["udp"]
    /\ (\A s \in Servers : spc[s] = "none") => \E s \in Servers : socket[s]

(* The inductive part of the invariant: who owns an admission, and what    *)
(* the sockets say of the servers.                                         *)
ThreadsInv == JobsOK /\ SocketsOK

(* A thread that called pdnsd_exit ("to exit pdnsd from any thread", says  *)
(* helpers.c) gets the process to exit, unless it is the main thread: that *)
(* one ends with the signal it should receive still pending.               *)
ExitHappens == asked ~> (mainpc \in {"dead", "gone"})

(* Every admitted query gets its turn and its thread ends, when no more    *)
(* than finitely many arrive, limits are reloaded and threads fail.        *)
QueuedAnswered ==
    \A q \in Queries : (q \in Admitted) ~> (q \notin Admitted \/ mainpc = "dead")

(* Until a thread is refused its identity (which cannot happen with        *)
(* strict_suid) procs is the number of "active query processes"            *)
(* (dns_answer.c) and pdnsd serves no more than the "Maximum parallel      *)
(* queries" it was configured for.                                         *)
ActiveBounded ==
    refused = 0 => /\ procs = Cardinality(Active)
                   /\ \E p \in ProcLimits : Cardinality(Active) <= p

=============================================================================
