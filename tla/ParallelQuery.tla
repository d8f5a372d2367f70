---------------------------- MODULE ParallelQuery ----------------------------
(***************************************************************************)
(* One call of p_recursive_query, which asks the servers of an array       *)
(* ParQueries at a time over UDP or TCP and takes the best answer, or one  *)
(* call of query_uptest (dns_query.c).  One thread runs all the queries:   *)
(* p_exec_query starts or continues one, p_query_sm is its socket level,   *)
(* poll waits for the others.  Every system call, reply and verdict of     *)
(* auth_ok is a choice.  What a reply contains is left to module Resolver; *)
(* here it counts as an answer of some quality, an error, or garbage.      *)
(* Time is in units of one second, starts at 0 and passes in poll and in   *)
(* auth_ok, which may query other servers.                                 *)
(***************************************************************************)
EXTENDS Integers, FiniteSets

CONSTANTS
    NQ,             \* servers in the array
    ParQueries,     \* global.par_queries
    GlobalTimeout,  \* global.timeout
    Timeout,        \* timeout of every server
    Methods,        \* values of global.query_method
    Edns,           \* edns_query: subset of the servers
    AuthServ,       \* auth_serv of each server
    Tested,         \* servers with needs_testing
    Trusted,        \* servers that are trusted, and asked with rd set
    Rep,            \* repetitions of query_uptest
    MaxIdle,        \* bound: calls of p_query_sm that achieve nothing
    MaxBusy         \* bound: time until which auth_ok may take time

Servers == 0 .. NQ - 1

ASSUME ParametersAssumption ==
    /\ NQ \in Nat \ {0} /\ ParQueries \in Nat \ {0} /\ Rep \in Nat
    /\ GlobalTimeout \in Nat /\ Timeout \in Nat /\ MaxIdle \in Nat /\ MaxBusy \in Nat
    /\ Methods \subseteq {"UDP_ONLY", "TCP_ONLY", "TCP_UDP", "UDP_TCP"}
    /\ Edns \subseteq Servers /\ Tested \subseteq Servers /\ Trusted \subseteq Servers
    /\ AuthServ \in [Servers -> 0 .. 3]

VARIABLES
    mode,    \* resolve or uptest
    qs,      \* the array q
    c,       \* control: pc, the caller of p_exec_query, loop variables, rv
    ev,      \* servers with an event that poll reported
    ts,      \* when the current batch began to wait
    until,   \* when the current poll times out; 0 if there is none
    clock,
    ent,     \* the answer in hand: none, live or dangling
    serv,    \* the list of further servers in hand is not empty
    save,    \* entsave with servsave, qualval and qse
    marks,   \* verdicts given to sched_server_test
    best,    \* highest quality of an answer so far (history)
    heard,   \* tested servers that sent a usable reply (history)
    idle     \* calls of p_query_sm that achieved nothing

vars == <<mode, qs, c, ev, ts, until, clock, ent, serv, save, marks, best, heard, idle>>

Waiting == {"TCPWRITE", "TCPREAD", "UDPRECEIVE"}
Initials == {"TCPINITIAL", "UDPINITIAL"}
States == {"INITIAL", "CANCELED", "DONE"} \union Waiting \union Initials

(* add_qserv; for query_uptest the one query it fills in itself.  A resource
   is none, live, or dangling once freed, maybe as NULL; twice if it is freed
   again.  Of the errors in errno only those of an unreachable server matter. *)
add_qserv(m, test, i) ==
    [state |-> "INITIAL", qm |-> m, io |-> 0, sock |-> "none", msg |-> "none",
     buf |-> "none", needs |-> IF i \in Tested /\ ~test THEN 1 ELSE 0,
     edns |-> i \in Edns /\ ~test, rd |-> TRUE, claims |-> FALSE, tc |-> FALSE,
     failed |-> 0, errno |-> "none"]

Freed(r) == IF r \in {"none", "live"} THEN "dangling" ELSE "twice"
Close(x) == [x EXCEPT !.sock = IF @ = "live" THEN "none" ELSE "twice"]
realloc(r) == IF r \in {"none", "live"} THEN "live" ELSE "twice"
FreeBuffers(x) == [x EXCEPT !.msg = Freed(@), !.buf = Freed(@)]
Closed(x) == [Close(x) EXCEPT !.state = "DONE", !.io = 0, !.errno = "none"]

(* A query that is over; what nobody reads any more is forgotten. *)
Over(x) == [x EXCEPT !.state = "DONE", !.io = 0, !.errno = "none", !.rd = FALSE,
                     !.edns = FALSE, !.tc = FALSE, !.failed = 0, !.qm = c.method]

USE_UDP(x) == x.qm \in {"UDP_ONLY", "UDP_TCP"}
Start(x) == [x EXCEPT !.state = IF USE_UDP(x) THEN "UDPINITIAL" ELSE "TCPINITIAL"]
tentative_tcp_query(x) ==
    x.qm = "TCP_UDP" /\ (x.state = "TCPWRITE" \/ (x.state = "TCPREAD" /\ x.io = 0))
switch_to_udp(x) == [x EXCEPT !.qm = "UDP_ONLY", !.state = "UDPINITIAL"]
switch_to_tcp(x) == [x EXCEPT !.qm = "TCP_ONLY", !.state = "INITIAL", !.failed = 0]

me == qs[c.i]
Only(x) == qs' = [qs EXCEPT ![c.i] = x]
Goto(pc) == c' = [c EXCEPT !.pc = pc]
GotoWith(pc, rv) == c' = [c EXCEPT !.pc = pc, !.rv = rv]

------------------------------------------------------------------------------
(* p_query_sm: it leaves state x and goes on, returns -1, or fails; a failure is
   dealt with by p_exec_query, which takes an unreachable server as down. *)
smVars == <<mode, ev, ts, until, clock, ent, serv, save, best, heard>>

SmGoOn(x) == Only(x) /\ Goto("sm") /\ UNCHANGED <<smVars, marks, idle>>
SmAgain(x, useful) ==
    /\ Only(x) /\ GotoWith("back", "AGAIN")
    /\ useful \/ idle < MaxIdle
    /\ idle' = IF useful THEN idle ELSE idle + 1
    /\ UNCHANGED <<smVars, marks>>
SmFailed(x, rv) ==
    LET down == x.needs # 0 /\ x.errno = "unreach"
        y    == FreeBuffers(Over(x))
    IN  /\ Only(IF down THEN [y EXCEPT !.needs = 0] ELSE y)
        /\ marks' = IF down THEN marks \union {<<c.i, "down">>} ELSE marks
        /\ GotoWith("back", rv)
        /\ UNCHANGED <<smVars, idle>>

(* The label tcp_failed: maybe try again using UDP. *)
tcp_failed(x) ==
    IF x.qm = "TCP_UDP" THEN SmGoOn(switch_to_udp(x)) ELSE SmFailed(x, "SERVFAIL")

(* No socket, no port to bind to, or it cannot be made non-blocking. *)
NoSocket ==
    /\ c.pc = "sm" /\ me.state \in Initials
    /\ SmFailed(me, "SERVFAIL")

TcpConnect ==
    /\ c.pc = "sm" /\ me.state = "TCPINITIAL"
    /\ LET x == [me EXCEPT !.sock = "live", !.io = 0] IN
       \/ SmAgain([x EXCEPT !.state = "TCPWRITE"], TRUE)
       \/ SmGoOn([x EXCEPT !.state = "TCPWRITE"])
       \/ tcp_failed(Close([x EXCEPT !.errno = "unreach"]))
       \/ SmFailed(Close(x), "SERVFAIL")

(* iolen 1 stands for a part of the message. *)
TcpWrite ==
    /\ c.pc = "sm" /\ me.state = "TCPWRITE"
    /\ \/ SmAgain(me, FALSE)
       \/ me.io = 0 /\ SmAgain([me EXCEPT !.io = 1], TRUE)
       \/ SmGoOn([me EXCEPT !.state = "TCPREAD", !.io = 0])
       \/ \E e \in {"unreach", "none"} :
            LET x == Close([me EXCEPT !.errno = e]) IN
            \/ me.io = 0 /\ tcp_failed(x)
            \/ SmFailed(x, "SERVFAIL")

TcpRead ==
    /\ c.pc = "sm" /\ me.state = "TCPREAD"
    /\ \/ SmAgain(me, FALSE)
       \/ me.io = 0 /\ SmGoOn([me EXCEPT !.io = 1, !.buf = realloc(@)])
       \/ me.io = 0 /\ SmFailed(Close([me EXCEPT !.buf = "none"]), "FATALERR")
       \/ \E e \in {"unreach", "none"} : tcp_failed(Close([me EXCEPT !.errno = e]))
       \/ /\ me.io = 1 /\ Only(Closed(me)) /\ Goto("reply")
          /\ UNCHANGED <<smVars, marks, idle>>

UdpSend ==
    /\ c.pc = "sm" /\ me.state = "UDPINITIAL"
    /\ LET x == [me EXCEPT !.sock = "live"] IN
       \/ SmAgain([x EXCEPT !.state = "UDPRECEIVE"], TRUE)
       \/ \E e \in {"unreach", "none"} :
            SmFailed(Close([x EXCEPT !.errno = e]), "SERVFAIL")

UdpReceive ==
    /\ c.pc = "sm" /\ me.state = "UDPRECEIVE"
    /\ LET x == [me EXCEPT !.buf = realloc(@)] IN
       \/ SmAgain(x, FALSE)
       \/ SmFailed(Close([me EXCEPT !.buf = "none"]), "FATALERR")
       \/ \E e \in {"unreach", "none"} : SmFailed(Close([x EXCEPT !.errno = e]), "SERVFAIL")
       \/ /\ Only(Closed(x)) /\ Goto("reply")
          /\ UNCHANGED <<smVars, marks, idle>>

------------------------------------------------------------------------------
(* p_exec_query around p_query_sm. *)

(* Call it for query i from place ctx. *)
Exec(i, ctx, x) ==
    c' = [c EXCEPT !.i = i, !.ctx = ctx,
                   !.pc = IF x.state = "INITIAL" THEN "exec" ELSE "sm"]

ExecInitial ==
    /\ c.pc = "exec"
    /\ \/ Only(Start([me EXCEPT !.msg = "live", !.buf = "none", !.rd = c.i \in Trusted])) /\ Goto("sm")
       \/ Only([me EXCEPT !.state = "DONE"]) /\ GotoWith("back", "FATALERR")
    /\ UNCHANGED <<smVars, marks, idle>>

Discard(x, rv) == Only(FreeBuffers(Over(x))) /\ GotoWith("back", rv)

(* A reply that fails the sanity checks. *)
BadReply ==
    /\ c.pc = "reply"
    /\ Discard(me, "SERVFAIL")
    /\ UNCHANGED <<smVars, marks, idle>>

(* What the sections of the reply are worth: an answer, perhaps a tentative one
   (failed), or no answer. *)
Process(x, rcode) ==
    \E rv \in {"OK", "NAMEERR", "SERVFAIL", "FATALERR"}, cl, tc \in BOOLEAN, f \in {0, 1} :
        /\ rv = "NAMEERR" => x.failed <= 1
        /\ f = 1 => x.failed = 0
        /\ rv # "OK" => ~tc /\ f = 0 /\ (cl = x.claims \/ (save.has /\ save.by = c.i))
        /\ LET y == FreeBuffers([Over(x) EXCEPT !.claims = cl]) IN
           Only(IF rv = "OK" THEN [y EXCEPT !.tc = tc, !.edns = x.edns, !.qm = x.qm,
                                            !.failed = IF f = 1 THEN 1 ELSE x.failed]
                ELSE y)
        /\ ent' = IF rv = "OK" THEN "live" ELSE ent
        /\ GotoWith("back", rv)

TryAgain(x) == Only(Start(x)) /\ Goto("sm") /\ UNCHANGED ent

(* A usable reply. *)
Reply(rcode, ra, an) ==
    /\ c.pc = "reply"
    /\ LET x == [me EXCEPT !.needs = 0] IN
       \/ /\ mode = "uptest" /\ UNCHANGED ent
          /\ Discard(x, rcode)
       \/ /\ mode = "resolve" /\ rcode \in {"OK", "NAMEERR"}
          /\ Process(x, rcode)
       \/ /\ mode = "resolve" /\ rcode \in {"SERVFAIL", "REFUSED"}
          /\ CASE x.rd /\ ~ra -> TryAgain([x EXCEPT !.rd = FALSE])
               [] (~x.rd \/ ra) /\ rcode # "SERVFAIL" /\ x.edns ->
                    TryAgain([x EXCEPT !.edns = FALSE])
               [] (~x.rd \/ ra) /\ (rcode = "SERVFAIL" \/ ~x.edns)
                    /\ an /\ AuthServ[c.i] = 2 -> Process([x EXCEPT !.failed = 3], rcode)
               [] OTHER -> Discard(x, rcode) /\ UNCHANGED ent
       \/ /\ mode = "resolve" /\ rcode = "FORMAT"
          /\ IF x.edns THEN TryAgain([x EXCEPT !.edns = FALSE])
                       ELSE Discard(x, rcode) /\ UNCHANGED ent
    /\ marks' = IF me.needs # 0 THEN marks \union {<<c.i, "up">>} ELSE marks
    /\ heard' = heard \union ({c.i} \intersect Tested)
    /\ UNCHANGED <<mode, ev, ts, until, clock, serv, save, best, idle>>

(* p_cancel_query *)
p_cancel_query_OnlyReads(x) ==
    IF x.state \in Waiting \union Initials
    THEN FreeBuffers([(IF x.state \in {"TCPREAD", "UDPRECEIVE"} THEN Close(x) ELSE x)
                        EXCEPT !.state = "CANCELED"])
    ELSE x
p_cancel_query(x) ==
    IF x.state \in Waiting \union Initials
    THEN FreeBuffers([(IF x.state \in Waiting THEN Close(x) ELSE x) EXCEPT !.state = "CANCELED"])
    ELSE x

------------------------------------------------------------------------------
(* p_recursive_query *)
loopVars == <<mode, clock, ent, serv, save, marks, best, heard, idle>>

Batch ==
    /\ c.pc = "batch"
    /\ IF c.j < NQ
       THEN c' = [c EXCEPT !.pc = "init", !.i = c.dc,
                           !.mc = IF c.j + ParQueries > NQ THEN NQ ELSE c.j + ParQueries]
       ELSE Goto("cancel")
    /\ UNCHANGED <<loopVars, until, qs, ev, ts>>

NextBatch == [c EXCEPT !.pc = "batch", !.j = @ + ParQueries]

(* The loop that starts the queries of a batch; its body after p_exec_query. *)
Passed(x) ==
    c' = [c EXCEPT !.pc = IF c.ctx = "tmo" THEN "timeout" ELSE c.ctx, !.i = @ + 1, !.ctx = "none",
                   !.dc = IF c.ctx # "tmo" /\ x.state = "DONE" /\ c.i = c.dc THEN @ + 1 ELSE @]
InitLoop ==
    /\ c.pc = "init"
    /\ CASE c.i < c.mc /\ c.i >= c.j -> Exec(c.i, "init", me) /\ ts' = ts
         [] c.i < c.mc /\ c.i < c.j ->
              /\ c' = [c EXCEPT !.i = @ + 1,
                         !.dc = IF me.state = "DONE" /\ c.i = c.dc THEN @ + 1 ELSE @]
              /\ ts' = ts
         [] OTHER -> /\ IF c.dc < c.mc THEN Goto("build") ELSE c' = NextBatch
                     /\ ts' = clock
    /\ UNCHANGED <<loopVars, until, qs, ev>>

(* The queries that poll waits for, and how long; the last batch has the global
   timeout as well, unless a TCP query may yet be retried using UDP. *)
Pending == {i \in c.dc .. c.mc - 1 : qs[i].state # "DONE"}
maxto_NoGlobal == (IF \E i \in Pending : i >= c.j THEN Timeout ELSE 0) - (clock - ts)
maxto == LET own == IF \E i \in Pending : i >= c.j THEN Timeout ELSE 0
             now == own - (clock - ts)
             all == GlobalTimeout - clock
         IN  IF /\ c.mc = NQ /\ \A i \in c.j .. c.mc - 1 : ~tentative_tcp_query(qs[i])
                /\ all > now
             THEN all ELSE now
Build ==
    /\ c.pc = "build"
    /\ IF Pending = {}
       THEN /\ c' = [NextBatch EXCEPT !.dc = c.mc, !.rv = "SERVFAIL"]
            /\ until' = until
       ELSE /\ GotoWith("poll", "SERVFAIL")
            /\ until' = clock + (IF maxto > 0 THEN maxto ELSE 0)
    /\ UNCHANGED <<mode, qs, ev, ts, clock, ent, serv, save, marks, best, heard, idle>>

PollWait ==
    /\ c.pc \in {"poll", "uppoll"} /\ clock < until
    /\ clock' = clock + 1
    /\ UNCHANGED <<mode, qs, c, ev, ts, until, ent, serv, save, marks, best, heard, idle>>
PollFails ==
    /\ c.pc = "poll"
    /\ Goto("done") /\ until' = 0
    /\ UNCHANGED <<loopVars, qs, ev, ts>>
PollEvents ==
    /\ c.pc = "poll"
    /\ \E E \in SUBSET Pending \ {{}} : ev' = E
    /\ until' = 0
    /\ c' = [c EXCEPT !.pc = "events", !.i = c.dc]
    /\ UNCHANGED <<loopVars, qs, ts>>
PollTimeout ==
    /\ c.pc = "poll" /\ clock >= until
    /\ ev' = {} /\ until' = 0
    /\ c' = [c EXCEPT !.pc = "timeout", !.i = c.j]
    /\ UNCHANGED <<loopVars, qs, ts>>

(* The loop over the queries that had an event. *)
Events ==
    /\ c.pc = "events"
    /\ CASE c.i < c.mc /\ c.i \in ev -> Exec(c.i, "events", me) /\ ev' = ev \ {c.i}
         [] c.i < c.mc /\ c.i \notin ev ->
              /\ c' = [c EXCEPT !.i = @ + 1,
                         !.dc = IF me.state = "DONE" /\ c.i = c.dc THEN @ + 1 ELSE @]
              /\ ev' = ev
         [] OTHER -> /\ CASE ev # {} -> GotoWith("done", "SERVFAIL")
                          [] ev = {} /\ c.dc < c.mc -> Goto("build")
                          [] OTHER -> c' = NextBatch
                     /\ ev' = ev
    /\ UNCHANGED <<loopVars, until, qs, ts>>

(* The loop after a timeout; ev counts the TCP queries that now use UDP. *)
TimedOut(x) == [x EXCEPT !.needs = IF x.state # "DONE" /\ @ # 0 THEN 2 ELSE @]
MayContinue_Always == c.mc = NQ
MayContinue == c.mc = NQ /\ ev # {} /\ clock < GlobalTimeout
Timeouts ==
    /\ c.pc = "timeout"
    /\ IF c.i < c.mc
       THEN LET x == TimedOut(me)
                u == switch_to_udp(Close(x))
            IN  IF tentative_tcp_query(me)
                THEN /\ Only(u) /\ ev' = ev \union {c.i} /\ Exec(c.i, "tmo", u)
                ELSE /\ Only(x) /\ ev' = ev /\ c' = [c EXCEPT !.i = @ + 1]
       ELSE /\ IF MayContinue /\ c.dc < c.mc
               THEN Goto("build") ELSE c' = NextBatch
            /\ ev' = {} /\ qs' = qs
    /\ UNCHANGED <<loopVars, until, ts>>

(* After p_exec_query: an answer is judged by auth_ok, NAMEERR and FATALERR end
   the loops, anything else does not. *)
Back ==
    /\ c.pc = "back" /\ mode = "resolve"
    /\ CASE c.rv = "OK" -> Goto("auth")
         [] c.rv \in {"NAMEERR", "FATALERR"} ->
              c' = [c EXCEPT !.pc = "done", !.ctx = "none", !.mc = IF c.ctx = "init" THEN c.i ELSE @]
         [] OTHER -> Passed(me)
    /\ UNCHANGED <<loopVars, until, qs, ev, ts>>

(* auth_ok: 1 satisfactory, maybe with servers to ask next, 0 not, -1 error. *)
auth_ok(x) == IF x.failed > 1 THEN {[ok |-> 0, serv |-> FALSE]}
              ELSE [ok : {0, -1}, serv : {FALSE}] \union [ok : {1}, serv : BOOLEAN]

W_AUTHOK == 8
W_NOTFAILED == 2
W_NOTTRUNC == 1
GOODQUAL == W_AUTHOK + 3 * W_NOTFAILED
Quality(x, authok) ==
    authok * W_AUTHOK + (3 - x.failed) * W_NOTFAILED + (IF x.tc THEN 0 ELSE W_NOTTRUNC)

(* save_query_result: keep the better answer. *)
save_query_result_Last(x, authok, s) ==
    /\ save' = [has |-> TRUE, qual |-> Quality(x, authok), by |-> c.i, serv |-> s]
    /\ ent' = "none" /\ serv' = FALSE
save_query_result(x, authok, s) ==
    /\ save' = IF ~save.has \/ Quality(x, authok) > save.qual
               THEN [has |-> TRUE, qual |-> Quality(x, authok), by |-> c.i, serv |-> s]
               ELSE save
    /\ ent' = "none" /\ serv' = FALSE

Satisfactory(x) == x.failed = 0 /\ (c.ctx = "tmo" \/ ~(x.qm = "UDP_TCP" /\ x.tc))
Stop(pc, rv) == c' = [c EXCEPT !.pc = pc, !.rv = rv, !.qse = c.i, !.ctx = "none",
                               !.mc = IF c.ctx = "init" THEN c.i ELSE @]
Judge ==
    /\ c.pc = "auth"
    /\ \E a \in auth_ok(me), d \in {0, 1} :
         /\ d = 1 => clock < MaxBusy
         /\ clock' = clock + d
         /\ best' = IF a.ok >= 0 /\ Quality(me, a.ok) > best THEN Quality(me, a.ok) ELSE best
         /\ CASE a.ok = 1 /\ Satisfactory(me) ->
                   /\ Stop("done", "OK") /\ serv' = a.serv
                   /\ UNCHANGED <<qs, ent, save>>
              [] a.ok = -1 ->
                   /\ Stop("done", "FATALERR") /\ ent' = Freed(ent)
                   /\ UNCHANGED <<qs, serv, save>>
              [] OTHER ->
                   /\ save_query_result(me, a.ok, a.serv)
                   /\ IF c.ctx # "tmo" /\ me.qm = "UDP_TCP" /\ me.tc
                      THEN Only(switch_to_tcp(me)) /\ Goto("exec")
                      ELSE Only(Over(me)) /\ Passed(me)
    /\ UNCHANGED <<mode, ev, ts, until, marks, heard, idle>>

(* The labels done and cancel_queries. *)
NoSave == [has |-> FALSE, qual |-> 0, by |-> 0, serv |-> FALSE]
Done ==
    /\ c.pc = "done"
    /\ save' = NoSave /\ Goto("cancel")
    /\ UNCHANGED <<mode, qs, ev, ts, until, clock, ent, serv, marks, best, heard, idle>>
Cancel ==
    /\ c.pc = "cancel"
    /\ qs' = [i \in Servers |-> IF i \in c.dc .. c.mc - 1 THEN p_cancel_query(qs[i]) ELSE qs[i]]
    /\ marks' = marks \union {<<i, "silent">> : i \in {k \in 0 .. c.mc - 1 : qs[k].needs > 1}}
    /\ Goto("finish")
    /\ UNCHANGED <<mode, ev, ts, until, clock, ent, serv, save, best, heard, idle>>

(* The answer is the one in hand or the saved one; if there are servers to ask
   because it is not authoritative, ask them, and fall back on it. *)
Resolved == {"OK", "CACHED", "STALE"}
Finish ==
    /\ c.pc = "finish"
    /\ LET rv  == IF save.has THEN "OK" ELSE c.rv
           by  == IF save.has THEN save.by ELSE c.qse
           ask == rv = "OK" /\ (IF save.has THEN save.serv ELSE serv)
           err == IF rv = "FATALERR" THEN "SERVFAIL" ELSE rv
       IN  \/ /\ ~ask
              /\ GotoWith("returned", err)
              /\ ent' = IF save.has THEN "live" ELSE ent
           \/ /\ ask
              /\ \E r \in Resolved \union {"NAMEERR", "SERVFAIL"} :
                   IF r \in Resolved \union {"NAMEERR"} /\ ~(r = "STALE" /\ qs[by].claims)
                   THEN /\ GotoWith("returned", r)
                        /\ ent' = IF r \in Resolved THEN "live" ELSE "dangling"
                   ELSE /\ GotoWith("returned", IF qs[by].claims THEN "OK" ELSE r)
                        /\ ent' = IF qs[by].claims THEN "live" ELSE "dangling"
    /\ save' = NoSave /\ serv' = FALSE
    /\ UNCHANGED <<mode, qs, ev, ts, until, clock, marks, best, heard, idle>>

------------------------------------------------------------------------------
(* query_uptest: one query, tried Rep times if there is no reply; j counts the
   tries, ctx tells whether the present one has begun to wait. *)
upVars == <<mode, ev, ts, ent, serv, save, marks, best, heard, idle>>
UpAnswer(ok) == GotoWith("returned", IF ok THEN "up" ELSE "not")
UpBack ==
    /\ c.pc = "back" /\ mode = "uptest"
    /\ IF c.rv = "AGAIN"
       THEN /\ c' = [c EXCEPT !.pc = "uppoll", !.ctx = "upwait"]
            /\ until' = IF c.ctx = "uptry" THEN clock + Timeout ELSE until
       ELSE /\ UpAnswer(c.rv \notin {"SERVFAIL", "FATALERR"})
            /\ until' = until
    /\ UNCHANGED <<upVars, qs, clock>>
UpEvent ==
    /\ c.pc = "uppoll"
    /\ Exec(0, "upwait", me)
    /\ UNCHANGED <<upVars, qs, until, clock>>

(* poll fails or the status thread is interrupted. *)
UpInterrupted ==
    /\ c.pc = "uppoll"
    /\ Only(p_cancel_query(me)) /\ UpAnswer(FALSE)
    /\ UNCHANGED <<upVars, until, clock>>
UpTimeout ==
    /\ c.pc = "uppoll" /\ clock >= until
    /\ LET x == p_cancel_query(me) IN
       IF c.j + 1 < Rep
       THEN /\ Only([x EXCEPT !.state = "INITIAL", !.qm = c.method, !.errno = "none"])
            /\ c' = [c EXCEPT !.pc = "exec", !.ctx = "uptry", !.j = @ + 1]
       ELSE Only(x) /\ UpAnswer(FALSE)
    /\ UNCHANGED <<upVars, until, clock>>

------------------------------------------------------------------------------
Init ==
    /\ mode \in {"resolve", "uptest"}
    /\ \E m \in Methods :
         /\ qs = [i \in Servers |-> add_qserv(m, mode = "uptest", i)]
         /\ c = [pc |-> IF mode = "uptest" THEN "exec" ELSE "batch", ctx |-> "uptry",
                 i |-> 0, j |-> 0, dc |-> 0, mc |-> 0, rv |-> "SERVFAIL", qse |-> 0,
                 method |-> m]
    /\ ev = {} /\ ts = 0 /\ until = 0 /\ clock = 0
    /\ ent = "none" /\ serv = FALSE /\ save = NoSave
    /\ marks = {} /\ best = 0 /\ heard = {} /\ idle = 0

Next ==
    \/ NoSocket \/ TcpConnect \/ TcpWrite \/ TcpRead \/ UdpSend \/ UdpReceive
    \/ ExecInitial \/ BadReply
    \/ \E rcode \in {"OK", "NAMEERR", "SERVFAIL", "REFUSED", "FORMAT"}, ra, an \in BOOLEAN :
          Reply(rcode, ra, an)
    \/ Batch \/ InitLoop \/ Build \/ PollWait \/ PollFails \/ PollEvents \/ PollTimeout
    \/ Events \/ Timeouts \/ Back \/ Judge \/ Done \/ Cancel \/ Finish
    \/ UpBack \/ UpEvent \/ UpInterrupted \/ UpTimeout

(* One thread runs all this, and poll ends when its time is up. *)
Spec == Init /\ [][Next]_vars /\ WF_vars(Next)

------------------------------------------------------------------------------
(* Types of the state. *)
Codes == Resolved \union {"AGAIN", "NAMEERR", "SERVFAIL", "FATALERR", "REFUSED", "FORMAT"}
TypeOK ==
    /\ mode \in {"resolve", "uptest"}
    /\ qs \in [Servers -> [state : States,
                 qm : {"UDP_ONLY", "TCP_ONLY", "TCP_UDP", "UDP_TCP"}, io : {0, 1},
                 sock : {"none", "live"}, msg : {"none", "live", "dangling"},
                 buf : {"none", "live", "dangling"}, needs : 0 .. 2, edns : BOOLEAN,
                 rd : BOOLEAN, claims : BOOLEAN, tc : BOOLEAN, failed : {0, 1, 3},
                 errno : {"none", "unreach"}]]
    /\ c.pc \in {"exec", "sm", "reply", "back", "batch", "init", "build", "poll", "events",
                 "timeout", "auth", "done", "cancel", "finish", "uppoll", "returned"}
    /\ c.rv \in Codes \union {"up", "not"}
    /\ c.i \in 0 .. NQ /\ c.dc \in 0 .. c.mc /\ c.mc \in 0 .. NQ
    /\ ev \subseteq Servers /\ {ts, until, clock, best} \subseteq Nat
    /\ ent \in {"none", "live", "dangling"}
    /\ marks \subseteq Servers \X {"up", "down", "silent"}

(* A query holds a socket exactly while it waits for one (QS_TCPWRITE, QS_TCPREAD,
   QS_UDPRECEIVE), p_query_sm, the retries of p_exec_query, the switches between TCP
   and UDP and p_cancel_query neither free a buffer twice nor lose one, and when
   p_recursive_query or query_uptest returns nothing is held. *)
ResourcesOwned ==
    /\ \A i \in Servers :
         /\ qs[i].sock \in {"none", "live"} /\ "twice" \notin {qs[i].msg, qs[i].buf}
         /\ qs[i].sock = "live" <=> qs[i].state \in Waiting
         /\ qs[i].state \in Waiting => qs[i].msg = "live"
    /\ c.pc = "returned" => \A i \in Servers : "live" \notin {qs[i].sock, qs[i].msg, qs[i].buf}

(* p_recursive_query hands out an answer exactly if its code says so, has freed the
   saved one by then, and frees none twice. *)
ResultMatches ==
    /\ ent # "twice"
    /\ (c.pc = "returned" /\ mode = "resolve") =>
         (ent = "live" <=> c.rv \in Resolved) /\ ~save.has /\ ~serv

(* Nothing that a call allocates or opens is leaked, freed twice or handed out
   after it was freed: sockets, messages, buffers, the answer and the saved one. *)
AllOwned == TypeOK /\ ResourcesOwned /\ ResultMatches

(* The answer used, the satisfactory one or the one kept by save_query_result, is of
   the highest quality (authoritative or good enough, not failed, not truncated) of all
   the answers that came in, over all servers and the retries using TCP. *)
BestAnswer ==
    c.pc = "finish" =>
        /\ save.has => save.qual = best
        /\ ~save.has /\ c.rv = "OK" => Quality(qs[c.qse], 1) = best

(* A server that sent a usable reply, or that is not to be tested, is not reported to
   sched_server_test as down or as silent by the same call, whatever its socket does
   afterwards and whether or not it was late; nobody is reported both down and silent. *)
AnsweredNotDown ==
    \A i \in Servers :
        /\ i \in heard \union (Servers \ Tested) => {<<i, "down">>, <<i, "silent">>} \cap marks = {}
        /\ {<<i, "down">>, <<i, "silent">>} \subseteq marks => FALSE

(* What the call concludes from the replies, in whatever order and however late
   they come: which answer to use and which servers to call down. *)
RepliesUsed == BestAnswer /\ AnsweredNotDown

(* Having asked all servers, p_recursive_query gives up on queries that are still open
   only when the global timeout is over, and on those of the last batch only when their
   own timeout is over, too. *)
PatientEnd ==
    (c.pc = "cancel" /\ mode = "resolve" /\ c.j >= NQ) =>
        /\ \A i \in Servers : qs[i].state # "INITIAL"
        /\ (\E i \in Servers : qs[i].state \in Waiting) => clock >= GlobalTimeout
        /\ (\E i \in Servers : i >= c.j - ParQueries /\ qs[i].state \in Waiting) =>
              clock >= ts + Timeout

(* The call returns, whatever the servers do. *)
Returns == <>(c.pc = "returned")

(* What p_recursive_query returns is a return code: -1, by which p_exec_query asks to be
   called again, is used up within it. *)
ReturnsCode == c.pc = "returned" => c.rv # "AGAIN"

==============================================================================
