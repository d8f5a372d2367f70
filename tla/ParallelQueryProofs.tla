------------------------ MODULE ParallelQueryProofs ------------------------
(***************************************************************************)
(* Proofs about ParallelQuery: for any number of servers, any batches, any *)
(* timeouts and any methods, a call leaks nothing, frees nothing twice,    *)
(* uses the best answer, calls no server down that answered, and gives up  *)
(* only when the timeouts are over.                                        *)
(*                                                                         *)
(* The steps of p_query_sm and p_exec_query only change the query in hand; *)
(* they are summed up as one action, QueryStep, and each part of the       *)
(* invariant is shown once for it and once for each step of the loops.     *)
(***************************************************************************)
EXTENDS ParallelQuery, TLAPS

(* The values of the variables. *)
MethodSet == {"UDP_ONLY", "TCP_ONLY", "TCP_UDP", "UDP_TCP"}
Query == [state : States, qm : MethodSet, io : {0, 1},
          sock : {"none", "live"}, msg : {"none", "live", "dangling"},
          buf : {"none", "live", "dangling"}, needs : 0 .. 2, edns : BOOLEAN,
          rd : BOOLEAN, claims : BOOLEAN, tc : BOOLEAN, failed : {0, 1, 3},
          errno : {"none", "unreach"}]
PCs == {"exec", "sm", "reply", "back", "batch", "init", "build", "poll", "events",
        "timeout", "auth", "done", "cancel", "finish", "uppoll", "returned"}
AllCodes == Codes \union {"up", "not"}
Ended == {"CACHED", "STALE", "up", "not"}    \* only when all is over
Control == [pc : PCs, ctx : {"none", "uptry", "upwait", "init", "events", "tmo"},
            i : 0 .. NQ, j : Nat, dc : 0 .. NQ, mc : 0 .. NQ,
            rv : AllCodes, qse : Servers, method : MethodSet]
Saved == [has : BOOLEAN, qual : Nat, by : Servers, serv : BOOLEAN]

Types ==
    /\ mode \in {"resolve", "uptest"} /\ qs \in [Servers -> Query] /\ c \in Control
    /\ ev \subseteq Servers /\ ts \in Nat /\ until \in Nat /\ clock \in Nat /\ best \in Nat
    /\ ent \in {"none", "live", "dangling"} /\ serv \in BOOLEAN /\ save \in Saved
    /\ marks \subseteq Servers \X {"up", "down", "silent"} /\ heard \subseteq Servers

Open == Waiting \union Initials
InExec == {"exec", "sm", "reply", "back", "auth"}
In(pc, ctx) == c.pc = pc \/ (c.pc \in InExec /\ c.ctx = ctx)
Looping == {"init", "build", "poll", "events", "timeout"} \union InExec

(* What a query holds in each of its states, and when its reply was read. *)
Holds(x) ==
    /\ x.sock = "live" <=> x.state \in Waiting
    /\ x.state \in Open => x.msg = "live" /\ x.buf # "dangling"
    /\ x.state \notin Open => x.msg # "live" /\ x.buf # "live"
Replied(x) == x.state = "DONE" /\ x.sock = "none" /\ x.msg = "live" /\ x.buf # "dangling"

Resources == \A k \in Servers : IF c.pc = "reply" /\ k = c.i THEN Replied(qs[k]) ELSE Holds(qs[k])

(* The state of the query in hand. *)
InHand ==
    /\ c.pc \in InExec => c.i < NQ
    /\ c.pc = "exec" => me.state = "INITIAL"
    /\ c.pc = "sm" => me.state \in Open
    /\ c.pc = "back" => IF c.rv = "AGAIN" THEN me.state \in Waiting ELSE me.state = "DONE"
    /\ c.pc = "auth" => me.state = "DONE" /\ c.rv = "OK"

(* The first query that is not started yet. *)
Front == IF In("init", "init") /\ c.i > c.j THEN c.i ELSE IF In("init", "init") THEN c.j ELSE c.mc

(* Where the bounds dc, j and mc and the index i are at each place: queries before dc
   are over, those from j to mc are the batch. *)
Batches ==
    /\ c.pc # "uppoll" /\ c.dc <= c.mc
    /\ c.pc = "batch" => c.mc = (IF c.j > NQ THEN NQ ELSE c.j)
    /\ c.pc \in Looping => c.j < NQ /\ c.mc = (IF c.j + ParQueries > NQ THEN NQ ELSE c.j + ParQueries)
    /\ c.pc \in InExec => c.dc <= c.i /\ c.i < c.mc /\ c.ctx \in {"init", "events", "tmo"}
    /\ c.pc \in {"init", "events"} => c.dc <= c.i /\ c.i <= c.mc
    /\ In("timeout", "tmo") \/ (c.pc \in InExec /\ c.ctx = "init") => c.j <= c.i
    /\ c.pc = "timeout" => c.i <= c.mc
    /\ c.pc = "done" => c.j < NQ

(* What was started and what is over at each place. *)
Started ==
    /\ c.pc \in Looping \union {"batch"} =>
         \A k \in Servers : (c.pc \in InExec /\ k = c.i)
                            \/ IF k < Front THEN qs[k].state \in Waiting \union {"DONE"}
                                            ELSE qs[k].state = "INITIAL"
    /\ c.pc \in {"done", "cancel"} =>
         \A k \in Servers : qs[k].state \in (IF k < c.mc THEN Waiting \union {"DONE"}
                                                         ELSE {"INITIAL", "DONE"})
    /\ c.pc \in {"finish", "returned"} => \A k \in Servers : qs[k].state \notin Open
    /\ c.pc \notin {"finish", "returned"} => \A k \in Servers : k < c.dc => qs[k].state = "DONE"

(* poll reports only queries that wait for something, and each is looked at once. *)
Reported ==
    In("events", "events") =>
        \A k \in ev : /\ qs[k].state \in Waiting /\ k < c.mc
                      /\ IF c.pc = "events" THEN k >= c.i ELSE k > c.i

(* Which code goes with an answer in hand, and when one is saved. *)
Answers ==
    /\ c.pc = "returned" \/ c.rv \notin Ended
    /\ c.pc \notin {"back", "auth", "done", "cancel", "finish", "returned"} =>
         ent = "none" /\ (c.rv = "OK" => save.has)
    /\ c.pc = "poll" => c.rv = "SERVFAIL"
    /\ c.pc = "back" => ent = (IF c.rv = "OK" THEN "live" ELSE "none")
    /\ c.pc = "auth" => ent = "live"
    /\ c.pc = "done" => (ent = "live" <=> c.rv = "OK")
    /\ c.pc \in {"cancel", "finish"} =>
         IF save.has THEN ent = "none" ELSE (ent = "live" <=> c.rv = "OK")
    /\ c.pc = "returned" => (ent = "live" <=> c.rv \in Resolved) /\ ~save.has /\ ~serv

(* The saved answer is the best one as long as the loops go on: a better one than
   GOODQUAL would have ended them. *)
Best ==
    /\ c.pc \notin {"done", "cancel", "finish", "returned"} =>
         best <= GOODQUAL /\ best = (IF save.has THEN save.qual ELSE 0)
    /\ c.pc = "done" /\ c.rv = "OK" =>
         Quality(qs[c.qse], 1) = best /\ qs[c.qse].state = "DONE"
    /\ c.pc \in {"cancel", "finish"} =>
         IF save.has THEN save.qual = best
         ELSE c.rv = "OK" => Quality(qs[c.qse], 1) = best /\ qs[c.qse].state = "DONE"

(* What the wait of poll was computed from still bounds the clock when it is over,
   and when the last batch is given up. *)
Patience ==
    /\ c.pc = "poll" =>
         /\ c.mc < NQ \/ until >= GlobalTimeout \/ \E k \in c.j .. c.mc - 1 : tentative_tcp_query(qs[k])
         /\ (\E k \in c.j .. c.mc - 1 : qs[k].state \in Waiting) => until >= ts + Timeout
    /\ c.pc = "timeout" =>
         /\ \/ c.mc < NQ \/ ev # {} \/ clock >= GlobalTimeout
            \/ \E k \in c.i .. c.mc - 1 : tentative_tcp_query(qs[k])
         /\ (\E k \in c.j .. c.mc - 1 : qs[k].state \in Waiting) => clock >= ts + Timeout
    /\ c.pc \in InExec /\ c.ctx = "tmo" => ev # {} /\ clock >= ts + Timeout
    /\ c.pc \in {"batch", "cancel"} /\ c.j >= NQ =>
         /\ c.mc = NQ
         /\ (\E k \in Servers : qs[k].state \in Waiting) => clock >= GlobalTimeout
         /\ (\E k \in Servers : k >= c.j - ParQueries /\ qs[k].state \in Waiting) => clock >= ts + Timeout

(* needs, the count for sched_server_test, agrees with what is reported of a server. *)
Verdicts ==
    \A k \in Servers :
        /\ k \in heard \union (Servers \ Tested) =>
             qs[k].needs = 0 /\ <<k, "down">> \notin marks /\ <<k, "silent">> \notin marks
        /\ <<k, "down">> \in marks =>
             /\ qs[k].needs = 0 /\ qs[k].state = "DONE"
             /\ k = c.i => c.pc \notin {"reply", "auth"} /\ ~(c.pc = "back" /\ c.rv = "OK")
        /\ <<k, "silent">> \in marks => c.pc \in {"finish", "returned"} /\ qs[k].needs = 2

Loops == Batches /\ Started /\ Reported /\ Answers /\ Best /\ Patience

(* query_uptest has one query, and no server to judge. *)
Uptest ==
    /\ c.pc \in {"exec", "sm", "reply", "back", "uppoll", "returned"}
    /\ c.i = 0 /\ c.dc = 0 /\ c.mc = 0 /\ ent = "none"
    /\ c.pc = "uppoll" => me.state \in Waiting
    /\ c.pc = "returned" => me.state \notin Open
    /\ \A k \in Servers : k > 0 => qs[k].state = "INITIAL"

Inv ==
    /\ Types /\ Resources /\ InHand /\ Verdicts
    /\ mode = "resolve" => Loops
    /\ mode = "uptest" => Uptest

------------------------------------------------------------------------------
(* Steps of p_query_sm and p_exec_query *)

Landed(pc, rv, x) ==
    /\ pc = "sm" => x.state \in Open /\ Holds(x)
    /\ pc = "reply" => Replied(x)
    /\ pc = "back" => /\ Holds(x) /\ rv \notin Ended
                      /\ IF rv = "AGAIN" THEN x.state \in Waiting ELSE x.state = "DONE"

(* The server is taken as down, or as up, or nothing is said of it. *)
SaidNothing(x) == marks' = marks /\ heard' = heard /\ x.needs = me.needs
SaidDown(x, pc, rv) ==
    /\ c.pc = "sm" /\ me.needs # 0 /\ x.needs = 0 /\ pc = "back" /\ rv \notin {"OK", "AGAIN"}
    /\ marks' = marks \union {<<c.i, "down">>} /\ heard' = heard
SaidUp(x) ==
    /\ c.pc = "reply" /\ x.needs = 0 /\ heard' \subseteq heard \union {c.i}
    /\ heard' \subseteq Servers /\ marks' \in {marks, marks \union {<<c.i, "up">>}}

Lands(x, pc, rv) ==
    /\ qs' = [qs EXCEPT ![c.i] = x] /\ c' = [c EXCEPT !.pc = pc, !.rv = rv]
    /\ Landed(pc, rv, x) /\ (pc # "back" => rv = c.rv)
    /\ ent' = IF pc = "back" /\ rv = "OK" /\ mode = "resolve" THEN "live" ELSE ent
    /\ SaidNothing(x) \/ SaidDown(x, pc, rv) \/ SaidUp(x)
    /\ UNCHANGED <<mode, ev, ts, until, clock, serv, save, best>>

QueryStep ==
    /\ c.pc \in {"exec", "sm", "reply"}
    /\ \E x \in Query, pc \in {"sm", "reply", "back"}, rv \in AllCodes : Lands(x, pc, rv)

LEMMA InHandType == ASSUME Inv, c.pc \in InExec PROVE c.i \in Servers /\ me \in Query /\ c \in Control
  <1>1. c \in Control /\ qs \in [Servers -> Query] /\ c.i < NQ BY Zenon DEF Inv, Types, InHand
  <1>2. c.i \in 0 .. NQ BY <1>1, Zenon DEF Control
  <1>3. c.i \in Servers BY <1>1, <1>2, ParametersAssumption DEF Servers
  <1>4. QED BY <1>1, <1>3, Zenon DEF me

(* Goto and GotoWith change nothing but the fields they name. *)
LEMMA GotoIs ==
    ASSUME c \in Control, NEW pc \in PCs, Goto(pc)
    PROVE  c' = [c EXCEPT !.pc = pc, !.rv = c.rv]
  BY Zenon DEF Control, Goto

LEMMA GoesOn ==
    ASSUME Inv, c.pc = "sm", NEW x \in Query, x.state \in Open, Holds(x), x.needs = me.needs, SmGoOn(x)
    PROVE  QueryStep
  <1>1. c \in Control BY Zenon DEF Inv, Types
  <1>2. Lands(x, "sm", c.rv)
    <2>1. c' = [c EXCEPT !.pc = "sm", !.rv = c.rv] BY <1>1, GotoIs, Zenon DEF SmGoOn, PCs
    <2>2. QED BY <2>1, Zenon DEF Lands, Landed, SaidNothing, SmGoOn, smVars, Only
  <1>3. c.rv \in AllCodes BY <1>1, Zenon DEF Control
  <1>4. QED BY <1>2, <1>3, Zenon DEF QueryStep

LEMMA ComesBack ==
    ASSUME Inv, c.pc = "sm", NEW x \in Query, x.state \in Waiting, Holds(x), x.needs = me.needs,
           NEW useful, SmAgain(x, useful)
    PROVE  QueryStep
  <1>1. Lands(x, "back", "AGAIN")
    BY Zenon DEF Lands, Landed, SaidNothing, SmAgain, smVars, Only, GotoWith, Ended
  <1>2. "AGAIN" \in AllCodes BY Zenon DEF AllCodes, Codes
  <1>3. QED BY <1>1, <1>2, Zenon DEF QueryStep

(* A query that fails has closed its socket and frees its buffers. *)
Falls(x) == x \in Query /\ x.sock = "none" /\ x.msg # "dangling" /\ x.buf # "dangling" /\ x.needs = me.needs

LEMMA OverIs ==
    ASSUME c \in Control, NEW x \in Query
    PROVE  /\ Over(x) \in Query /\ Over(x).state = "DONE" /\ Over(x).needs = x.needs
           /\ Over(x).sock = x.sock /\ Over(x).msg = x.msg /\ Over(x).buf = x.buf
           /\ Over(x).claims = x.claims
  BY Zenon DEF Query, Over, Control, States

LEMMA FreeIs ==
    ASSUME NEW x \in Query, x.sock = "none", x.msg # "dangling", x.buf # "dangling"
    PROVE  /\ FreeBuffers(x) \in Query /\ FreeBuffers(x).state = x.state /\ FreeBuffers(x).needs = x.needs
           /\ FreeBuffers(x).sock = "none" /\ FreeBuffers(x).msg = "dangling" /\ FreeBuffers(x).buf = "dangling"
           /\ FreeBuffers(x).failed = x.failed /\ FreeBuffers(x).tc = x.tc
  BY Zenon DEF Query, FreeBuffers, Freed

LEMMA OverFreed ==
    ASSUME c \in Control, NEW x \in Query, x.sock = "none", x.msg # "dangling", x.buf # "dangling"
    PROVE  /\ FreeBuffers(Over(x)) \in Query /\ FreeBuffers(Over(x)).state = "DONE"
           /\ FreeBuffers(Over(x)).needs = x.needs /\ Holds(FreeBuffers(Over(x)))
  <1>1. Over(x) \in Query /\ Over(x).state = "DONE" /\ Over(x).needs = x.needs
        /\ Over(x).sock = x.sock /\ Over(x).msg = x.msg /\ Over(x).buf = x.buf
    BY OverIs, Zenon
  <1> HIDE DEF Over
  <1>2. /\ FreeBuffers(Over(x)) \in Query /\ FreeBuffers(Over(x)).state = "DONE"
        /\ FreeBuffers(Over(x)).needs = x.needs
        /\ FreeBuffers(Over(x)).sock = "none" /\ FreeBuffers(Over(x)).msg = "dangling"
        /\ FreeBuffers(Over(x)).buf = "dangling"
    BY <1>1, FreeIs, Zenon
  <1>3. QED BY <1>2, Zenon DEF Holds, Open, Waiting, Initials

LEMMA Fails ==
    ASSUME Inv, c.pc = "sm", NEW x, Falls(x), NEW rv \in {"SERVFAIL", "FATALERR"}, SmFailed(x, rv)
    PROVE  QueryStep
  <1> DEFINE y == FreeBuffers(Over(x))
             z == [y EXCEPT !.needs = 0]
  <1>1. c \in Control BY Zenon DEF Inv, Types
  <1>2. y \in Query /\ y.state = "DONE" /\ y.needs = me.needs /\ Holds(y) BY <1>1, OverFreed, Zenon DEF Falls
  <1>3. z \in Query /\ z.state = "DONE" /\ z.needs = 0 /\ Holds(z)
    <2> HIDE DEF y
    <2>1. z \in Query /\ z.state = y.state /\ z.needs = 0 /\ z.sock = y.sock /\ z.msg = y.msg /\ z.buf = y.buf
      BY <1>2 DEF Query
    <2> HIDE DEF z
    <2>2. QED BY <1>2, <2>1, Zenon DEF Holds
  <1>4. rv \in AllCodes /\ rv \notin Ended /\ rv # "AGAIN" /\ rv # "OK" BY Zenon DEF AllCodes, Codes, Ended
  <1>5. /\ c' = [c EXCEPT !.pc = "back", !.rv = rv] /\ UNCHANGED smVars
        /\ \/ qs' = [qs EXCEPT ![c.i] = y] /\ marks' = marks
           \/ qs' = [qs EXCEPT ![c.i] = z] /\ marks' = marks \union {<<c.i, "down">>} /\ x.needs # 0
    BY Zenon DEF SmFailed, Only, GotoWith
  <1>6. x.needs = me.needs BY Zenon DEF Falls
  <1> HIDE DEF y, z
  <1>7. CASE qs' = [qs EXCEPT ![c.i] = y] /\ marks' = marks
    <2>1. Lands(y, "back", rv)
      BY <1>2, <1>4, <1>5, <1>7, Zenon DEF Lands, Landed, SaidNothing, smVars
    <2>2. QED BY <1>2, <1>4, <2>1, Zenon DEF QueryStep
  <1>8. CASE qs' = [qs EXCEPT ![c.i] = z] /\ marks' = marks \union {<<c.i, "down">>} /\ x.needs # 0
    <2>1. SaidDown(z, "back", rv) BY <1>3, <1>4, <1>5, <1>6, <1>8, Zenon DEF SaidDown, smVars
    <2>2. Lands(z, "back", rv)
      BY <1>3, <1>4, <1>5, <1>8, <2>1, Zenon DEF Lands, Landed, smVars
    <2>3. QED BY <1>3, <1>4, <2>2, Zenon DEF QueryStep
  <1>9. QED BY <1>5, <1>7, <1>8, Zenon

LEMMA TcpFails ==
    ASSUME Inv, c.pc = "sm", NEW x, Falls(x), x.msg = "live", tcp_failed(x)
    PROVE  QueryStep
  <1> DEFINE y == switch_to_udp(x)
  <1>1. y \in Query /\ y.state = "UDPINITIAL" /\ y.needs = x.needs /\ y.sock = x.sock /\ y.msg = x.msg /\ y.buf = x.buf
    BY Zenon DEF Falls, Query, switch_to_udp, MethodSet, States, Initials
  <1>2. CASE x.qm = "TCP_UDP"
    <2>1. SmGoOn(y) BY <1>2, Zenon DEF tcp_failed
    <2> HIDE DEF y
    <2>2. Holds(y) /\ y.state \in Open /\ y.needs = me.needs
      BY <1>1, Zenon DEF Holds, Falls, Open, Waiting, Initials
    <2>3. QED BY <1>1, <2>1, <2>2, GoesOn, Zenon
  <1>3. CASE x.qm # "TCP_UDP"
    BY <1>3, Fails, Zenon DEF tcp_failed
  <1>4. QED BY <1>2, <1>3, Zenon

LEMMA SmHolds ==
    ASSUME Inv, c.pc = "sm"
    PROVE  me \in Query /\ Holds(me) /\ me.state \in Open /\ me.msg = "live" /\ me.buf \in {"none", "live"}
  <1>1. c.i \in Servers /\ me \in Query BY InHandType, Zenon DEF InExec
  <1>2. Holds(me) /\ me.state \in Open BY <1>1, Zenon DEF Inv, Resources, InHand, me
  <1>3. me.msg = "live" /\ me.buf # "dangling" BY <1>2, Zenon DEF Holds
  <1>4. me.buf \in {"none", "live", "dangling"} BY <1>1, Zenon DEF Query
  <1>5. QED BY <1>1, <1>2, <1>3, <1>4, Zenon

(* How the socket level changes a query that runs: opened or not, closed, with a
   buffer or without. *)
LEMMA ClosedFalls ==
    ASSUME NEW x \in Query, x.sock = "live", x.msg = "live", x.buf # "dangling", x.needs = me.needs
    PROVE  Falls(Close(x)) /\ Close(x).msg = "live"
  BY Zenon DEF Query, Close, Falls

LEMMA NoSocketSteps == ASSUME Inv, NoSocket PROVE QueryStep
  <1>1. c.pc = "sm" /\ me.state \in Initials /\ SmFailed(me, "SERVFAIL") BY Zenon DEF NoSocket
  <1>2. me \in Query /\ Holds(me) /\ me.msg = "live" /\ me.buf \in {"none", "live"} BY <1>1, SmHolds, Zenon
  <1>3. me.sock \in {"none", "live"} BY <1>2, Zenon DEF Query
  <1>4. Falls(me) BY <1>1, <1>2, <1>3, Zenon DEF Falls, Holds, Initials, Waiting
  <1>5. QED BY <1>1, <1>4, Fails, Zenon

LEMMA TcpConnectSteps == ASSUME Inv, TcpConnect PROVE QueryStep
  <1> DEFINE x == [me EXCEPT !.sock = "live", !.io = 0]
             w == [x EXCEPT !.state = "TCPWRITE"]
             u == [x EXCEPT !.errno = "unreach"]
  <1>1. c.pc = "sm" /\ me.state = "TCPINITIAL" BY Zenon DEF TcpConnect
  <1>2. me \in Query /\ me.msg = "live" /\ me.buf \in {"none", "live"} BY <1>1, SmHolds, Zenon
  <1>3. \/ SmAgain(w, TRUE) \/ SmGoOn(w) \/ tcp_failed(Close(u)) \/ SmFailed(Close(x), "SERVFAIL")
    BY Zenon DEF TcpConnect
  <1>4. x \in Query /\ x.sock = "live" /\ x.msg = "live" /\ x.buf # "dangling" /\ x.needs = me.needs
    BY <1>2, Zenon DEF Query
  <1> HIDE DEF x
  <1>5. /\ w \in Query /\ w.state = "TCPWRITE" /\ w.sock = "live" /\ w.msg = "live" /\ w.buf # "dangling"
        /\ w.needs = me.needs
    BY <1>4, Zenon DEF Query, States, Waiting
  <1>6. u \in Query /\ u.sock = "live" /\ u.msg = "live" /\ u.buf # "dangling" /\ u.needs = me.needs
    BY <1>4, Zenon DEF Query
  <1> HIDE DEF w, u
  <1>7. Holds(w) /\ w.state \in Waiting /\ w.state \in Open BY <1>5, Zenon DEF Holds, Open, Waiting
  <1>8. CASE SmAgain(w, TRUE) BY <1>1, <1>5, <1>7, <1>8, ComesBack, Zenon
  <1>9. CASE SmGoOn(w) BY <1>1, <1>5, <1>7, <1>9, GoesOn, Zenon
  <1>10. CASE tcp_failed(Close(u)) BY <1>1, <1>6, <1>10, ClosedFalls, TcpFails, Zenon
  <1>11. CASE SmFailed(Close(x), "SERVFAIL") BY <1>1, <1>4, <1>11, ClosedFalls, Fails, Zenon
  <1>12. QED BY <1>3, <1>8, <1>9, <1>10, <1>11, Zenon

LEMMA TcpWriteSteps == ASSUME Inv, TcpWrite PROVE QueryStep
  <1> DEFINE x == [me EXCEPT !.io = 1]
             r == [me EXCEPT !.state = "TCPREAD", !.io = 0]
             u(e) == [me EXCEPT !.errno = e]
  <1>1. c.pc = "sm" /\ me.state = "TCPWRITE" BY Zenon DEF TcpWrite
  <1>2. me \in Query /\ Holds(me) /\ me.msg = "live" /\ me.buf \in {"none", "live"} BY <1>1, SmHolds, Zenon
  <1>3. me.sock = "live" /\ me.state \in Open /\ me.state \in Waiting BY <1>1, <1>2, Zenon DEF Holds, Waiting, Open
  <1>4. \/ SmAgain(me, FALSE) \/ SmAgain(x, TRUE) \/ SmGoOn(r)
        \/ \E e \in {"unreach", "none"} : tcp_failed(Close(u(e))) \/ SmFailed(Close(u(e)), "SERVFAIL")
    BY Zenon DEF TcpWrite
  <1>5. /\ x \in Query /\ x.state = me.state /\ x.sock = me.sock /\ x.msg = me.msg /\ x.buf = me.buf
        /\ x.needs = me.needs
    BY <1>2, Zenon DEF Query
  <1>6. /\ r \in Query /\ r.state = "TCPREAD" /\ r.sock = me.sock /\ r.msg = me.msg /\ r.buf = me.buf
        /\ r.needs = me.needs
    BY <1>2, Zenon DEF Query, States, Waiting
  <1>7. ASSUME NEW e \in {"unreach", "none"}
        PROVE  u(e) \in Query /\ u(e).sock = "live" /\ u(e).msg = "live" /\ u(e).buf # "dangling" /\ u(e).needs = me.needs
    BY <1>2, <1>3, <1>7, Zenon DEF Query
  <1> HIDE DEF x, r, u
  <1>8. Holds(x) BY <1>2, <1>5, Zenon DEF Holds
  <1>9. Holds(r) /\ r.state \in Open BY <1>2, <1>3, <1>6, Zenon DEF Holds, Waiting, Open
  <1>10. CASE SmAgain(me, FALSE) BY <1>1, <1>2, <1>3, <1>10, ComesBack, Zenon
  <1>11. CASE SmAgain(x, TRUE) BY <1>1, <1>3, <1>5, <1>8, <1>11, ComesBack, Zenon
  <1>12. CASE SmGoOn(r) BY <1>1, <1>6, <1>9, <1>12, GoesOn, Zenon
  <1>13. ASSUME NEW e \in {"unreach", "none"}, tcp_failed(Close(u(e))) \/ SmFailed(Close(u(e)), "SERVFAIL")
         PROVE  QueryStep
    <2>1. Falls(Close(u(e))) /\ Close(u(e)).msg = "live" BY <1>7, ClosedFalls, Zenon
    <2>2. QED BY <1>1, <1>13, <2>1, TcpFails, Fails, Zenon
  <1>14. QED BY <1>4, <1>10, <1>11, <1>12, <1>13, Zenon

(* The reply is complete: the socket is closed. *)
LEMMA ReplyRead ==
    ASSUME Inv, c.pc = "sm", NEW x \in Query, x.sock = "live", x.msg = "live", x.buf # "dangling", x.needs = me.needs,
           Only(Closed(x)), Goto("reply"), UNCHANGED <<smVars, marks, idle>>
    PROVE  QueryStep
  <1>1. c \in Control BY Zenon DEF Inv, Types
  <1>2. Closed(x) \in Query /\ Replied(Closed(x)) /\ Closed(x).needs = me.needs
    BY Zenon DEF Query, Closed, Close, Replied, States
  <1> HIDE DEF Closed
  <1>3. c' = [c EXCEPT !.pc = "reply", !.rv = c.rv] BY <1>1, GotoIs, Zenon DEF PCs
  <1>4. Lands(Closed(x), "reply", c.rv)
    BY <1>2, <1>3, Zenon DEF Lands, Landed, SaidNothing, smVars, Only
  <1>5. c.rv \in AllCodes BY <1>1, Zenon DEF Control
  <1>6. QED BY <1>2, <1>4, <1>5, Zenon DEF QueryStep

LEMMA TcpReadSteps == ASSUME Inv, TcpRead PROVE QueryStep
  <1> DEFINE x == [me EXCEPT !.io = 1, !.buf = realloc(@)]
             n == [me EXCEPT !.buf = "none"]
             u(e) == [me EXCEPT !.errno = e]
  <1>1. c.pc = "sm" /\ me.state = "TCPREAD" BY Zenon DEF TcpRead
  <1>2. me \in Query /\ Holds(me) /\ me.msg = "live" /\ me.buf \in {"none", "live"} BY <1>1, SmHolds, Zenon
  <1>3. me.sock = "live" /\ me.state \in Open /\ me.state \in Waiting BY <1>1, <1>2, Zenon DEF Holds, Waiting, Open
  <1>4. \/ SmAgain(me, FALSE) \/ SmGoOn(x) \/ SmFailed(Close(n), "FATALERR")
        \/ \E e \in {"unreach", "none"} : tcp_failed(Close(u(e)))
        \/ Only(Closed(me)) /\ Goto("reply") /\ UNCHANGED <<smVars, marks, idle>>
    BY Zenon DEF TcpRead
  <1>5. /\ x \in Query /\ x.state = me.state /\ x.sock = me.sock /\ x.msg = me.msg /\ x.buf = "live"
        /\ x.needs = me.needs
    BY <1>2, Zenon DEF Query, realloc
  <1>6. n \in Query /\ n.sock = "live" /\ n.msg = "live" /\ n.buf # "dangling" /\ n.needs = me.needs
    BY <1>2, <1>3, Zenon DEF Query
  <1>7. ASSUME NEW e \in {"unreach", "none"}
        PROVE  u(e) \in Query /\ u(e).sock = "live" /\ u(e).msg = "live" /\ u(e).buf # "dangling" /\ u(e).needs = me.needs
    BY <1>2, <1>3, <1>7, Zenon DEF Query
  <1> HIDE DEF x, n, u
  <1>8. Holds(x) BY <1>2, <1>3, <1>5, Zenon DEF Holds
  <1>9. CASE SmAgain(me, FALSE) BY <1>1, <1>2, <1>3, <1>9, ComesBack, Zenon
  <1>10. CASE SmGoOn(x) BY <1>1, <1>3, <1>5, <1>8, <1>10, GoesOn, Zenon
  <1>11. CASE SmFailed(Close(n), "FATALERR") BY <1>1, <1>6, <1>11, ClosedFalls, Fails, Zenon
  <1>12. ASSUME NEW e \in {"unreach", "none"}, tcp_failed(Close(u(e))) PROVE QueryStep
    BY <1>1, <1>7, <1>12, ClosedFalls, TcpFails, Zenon
  <1>13. CASE Only(Closed(me)) /\ Goto("reply") /\ UNCHANGED <<smVars, marks, idle>>
    BY <1>1, <1>2, <1>3, <1>13, ReplyRead, Zenon
  <1>14. QED BY <1>4, <1>9, <1>10, <1>11, <1>12, <1>13, Zenon

LEMMA UdpSendSteps == ASSUME Inv, UdpSend PROVE QueryStep
  <1> DEFINE x == [me EXCEPT !.sock = "live"]
             w == [x EXCEPT !.state = "UDPRECEIVE"]
             u(e) == [x EXCEPT !.errno = e]
  <1>1. c.pc = "sm" /\ me.state = "UDPINITIAL" BY Zenon DEF UdpSend
  <1>2. me \in Query /\ me.msg = "live" /\ me.buf \in {"none", "live"} BY <1>1, SmHolds, Zenon
  <1>3. SmAgain(w, TRUE) \/ \E e \in {"unreach", "none"} : SmFailed(Close(u(e)), "SERVFAIL")
    BY Zenon DEF UdpSend
  <1>4. x \in Query /\ x.sock = "live" /\ x.msg = "live" /\ x.buf # "dangling" /\ x.needs = me.needs
    BY <1>2, Zenon DEF Query
  <1> HIDE DEF x
  <1>5. /\ w \in Query /\ w.state = "UDPRECEIVE" /\ w.sock = "live" /\ w.msg = "live" /\ w.buf # "dangling"
        /\ w.needs = me.needs
    BY <1>4, Zenon DEF Query, States, Waiting
  <1>6. ASSUME NEW e \in {"unreach", "none"}
        PROVE  u(e) \in Query /\ u(e).sock = "live" /\ u(e).msg = "live" /\ u(e).buf # "dangling" /\ u(e).needs = me.needs
    BY <1>4, <1>6, Zenon DEF Query
  <1> HIDE DEF w, u
  <1>7. Holds(w) /\ w.state \in Waiting BY <1>5, Zenon DEF Holds, Open, Waiting
  <1>8. CASE SmAgain(w, TRUE) BY <1>1, <1>5, <1>7, <1>8, ComesBack, Zenon
  <1>9. ASSUME NEW e \in {"unreach", "none"}, SmFailed(Close(u(e)), "SERVFAIL") PROVE QueryStep
    BY <1>1, <1>6, <1>9, ClosedFalls, Fails, Zenon
  <1>10. QED BY <1>3, <1>8, <1>9, Zenon

LEMMA UdpReceiveSteps == ASSUME Inv, UdpReceive PROVE QueryStep
  <1> DEFINE x == [me EXCEPT !.buf = realloc(@)]
             n == [me EXCEPT !.buf = "none"]
             u(e) == [x EXCEPT !.errno = e]
  <1>1. c.pc = "sm" /\ me.state = "UDPRECEIVE" BY Zenon DEF UdpReceive
  <1>2. me \in Query /\ Holds(me) /\ me.msg = "live" /\ me.buf \in {"none", "live"} BY <1>1, SmHolds, Zenon
  <1>3. me.sock = "live" /\ me.state \in Waiting BY <1>1, <1>2, Zenon DEF Holds, Waiting
  <1>4. \/ SmAgain(x, FALSE) \/ SmFailed(Close(n), "FATALERR")
        \/ \E e \in {"unreach", "none"} : SmFailed(Close(u(e)), "SERVFAIL")
        \/ Only(Closed(x)) /\ Goto("reply") /\ UNCHANGED <<smVars, marks, idle>>
    BY Zenon DEF UdpReceive
  <1>5. /\ x \in Query /\ x.state = me.state /\ x.sock = "live" /\ x.msg = "live" /\ x.buf = "live"
        /\ x.needs = me.needs
    BY <1>2, <1>3, Zenon DEF Query, realloc
  <1>6. n \in Query /\ n.sock = "live" /\ n.msg = "live" /\ n.buf # "dangling" /\ n.needs = me.needs
    BY <1>2, <1>3, Zenon DEF Query
  <1> HIDE DEF x, n
  <1>7. ASSUME NEW e \in {"unreach", "none"}
        PROVE  u(e) \in Query /\ u(e).sock = "live" /\ u(e).msg = "live" /\ u(e).buf # "dangling" /\ u(e).needs = me.needs
    BY <1>5, <1>7, Zenon DEF Query
  <1> HIDE DEF u
  <1>8. Holds(x) /\ x.state \in Waiting BY <1>3, <1>5, Zenon DEF Holds, Open
  <1>9. CASE SmAgain(x, FALSE) BY <1>1, <1>5, <1>8, <1>9, ComesBack, Zenon
  <1>10. CASE SmFailed(Close(n), "FATALERR") BY <1>1, <1>6, <1>10, ClosedFalls, Fails, Zenon
  <1>11. ASSUME NEW e \in {"unreach", "none"}, SmFailed(Close(u(e)), "SERVFAIL") PROVE QueryStep
    BY <1>1, <1>7, <1>11, ClosedFalls, Fails, Zenon
  <1>12. CASE Only(Closed(x)) /\ Goto("reply") /\ UNCHANGED <<smVars, marks, idle>>
    BY <1>1, <1>5, <1>12, ReplyRead, Zenon
  <1>13. QED BY <1>4, <1>9, <1>10, <1>11, <1>12, Zenon

LEMMA ExecInitialSteps == ASSUME Inv, ExecInitial PROVE QueryStep
  <1> DEFINE x == [me EXCEPT !.msg = "live", !.buf = "none", !.rd = c.i \in Trusted]
             d == [me EXCEPT !.state = "DONE"]
  <1>1. c.pc = "exec" /\ me.state = "INITIAL" BY Zenon DEF ExecInitial, Inv, InHand
  <1>2. c.i \in Servers /\ me \in Query /\ c \in Control BY <1>1, InHandType, Zenon DEF InExec
  <1>3. Holds(me) BY <1>1, <1>2, Zenon DEF Inv, Resources, me
  <1>4. me.sock = "none" /\ me.msg # "live" /\ me.buf # "live"
    <2>1. me.sock \in {"none", "live"} BY <1>2, Zenon DEF Query
    <2>2. QED BY <1>1, <1>3, <2>1, Zenon DEF Holds, Open, Waiting, Initials
  <1>5. /\ \/ Only(Start(x)) /\ Goto("sm")
           \/ Only(d) /\ GotoWith("back", "FATALERR")
        /\ UNCHANGED <<smVars, marks, idle>>
    BY Zenon DEF ExecInitial
  <1>6. x \in Query /\ x.sock = "none" /\ x.msg = "live" /\ x.buf = "none" /\ x.needs = me.needs
    <2>1. (c.i \in Trusted) \in BOOLEAN OBVIOUS
    <2>2. ASSUME NEW rd \in BOOLEAN
          PROVE  LET y == [me EXCEPT !.msg = "live", !.buf = "none", !.rd = rd]
                 IN  y \in Query /\ y.sock = "none" /\ y.msg = "live" /\ y.buf = "none" /\ y.needs = me.needs
      BY <1>2, <1>4, <2>2, Zenon DEF Query
    <2>3. QED BY <2>1, <2>2, Zenon
  <1>7. d \in Query /\ d.state = "DONE" /\ d.sock = me.sock /\ d.msg = me.msg /\ d.buf = me.buf /\ d.needs = me.needs
    BY <1>2, Zenon DEF Query, States
  <1> HIDE DEF x, d
  <1>8. CASE Only(Start(x)) /\ Goto("sm")
    <2> DEFINE s == Start(x)
    <2>1. s \in Query /\ s.state \in Initials /\ s.sock = "none" /\ s.msg = "live" /\ s.buf = "none" /\ s.needs = me.needs
      BY <1>6, Zenon DEF Query, Start, States, Initials
    <2> HIDE DEF s
    <2>2. Holds(s) /\ s.state \in Open BY <2>1, Zenon DEF Holds, Open, Initials, Waiting
    <2>3. c' = [c EXCEPT !.pc = "sm", !.rv = c.rv] BY <1>2, <1>8, GotoIs, Zenon DEF PCs
    <2>4. qs' = [qs EXCEPT ![c.i] = s] BY <1>8, Zenon DEF Only, s
    <2>5. Lands(s, "sm", c.rv)
      BY <1>5, <2>1, <2>2, <2>3, <2>4, Zenon DEF Lands, Landed, SaidNothing, smVars
    <2>6. c.rv \in AllCodes BY <1>2, Zenon DEF Control
    <2>7. QED BY <1>1, <2>1, <2>5, <2>6, Zenon DEF QueryStep
  <1>9. CASE Only(d) /\ GotoWith("back", "FATALERR")
    <2>1. Holds(d) BY <1>4, <1>7, Zenon DEF Holds, Open, Initials, Waiting
    <2>2. Lands(d, "back", "FATALERR")
      BY <1>5, <1>7, <1>9, <2>1, Zenon DEF Lands, Landed, SaidNothing, smVars, Only, GotoWith, Ended
    <2>3. "FATALERR" \in AllCodes BY Zenon DEF AllCodes, Codes
    <2>4. QED BY <1>1, <1>7, <2>2, <2>3, Zenon DEF QueryStep
  <1>10. QED BY <1>5, <1>8, <1>9, Zenon

------------------------------------------------------------------------------
(* The reply *)

LEMMA ReplyHolds ==
    ASSUME Inv, c.pc = "reply"
    PROVE  /\ c.i \in Servers /\ me \in Query /\ c \in Control
           /\ me.state = "DONE" /\ me.sock = "none" /\ me.msg = "live" /\ me.buf # "dangling"
  <1>1. c.i \in Servers /\ me \in Query /\ c \in Control BY InHandType, Zenon DEF InExec
  <1>2. Replied(me) BY <1>1, Zenon DEF Inv, Resources, me
  <1>3. QED BY <1>1, <1>2, Zenon DEF Replied

(* The reply is discarded, and the query over; *)
LEMMA Discarded ==
    ASSUME Inv, c.pc = "reply", NEW x \in Query, x.sock = "none", x.msg # "dangling", x.buf # "dangling",
           NEW rv \in AllCodes, rv \notin Ended, rv # "AGAIN", Discard(x, rv), mode = "resolve" => rv # "OK",
           (marks' = marks /\ heard' = heard /\ x.needs = me.needs)
             \/ (/\ x.needs = 0 /\ heard' \subseteq heard \union {c.i}
                 /\ heard' \subseteq Servers /\ marks' \in {marks, marks \union {<<c.i, "up">>}}),
           UNCHANGED <<mode, ev, ts, until, clock, ent, serv, save, best>>
    PROVE  QueryStep
  <1> DEFINE y == FreeBuffers(Over(x))
  <1>1. c \in Control BY Zenon DEF Inv, Types
  <1>2. y \in Query /\ y.state = "DONE" /\ y.needs = x.needs /\ Holds(y) BY <1>1, OverFreed, Zenon
  <1>3. qs' = [qs EXCEPT ![c.i] = y] /\ c' = [c EXCEPT !.pc = "back", !.rv = rv] BY Zenon DEF Discard, Only, GotoWith
  <1> HIDE DEF y
  <1>4. SaidNothing(y) \/ SaidUp(y) BY <1>2, Zenon DEF SaidNothing, SaidUp
  <1>5. Lands(y, "back", rv) BY <1>2, <1>3, <1>4, Zenon DEF Lands, Landed
  <1>6. QED BY <1>2, <1>5, Zenon DEF QueryStep

LEMMA BadReplySteps == ASSUME Inv, BadReply PROVE QueryStep
  <1>1. c.pc = "reply" /\ Discard(me, "SERVFAIL") /\ UNCHANGED <<smVars, marks, idle>> BY Zenon DEF BadReply
  <1>2. me \in Query /\ me.sock = "none" /\ me.msg = "live" /\ me.buf # "dangling" BY <1>1, ReplyHolds, Zenon
  <1>3. "SERVFAIL" \in AllCodes /\ "SERVFAIL" \notin Ended BY Zenon DEF AllCodes, Codes, Ended
  <1>4. marks' = marks /\ heard' = heard /\ UNCHANGED <<mode, ev, ts, until, clock, ent, serv, save, best>>
    BY <1>1, Zenon DEF smVars
  <1>5. QED BY <1>1, <1>2, <1>3, <1>4, Discarded, Zenon

(* What a usable reply says of its server. *)
Usable ==
    /\ marks' \in {marks, marks \union {<<c.i, "up">>}}
    /\ heard' \subseteq heard \union {c.i} /\ heard' \subseteq Servers
    /\ UNCHANGED <<mode, ev, ts, until, clock, serv, save, best>>

(* or it is sent again; *)
LEMMA SentAgain ==
    ASSUME Inv, c.pc = "reply", NEW x \in Query, x.sock = "none", x.msg = "live", x.buf # "dangling",
           x.needs = 0, TryAgain(x), Usable
    PROVE  QueryStep
  <1> DEFINE s == Start(x)
  <1>1. s \in Query /\ s.state \in Initials /\ s.sock = "none" /\ s.msg = "live" /\ s.buf # "dangling" /\ s.needs = 0
    BY DEF Query, Start, States, Initials
  <1>2. c \in Control BY Zenon DEF Inv, Types
  <1>3. c' = [c EXCEPT !.pc = "sm", !.rv = c.rv] BY <1>2, GotoIs, Zenon DEF PCs, TryAgain
  <1>4. qs' = [qs EXCEPT ![c.i] = s] /\ UNCHANGED ent BY Zenon DEF TryAgain, Only
  <1> HIDE DEF s
  <1>5. Holds(s) /\ s.state \in Open BY <1>1, Zenon DEF Holds, Open, Initials, Waiting
  <1>6. SaidUp(s) BY <1>1, Zenon DEF SaidUp, Usable
  <1>7. Lands(s, "sm", c.rv) BY <1>3, <1>4, <1>5, <1>6, Zenon DEF Lands, Landed, Usable
  <1>8. c.rv \in AllCodes BY <1>2, Zenon DEF Control
  <1>9. QED BY <1>1, <1>7, <1>8, Zenon DEF QueryStep

(* or its sections are taken. *)
LEMMA Processed ==
    ASSUME Inv, c.pc = "reply", mode = "resolve", NEW x \in Query, x.sock = "none", x.msg = "live",
           x.buf # "dangling", x.needs = 0, NEW rcode, Process(x, rcode), Usable
    PROVE  QueryStep
  <1>1. c \in Control BY Zenon DEF Inv, Types
  <1>2. PICK rv \in {"OK", "NAMEERR", "SERVFAIL", "FATALERR"}, cl \in BOOLEAN, tc \in BOOLEAN, f \in {0, 1} :
          LET y == FreeBuffers([Over(x) EXCEPT !.claims = cl])
          IN  /\ Only(IF rv = "OK" THEN [y EXCEPT !.tc = tc, !.edns = x.edns, !.qm = x.qm,
                                                 !.failed = IF f = 1 THEN 1 ELSE x.failed]
                      ELSE y)
              /\ ent' = IF rv = "OK" THEN "live" ELSE ent
              /\ GotoWith("back", rv)
    BY ZenonT(60) DEF Process
  <1> DEFINE o == [Over(x) EXCEPT !.claims = cl]
             y == FreeBuffers(o)
             z == [y EXCEPT !.tc = tc, !.edns = x.edns, !.qm = x.qm, !.failed = IF f = 1 THEN 1 ELSE x.failed]
  <1>3. Over(x) \in Query /\ Over(x).state = "DONE" /\ Over(x).needs = 0 /\ Over(x).sock = "none"
        /\ Over(x).msg = "live" /\ Over(x).buf # "dangling"
    BY <1>1, OverIs, Zenon
  <1>4. qs' = [qs EXCEPT ![c.i] = IF rv = "OK" THEN z ELSE y] /\ ent' = (IF rv = "OK" THEN "live" ELSE ent)
        /\ c' = [c EXCEPT !.pc = "back", !.rv = rv]
    BY <1>2, Zenon DEF Only, GotoWith
  <1> HIDE DEF Over
  <1>5. o \in Query /\ o.state = "DONE" /\ o.needs = 0 /\ o.sock = "none" /\ o.msg = "live" /\ o.buf # "dangling"
    BY <1>3, Zenon DEF Query
  <1> HIDE DEF o
  <1>6. y \in Query /\ y.state = "DONE" /\ y.needs = 0 /\ y.sock = "none" /\ y.msg = "dangling" /\ y.buf = "dangling"
    BY <1>5, FreeIs, Zenon
  <1> HIDE DEF y
  <1>7. (IF f = 1 THEN 1 ELSE x.failed) \in {0, 1, 3}
    BY Zenon DEF Query
  <1>8. z \in Query /\ z.state = "DONE" /\ z.needs = 0 /\ z.sock = "none" /\ z.msg = "dangling" /\ z.buf = "dangling"
    <2> DEFINE l == IF f = 1 THEN 1 ELSE x.failed
    <2>1. y \in Query BY <1>6, Zenon
    <2>2. l \in {0, 1, 3} BY <1>7, Zenon
    <2>3. z = [y EXCEPT !.tc = tc, !.edns = x.edns, !.qm = x.qm, !.failed = l] BY Zenon
    <2> HIDE DEF l, z
    <2>4. z \in Query BY <2>1, <2>2, <2>3, ZenonT(30) DEF Query
    <2>5. z.state = y.state /\ z.needs = y.needs /\ z.sock = y.sock /\ z.msg = y.msg /\ z.buf = y.buf
      BY <2>1, <2>2, <2>3, Zenon DEF Query
    <2>6. QED BY <1>6, <2>4, <2>5, Zenon
  <1> HIDE DEF z
  <1>9. Holds(y) /\ Holds(z) BY <1>6, <1>8, Zenon DEF Holds, Open, Waiting, Initials
  <1>10. rv \in AllCodes /\ rv \notin Ended /\ rv # "AGAIN" BY Zenon DEF AllCodes, Codes, Resolved, Ended
  <1>11. SaidUp(y) /\ SaidUp(z) BY <1>6, <1>8, Zenon DEF SaidUp, Usable
  <1>12. CASE rv = "OK"
    <2>1. Lands(z, "back", rv) BY <1>4, <1>8, <1>9, <1>10, <1>11, <1>12, Zenon DEF Lands, Landed, Usable
    <2>2. QED BY <1>8, <1>10, <2>1, Zenon DEF QueryStep
  <1>13. CASE rv # "OK"
    <2>1. Lands(y, "back", rv) BY <1>4, <1>6, <1>9, <1>10, <1>11, <1>13, Zenon DEF Lands, Landed, Usable
    <2>2. QED BY <1>6, <1>10, <2>1, Zenon DEF QueryStep
  <1>14. QED BY <1>12, <1>13, Zenon

LEMMA ReplySteps ==
    ASSUME Inv, NEW rcode \in {"OK", "NAMEERR", "SERVFAIL", "REFUSED", "FORMAT"}, NEW ra \in BOOLEAN,
           NEW an \in BOOLEAN, Reply(rcode, ra, an)
    PROVE  QueryStep
  <1> DEFINE x == [me EXCEPT !.needs = 0]
             r == [x EXCEPT !.rd = FALSE]
             e == [x EXCEPT !.edns = FALSE]
             f == [x EXCEPT !.failed = 3]
  <1>1. c.pc = "reply" BY Zenon DEF Reply
  <1>2. /\ c.i \in Servers /\ me \in Query
        /\ me.sock = "none" /\ me.msg = "live" /\ me.buf # "dangling"
    BY <1>1, ReplyHolds, Zenon
  <1>3. Usable
    <2>1. heard \subseteq Servers BY Zenon DEF Inv, Types
    <2>2. QED BY <1>2, <2>1, Zenon DEF Reply, Usable
  <1>4. \/ mode = "uptest" /\ UNCHANGED ent /\ Discard(x, rcode)
        \/ mode = "resolve" /\ rcode \in {"OK", "NAMEERR"} /\ Process(x, rcode)
        \/ mode = "resolve" /\ rcode \notin {"OK", "NAMEERR"} /\ TryAgain(r)
        \/ mode = "resolve" /\ rcode \notin {"OK", "NAMEERR"} /\ TryAgain(e)
        \/ mode = "resolve" /\ rcode \notin {"OK", "NAMEERR"} /\ Process(f, rcode)
        \/ mode = "resolve" /\ rcode \notin {"OK", "NAMEERR"} /\ Discard(x, rcode) /\ UNCHANGED ent
    BY Zenon DEF Reply
  <1>5. x \in Query /\ x.sock = "none" /\ x.msg = "live" /\ x.buf # "dangling" /\ x.needs = 0
    BY <1>2 DEF Query
  <1> HIDE DEF x
  <1>6. r \in Query /\ r.sock = "none" /\ r.msg = "live" /\ r.buf # "dangling" /\ r.needs = 0 BY <1>5, Zenon DEF Query
  <1>7. e \in Query /\ e.sock = "none" /\ e.msg = "live" /\ e.buf # "dangling" /\ e.needs = 0 BY <1>5, Zenon DEF Query
  <1>8. f \in Query /\ f.sock = "none" /\ f.msg = "live" /\ f.buf # "dangling" /\ f.needs = 0 BY <1>5 DEF Query
  <1> HIDE DEF r, e, f
  <1>9. rcode \in AllCodes /\ rcode \notin Ended /\ rcode # "AGAIN" BY Zenon DEF AllCodes, Codes, Resolved, Ended
  <1>10. ASSUME Discard(x, rcode), UNCHANGED ent, mode = "resolve" => rcode # "OK" PROVE QueryStep
    BY <1>1, <1>3, <1>5, <1>9, <1>10, Discarded, Zenon DEF Usable
  <1>11. CASE mode = "uptest" /\ UNCHANGED ent /\ Discard(x, rcode) BY <1>10, <1>11, Zenon
  <1>12. CASE mode = "resolve" /\ rcode \in {"OK", "NAMEERR"} /\ Process(x, rcode)
    BY <1>1, <1>3, <1>5, <1>12, Processed, Zenon
  <1>13. CASE TryAgain(r) BY <1>1, <1>3, <1>6, <1>13, SentAgain, Zenon
  <1>14. CASE TryAgain(e) BY <1>1, <1>3, <1>7, <1>14, SentAgain, Zenon
  <1>15. CASE mode = "resolve" /\ Process(f, rcode) BY <1>1, <1>3, <1>8, <1>15, Processed, Zenon
  <1>16. CASE rcode \notin {"OK", "NAMEERR"} /\ Discard(x, rcode) /\ UNCHANGED ent BY <1>10, <1>16, Zenon
  <1>17. QED BY <1>4, <1>11, <1>12, <1>13, <1>14, <1>15, <1>16, Zenon

------------------------------------------------------------------------------
(* A step of the query in hand keeps the invariant. *)

LEMMA LandsFacts ==
    ASSUME Inv, c.pc \in {"exec", "sm", "reply"}, NEW x \in Query, NEW pc \in {"sm", "reply", "back"},
           NEW rv \in AllCodes, Lands(x, pc, rv)
    PROVE  /\ c.i \in Servers /\ me \in Query /\ c' \in Control
           /\ c'.pc = pc /\ c'.rv = rv /\ c'.ctx = c.ctx /\ c'.i = c.i /\ c'.j = c.j
           /\ c'.dc = c.dc /\ c'.mc = c.mc /\ c'.qse = c.qse /\ c'.method = c.method
           /\ qs' \in [Servers -> Query] /\ qs'[c.i] = x
           /\ \A k \in Servers : k # c.i => qs'[k] = qs[k]
           /\ <<c.i, "down">> \notin marks /\ \A k \in Servers : <<k, "silent">> \notin marks
  <1>1. c.i \in Servers /\ me \in Query /\ c \in Control BY InHandType, Zenon DEF InExec
  <1>2. qs \in [Servers -> Query] BY Zenon DEF Inv, Types
  <1>3. c' = [c EXCEPT !.pc = pc, !.rv = rv] /\ qs' = [qs EXCEPT ![c.i] = x] BY Zenon DEF Lands
  <1>4. pc \in PCs BY Zenon DEF PCs
  <1>5. /\ c' \in Control
        /\ c'.pc = pc /\ c'.rv = rv /\ c'.ctx = c.ctx /\ c'.i = c.i /\ c'.j = c.j
        /\ c'.dc = c.dc /\ c'.mc = c.mc /\ c'.qse = c.qse /\ c'.method = c.method
    BY <1>1, <1>3, <1>4, Zenon DEF Control
  <1>6. qs' \in [Servers -> Query] /\ qs'[c.i] = x /\ \A k \in Servers : k # c.i => qs'[k] = qs[k]
    BY <1>1, <1>2, <1>3, Zenon
  <1>7. <<c.i, "down">> \notin marks
    <2>1. me.state \in Open \/ me.state = "INITIAL" \/ c.pc = "reply" BY Zenon DEF Inv, InHand
    <2>2. Verdicts BY Zenon DEF Inv
    <2>3. <<c.i, "down">> \in marks => qs[c.i].state = "DONE" /\ c.pc # "reply" BY <1>1, <2>2, Zenon DEF Verdicts
    <2>4. QED BY <2>1, <2>3, Zenon DEF me, Open, Waiting, Initials
  <1>8. \A k \in Servers : <<k, "silent">> \notin marks
    <2>1. Verdicts BY Zenon DEF Inv
    <2>2. c.pc \notin {"finish", "returned"} BY Zenon
    <2>3. QED BY <2>1, <2>2, Zenon DEF Verdicts
  <1>9. QED BY <1>1, <1>5, <1>6, <1>7, <1>8, Zenon

LEMMA QueryTypes == ASSUME Inv, QueryStep PROVE Types' /\ Resources' /\ InHand' /\ Verdicts'
  <1>1. c.pc \in {"exec", "sm", "reply"} BY Zenon DEF QueryStep
  <1>2. PICK x \in Query, pc \in {"sm", "reply", "back"}, rv \in AllCodes : Lands(x, pc, rv)
    BY Zenon DEF QueryStep
  <1>3. /\ c.i \in Servers /\ me \in Query /\ c' \in Control
        /\ c'.pc = pc /\ c'.rv = rv /\ c'.i = c.i
        /\ qs' \in [Servers -> Query] /\ qs'[c.i] = x
        /\ \A k \in Servers : k # c.i => qs'[k] = qs[k]
        /\ <<c.i, "down">> \notin marks /\ \A k \in Servers : <<k, "silent">> \notin marks
    BY <1>1, <1>2, LandsFacts, Zenon
  <1>4. Types /\ Resources /\ InHand /\ Verdicts BY Zenon DEF Inv
  <1>5. UNCHANGED <<mode, ev, ts, until, clock, serv, save, best>> BY <1>2, Zenon DEF Lands
  <1>6. Landed(pc, rv, x) /\ (SaidNothing(x) \/ SaidDown(x, pc, rv) \/ SaidUp(x)) BY <1>2, Zenon DEF Lands
  <1>7. Types'
    <2>1. ent' \in {"none", "live", "dangling"} BY <1>2, <1>4, Zenon DEF Lands, Types
    <2>2. heard' \subseteq Servers BY <1>4, <1>6, Zenon DEF SaidNothing, SaidDown, SaidUp, Types
    <2>3. marks' \subseteq Servers \X {"up", "down", "silent"}
      BY <1>3, <1>4, <1>6 DEF SaidNothing, SaidDown, SaidUp, Types
    <2>4. QED BY <1>3, <1>4, <1>5, <2>1, <2>2, <2>3, Zenon DEF Types
  <1>8. Resources'
    <2> SUFFICES ASSUME NEW k \in Servers
                 PROVE  IF pc = "reply" /\ k = c.i THEN Replied(qs'[k]) ELSE Holds(qs'[k])
      BY <1>3, Zenon DEF Resources
    <2>1. CASE k = c.i BY <1>3, <1>6, <2>1, Zenon DEF Landed
    <2>2. CASE k # c.i
      <3>1. Holds(qs[k]) /\ qs'[k] = qs[k] BY <1>3, <1>4, <2>2, Zenon DEF Resources
      <3>2. QED BY <2>2, <3>1, Zenon
    <2>3. QED BY <2>1, <2>2, Zenon
  <1>9. InHand'
    <2>1. me' = x BY <1>3, Zenon DEF me
    <2>2. c'.i < NQ BY <1>3, ParametersAssumption DEF Servers
    <2>3. QED BY <1>3, <1>6, <2>1, <2>2, Zenon DEF InHand, Landed
  <1>10. Verdicts'
    <2> SUFFICES ASSUME NEW k \in Servers
                 PROVE  /\ k \in heard' \union (Servers \ Tested) =>
                             qs'[k].needs = 0 /\ <<k, "down">> \notin marks' /\ <<k, "silent">> \notin marks'
                        /\ <<k, "down">> \in marks' =>
                             /\ qs'[k].needs = 0 /\ qs'[k].state = "DONE"
                             /\ k = c.i => pc \notin {"reply", "auth"} /\ ~(pc = "back" /\ rv = "OK")
                        /\ <<k, "silent">> \in marks' => pc \in {"finish", "returned"} /\ qs'[k].needs = 2
      BY <1>3, Zenon DEF Verdicts
    <2>1. /\ k \in heard \union (Servers \ Tested) =>
                qs[k].needs = 0 /\ <<k, "down">> \notin marks /\ <<k, "silent">> \notin marks
          /\ <<k, "down">> \in marks => qs[k].needs = 0 /\ qs[k].state = "DONE"
          /\ <<k, "silent">> \notin marks
      BY <1>3, <1>4, Zenon DEF Verdicts
    <2>2. CASE k # c.i
      <3>1. qs'[k] = qs[k] BY <1>3, <2>2, Zenon
      <3>2. k \in heard' => k \in heard BY <1>6, <2>2, Zenon DEF SaidNothing, SaidDown, SaidUp
      <3>3. (<<k, "down">> \in marks' => <<k, "down">> \in marks) /\ <<k, "silent">> \notin marks'
        BY <1>6, <2>1, <2>2, Zenon DEF SaidNothing, SaidDown, SaidUp
      <3>4. QED BY <2>1, <2>2, <3>1, <3>2, <3>3, Zenon
    <2>3. CASE k = c.i /\ SaidNothing(x) BY <1>3, <2>1, <2>3, Zenon DEF SaidNothing, me
    <2>4. CASE k = c.i /\ SaidDown(x, pc, rv)
      <3>1. k \notin heard' \union (Servers \ Tested) BY <2>1, <2>4, Zenon DEF SaidDown, me
      <3>2. x.state = "DONE" /\ x.needs = 0 /\ pc = "back" /\ rv # "OK" BY <1>6, <2>4, Zenon DEF SaidDown, Landed
      <3>3. <<k, "silent">> \notin marks' BY <2>1, <2>4, Zenon DEF SaidDown
      <3>4. QED BY <1>3, <2>4, <3>1, <3>2, <3>3, Zenon
    <2>5. CASE k = c.i /\ SaidUp(x)
      <3>1. <<k, "down">> \notin marks' /\ <<k, "silent">> \notin marks' BY <1>3, <2>1, <2>5, Zenon DEF SaidUp
      <3>2. QED BY <1>3, <2>5, <3>1, Zenon DEF SaidUp
    <2>6. QED BY <1>6, <2>2, <2>3, <2>4, <2>5, Zenon
  <1>11. QED BY <1>7, <1>8, <1>9, <1>10, Zenon

LEMMA QueryLoops == ASSUME Inv, QueryStep, mode = "resolve" PROVE Loops'
  <1>1. c.pc \in {"exec", "sm", "reply"} BY Zenon DEF QueryStep
  <1>2. PICK x \in Query, pc \in {"sm", "reply", "back"}, rv \in AllCodes : Lands(x, pc, rv)
    BY Zenon DEF QueryStep
  <1>3. /\ c.i \in Servers
        /\ c'.pc = pc /\ c'.rv = rv /\ c'.ctx = c.ctx /\ c'.i = c.i /\ c'.j = c.j
        /\ c'.dc = c.dc /\ c'.mc = c.mc
        /\ \A k \in Servers : k # c.i => qs'[k] = qs[k]
    BY <1>1, <1>2, LandsFacts, Zenon
  <1>4. Batches /\ Started /\ Reported /\ Answers /\ Best /\ Patience BY Zenon DEF Inv, Loops
  <1>5. UNCHANGED <<mode, ev, ts, until, clock, serv, save, best>> BY <1>2, Zenon DEF Lands
  <1>6. c \in Control /\ NQ \in Nat /\ Servers \subseteq Nat
    BY ParametersAssumption DEF Inv, Types, Servers
  <1>7. c.dc \in Nat /\ c.i \in Nat BY <1>6, <1>3 DEF Control
  <1>8. c.dc <= c.i /\ c.ctx \in {"init", "events", "tmo"} BY <1>1, <1>4, Zenon DEF Batches, InExec
  <1>9. Batches' BY <1>1, <1>3, <1>4, Zenon DEF Batches, In, InExec, Looping
  <1>10. Front' = Front BY <1>1, <1>3, Zenon DEF Front, In, InExec
  <1>11. Started'
    <2>1. \A k \in Servers : k = c.i \/ IF k < Front THEN qs[k].state \in Waiting \union {"DONE"}
                                                   ELSE qs[k].state = "INITIAL"
      BY <1>1, <1>4, Zenon DEF Started, Looping, InExec
    <2>2. \A k \in Servers : k < c.dc => qs[k].state = "DONE" /\ k # c.i BY <1>1, <1>4, <1>6, <1>7, <1>8 DEF Started
    <2>3. \A k \in Servers : k = c.i \/ IF k < Front THEN qs'[k].state \in Waiting \union {"DONE"}
                                                   ELSE qs'[k].state = "INITIAL"
      BY <1>3, <2>1, Zenon
    <2>4. \A k \in Servers : k < c.dc => qs'[k].state = "DONE" BY <1>3, <2>2, Zenon
    <2> HIDE DEF Front
    <2>5. QED BY <1>3, <1>10, <2>3, <2>4, Zenon DEF Started, InExec
  <1>12. Reported'
    <2>1. CASE c.ctx = "events"
      <3>1. \A k \in ev : qs[k].state \in Waiting /\ k < c.mc /\ k > c.i
        BY <1>1, <1>4, <2>1, Zenon DEF Reported, In, InExec
      <3>2. ev \subseteq Servers BY Zenon DEF Inv, Types
      <3>3. \A k \in ev : k # c.i BY <1>6, <1>7, <3>1, <3>2
      <3>4. QED BY <1>3, <1>5, <3>1, <3>2, <3>3, Zenon DEF Reported
    <2>2. CASE c.ctx # "events" BY <1>3, <2>2, Zenon DEF Reported, In
    <2>3. QED BY <2>1, <2>2, Zenon
  <1>13. Answers'
    <2>1. ent = "none" /\ (c.rv = "OK" => save.has) BY <1>1, <1>4, Zenon DEF Answers
    <2>2. ent' = IF pc = "back" /\ rv = "OK" THEN "live" ELSE ent BY <1>2, Zenon DEF Lands
    <2>3. pc # "back" => rv = c.rv /\ c.rv \notin Ended BY <1>1, <1>2, <1>4, Zenon DEF Lands, Answers
    <2>4. pc = "back" => rv \notin Ended BY <1>2, Zenon DEF Lands, Landed
    <2>5. QED BY <1>3, <1>5, <2>1, <2>2, <2>3, <2>4, Zenon DEF Answers
  <1>14. Best' BY <1>1, <1>3, <1>4, <1>5, Zenon DEF Best
  <1>15. Patience'
    <2>1. c.ctx = "tmo" => ev # {} /\ clock >= ts + Timeout BY <1>1, <1>4, Zenon DEF Patience, InExec
    <2>2. QED BY <1>3, <1>5, <2>1, Zenon DEF Patience
  <1>16. QED BY <1>9, <1>11, <1>12, <1>13, <1>14, <1>15, Zenon DEF Loops

LEMMA QueryKeeps == ASSUME Inv, QueryStep PROVE Inv'
  <1>1. Types' /\ Resources' /\ InHand' /\ Verdicts' BY QueryTypes, Zenon
  <1>2. PICK x \in Query, pc \in {"sm", "reply", "back"}, rv \in AllCodes : Lands(x, pc, rv)
    BY Zenon DEF QueryStep
  <1>3. mode' = mode BY <1>2, Zenon DEF Lands
  <1>4. mode = "uptest" => Uptest'
    <2> SUFFICES ASSUME mode = "uptest" PROVE Uptest' BY Zenon
    <2>1. Uptest BY Zenon DEF Inv
    <2>2. c.pc \in {"exec", "sm", "reply"} BY Zenon DEF QueryStep
    <2>3. /\ c'.pc = pc /\ c'.i = c.i /\ c'.dc = c.dc /\ c'.mc = c.mc
          /\ \A k \in Servers : k # c.i => qs'[k] = qs[k]
      BY <1>2, <2>2, LandsFacts, Zenon
    <2>4. ent' = ent BY <1>2, Zenon DEF Lands
    <2>5. \A k \in Servers : k > 0 => qs'[k].state = "INITIAL" BY <2>1, <2>3 DEF Uptest, Servers
    <2>6. QED BY <2>1, <2>3, <2>4, <2>5, Zenon DEF Uptest
  <1>5. QED BY <1>1, <1>3, <1>4, QueryLoops, Zenon DEF Inv

------------------------------------------------------------------------------
(* The steps of p_recursive_query outside p_exec_query. *)

LEMMA Nats ==
    ASSUME Inv
    PROVE  /\ NQ \in Nat \ {0} /\ ParQueries \in Nat \ {0} /\ Timeout \in Nat /\ GlobalTimeout \in Nat
           /\ Servers = 0 .. NQ - 1 /\ c \in Control /\ qs \in [Servers -> Query]
           /\ c.i \in 0 .. NQ /\ c.j \in Nat /\ c.dc \in 0 .. NQ /\ c.mc \in 0 .. NQ
           /\ c.rv \in AllCodes /\ c.pc \in PCs /\ c.qse \in Servers /\ c.method \in MethodSet
           /\ ts \in Nat /\ until \in Nat /\ clock \in Nat /\ best \in Nat /\ save \in Saved
  <1>1. c \in Control BY Zenon DEF Inv, Types
  <1>2. /\ c.i \in 0 .. NQ /\ c.j \in Nat /\ c.dc \in 0 .. NQ /\ c.mc \in 0 .. NQ
        /\ c.rv \in AllCodes /\ c.pc \in PCs /\ c.qse \in Servers /\ c.method \in MethodSet
    BY <1>1, Zenon DEF Control
  <1>3. QED BY <1>1, <1>2, ParametersAssumption, Zenon DEF Inv, Types, Servers

LEMMA Resolving ==
    ASSUME Inv, c.pc \notin {"exec", "sm", "reply", "back", "uppoll", "returned"}
    PROVE  /\ mode = "resolve"
           /\ Batches /\ Started /\ Reported /\ Answers /\ Best /\ Patience
  <1>1. mode \in {"resolve", "uptest"} BY Zenon DEF Inv, Types
  <1>2. mode = "resolve" BY <1>1, Zenon DEF Inv, Uptest
  <1>3. QED BY <1>2, Zenon DEF Inv, Loops

LEMMA Untouched ==
    ASSUME Inv, UNCHANGED <<qs, marks, heard>>, c.pc # "reply", c'.pc \notin {"reply", "back"},
           c'.pc = "auth" => c.pc = "back" /\ c.rv = "OK" /\ c'.i = c.i,
           c.pc \in {"finish", "returned"} => c'.pc \in {"finish", "returned"}
    PROVE  Resources' /\ Verdicts'
  <1>1. Resources /\ Verdicts BY Zenon DEF Inv
  <1>2. Resources'
    <2>1. \A k \in Servers : Holds(qs[k]) BY <1>1, Zenon DEF Resources
    <2>2. QED BY <2>1, Zenon DEF Resources
  <1>3. Verdicts'
    <2> SUFFICES ASSUME NEW k \in Servers
                 PROVE  /\ k \in heard \union (Servers \ Tested) =>
                             qs[k].needs = 0 /\ <<k, "down">> \notin marks /\ <<k, "silent">> \notin marks
                        /\ <<k, "down">> \in marks =>
                             /\ qs[k].needs = 0 /\ qs[k].state = "DONE"
                             /\ k = c'.i => c'.pc \notin {"reply", "auth"} /\ ~(c'.pc = "back" /\ c'.rv = "OK")
                        /\ <<k, "silent">> \in marks => c'.pc \in {"finish", "returned"} /\ qs[k].needs = 2
      BY Zenon DEF Verdicts
    <2>1. /\ k \in heard \union (Servers \ Tested) =>
                qs[k].needs = 0 /\ <<k, "down">> \notin marks /\ <<k, "silent">> \notin marks
          /\ <<k, "down">> \in marks =>
                /\ qs[k].needs = 0 /\ qs[k].state = "DONE"
                /\ k = c.i => ~(c.pc = "back" /\ c.rv = "OK")
          /\ <<k, "silent">> \in marks => c.pc \in {"finish", "returned"} /\ qs[k].needs = 2
      BY <1>1, Zenon DEF Verdicts
    <2>2. QED BY <2>1, Zenon
  <1>4. QED BY <1>2, <1>3, Zenon

(* A step that leaves the queries alone and calls none of them. *)
LEMMA LoopStep ==
    ASSUME Inv, mode = "resolve", UNCHANGED <<mode, qs, marks, heard>>, Types', Loops',
           c.pc \notin {"reply", "finish", "returned"}, c'.pc \notin InExec
    PROVE  Inv'
  <1>1. Resources' /\ Verdicts' BY Untouched, Zenon DEF InExec
  <1>2. InHand' BY Zenon DEF InHand, InExec
  <1>3. QED BY <1>1, <1>2, Zenon DEF Inv

LEMMA BatchKeeps == ASSUME Inv, Batch PROVE Inv'
  <1>1. c.pc = "batch" /\ UNCHANGED <<loopVars, until, qs, ev, ts>> BY Zenon DEF Batch
  <1>2. UNCHANGED <<mode, qs, ev, ts, until, clock, ent, serv, save, marks, best, heard>>
    BY <1>1, Zenon DEF loopVars
  <1>3. mode = "resolve" /\ Batches /\ Started /\ Reported /\ Answers /\ Best /\ Patience BY <1>1, Resolving, Zenon
  <1>4. /\ NQ \in Nat \ {0} /\ ParQueries \in Nat \ {0} /\ Servers = 0 .. NQ - 1 /\ c \in Control
        /\ c.i \in 0 .. NQ /\ c.j \in Nat /\ c.dc \in 0 .. NQ /\ c.mc \in 0 .. NQ
    BY Nats, Zenon
  <1>5. c.dc <= c.mc /\ c.mc = (IF c.j > NQ THEN NQ ELSE c.j) BY <1>1, <1>3, Zenon DEF Batches
  <1>6. /\ \A k \in Servers : IF k < c.mc THEN qs[k].state \in Waiting \union {"DONE"}
                                           ELSE qs[k].state = "INITIAL"
        /\ \A k \in Servers : k < c.dc => qs[k].state = "DONE"
    BY <1>1, <1>3, Zenon DEF Started, Front, In, InExec, Looping
  <1>7. /\ ent = "none" /\ (c.rv = "OK" => save.has) /\ c.rv \notin Ended
        /\ best <= GOODQUAL /\ best = (IF save.has THEN save.qual ELSE 0)
    BY <1>1, <1>3, Zenon DEF Answers, Best
  <1>8. CASE c.j < NQ
    <2> DEFINE m == IF c.j + ParQueries > NQ THEN NQ ELSE c.j + ParQueries
    <2>1. c' = [c EXCEPT !.pc = "init", !.i = c.dc, !.mc = m] BY <1>8, Zenon DEF Batch
    <2>2. m \in 0 .. NQ /\ c.j <= m BY <1>4, <1>8
    <2>3. "init" \in PCs BY Zenon DEF PCs
    <2> HIDE DEF m
    <2>4. /\ c'.pc = "init" /\ c'.i = c.dc /\ c'.mc = m /\ c'.j = c.j /\ c'.dc = c.dc /\ c'.rv = c.rv
          /\ c' \in Control
      BY <1>4, <2>1, <2>2, <2>3, Zenon DEF Control
    <2>5. Types' BY <1>2, <2>4, Zenon DEF Inv, Types
    <2>6. Batches' BY <1>4, <1>5, <1>8, <2>2, <2>4 DEF Batches, In, InExec, Looping, m
    <2>7. Front' = c.mc BY <1>4, <1>5, <1>8, <2>4 DEF Front, In
    <2>8. Started' BY <1>2, <1>6, <2>4, <2>7, Zenon DEF Started, InExec
    <2>9. Reported' BY <2>4, Zenon DEF Reported, In, InExec
    <2>10. Answers' /\ Best' BY <1>2, <1>7, <2>4, Zenon DEF Answers, Best
    <2>11. Patience' BY <2>4, Zenon DEF Patience, InExec
    <2>12. QED BY <1>1, <1>2, <1>3, <2>4, <2>5, <2>6, <2>8, <2>9, <2>10, <2>11, LoopStep, Zenon DEF Loops, InExec
  <1>9. CASE c.j >= NQ
    <2>1. c' = [c EXCEPT !.pc = "cancel"] BY <1>4, <1>9 DEF Batch, Goto
    <2>2. "cancel" \in PCs BY Zenon DEF PCs
    <2>3. /\ c'.pc = "cancel" /\ c'.i = c.i /\ c'.mc = c.mc /\ c'.j = c.j /\ c'.dc = c.dc /\ c'.rv = c.rv
          /\ c' \in Control
      BY <1>4, <2>1, <2>2, Zenon DEF Control
    <2>4. Types' BY <1>2, <2>3, Zenon DEF Inv, Types
    <2>5. Batches' BY <1>5, <2>3, Zenon DEF Batches, In, InExec, Looping
    <2>6. Started' BY <1>2, <1>6, <2>3, Zenon DEF Started, InExec, Looping
    <2>7. Reported' BY <2>3, Zenon DEF Reported, In, InExec
    <2>8. Answers' /\ Best' BY <1>2, <1>7, <2>3, Zenon DEF Answers, Best
    <2>9. Patience' BY <1>1, <1>2, <1>3, <1>9, <2>3, Zenon DEF Patience, InExec
    <2>10. QED BY <1>1, <1>2, <1>3, <2>3, <2>4, <2>5, <2>6, <2>7, <2>8, <2>9, LoopStep, Zenon DEF Loops, InExec
  <1>10. QED BY <1>4, <1>8, <1>9

Loop == {"init", "build", "poll", "events", "timeout"}

LEMMA LoopFacts ==
    ASSUME Inv, c.pc \in Loop
    PROVE  /\ mode = "resolve" /\ Batches /\ Reported /\ Patience
           /\ c.j < NQ /\ c.dc <= c.mc /\ c.j <= c.mc
           /\ c.mc = (IF c.j + ParQueries > NQ THEN NQ ELSE c.j + ParQueries)
           /\ \A k \in Servers : k < c.dc => qs[k].state = "DONE"
           /\ \A k \in Servers : IF k < Front THEN qs[k].state \in Waiting \union {"DONE"}
                                              ELSE qs[k].state = "INITIAL"
           /\ c.pc # "init" => Front = c.mc
  <1>1. c.pc \notin InExec \union {"uppoll", "finish", "returned"} BY Zenon DEF Loop, InExec
  <1>2. mode = "resolve" /\ Batches /\ Started /\ Reported /\ Patience
    BY <1>1, Resolving, Zenon DEF InExec
  <1>3. c.pc \in Looping BY Zenon DEF Loop, Looping
  <1>4. /\ c.j < NQ /\ c.dc <= c.mc
        /\ c.mc = (IF c.j + ParQueries > NQ THEN NQ ELSE c.j + ParQueries)
    BY <1>2, <1>3, Zenon DEF Batches
  <1>5. c.j <= c.mc BY <1>4, Nats
  <1>6. /\ \A k \in Servers : k < c.dc => qs[k].state = "DONE"
        /\ \A k \in Servers : IF k < Front THEN qs[k].state \in Waiting \union {"DONE"}
                                           ELSE qs[k].state = "INITIAL"
    BY <1>1, <1>2, <1>3, Zenon DEF Started
  <1>7. c.pc # "init" => Front = c.mc BY <1>1, Zenon DEF Front, In
  <1>8. QED BY <1>2, <1>4, <1>5, <1>6, <1>7, Zenon

(* As long as no answer is judged, the saved one remains. *)
LEMMA AnswersStay ==
    ASSUME Inv, mode = "resolve", UNCHANGED <<ent, save, best>>, c'.rv \in {c.rv, "SERVFAIL"},
           c.pc \notin {"back", "auth", "done", "cancel", "finish", "returned"},
           c'.pc \notin {"back", "auth", "done", "cancel", "finish", "returned"},
           c'.pc = "poll" => c'.rv = "SERVFAIL"
    PROVE  Answers' /\ Best'
  <1>1. Answers /\ Best BY Zenon DEF Inv, Loops
  <1>2. "SERVFAIL" \notin Ended BY Zenon DEF Ended
  <1>3. Answers' BY <1>1, <1>2, Zenon DEF Answers
  <1>4. Best' BY <1>1, Zenon DEF Best
  <1>5. QED BY <1>3, <1>4, Zenon

(* The end of a batch. *)
LEMMA NextBatchKeeps ==
    ASSUME Inv, c.pc \in {"init", "build", "events", "timeout"}, Front = c.mc, Types',
           UNCHANGED <<mode, qs, clock, ent, save, marks, best, heard>>,
           c'.pc = "batch", c'.j = c.j + ParQueries, c'.mc = c.mc, c'.rv \in {c.rv, "SERVFAIL"},
           c'.dc <= c.mc, \A k \in Servers : k < c'.dc => qs[k].state = "DONE",
           c.mc = NQ => /\ (\E k \in Servers : qs[k].state \in Waiting) => clock >= GlobalTimeout
                        /\ (\E k \in Servers : k >= c.j /\ qs[k].state \in Waiting) => clock >= ts' + Timeout
    PROVE  Inv'
  <1>1. c.pc \in Loop BY Zenon DEF Loop
  <1>2. /\ NQ \in Nat \ {0} /\ ParQueries \in Nat \ {0} /\ c.j \in Nat
    BY Nats, Zenon
  <1>3. /\ mode = "resolve" /\ c.j < NQ
        /\ c.mc = (IF c.j + ParQueries > NQ THEN NQ ELSE c.j + ParQueries)
        /\ \A k \in Servers : IF k < c.mc THEN qs[k].state \in Waiting \union {"DONE"}
                                          ELSE qs[k].state = "INITIAL"
    BY <1>1, LoopFacts, Zenon
  <1>4. Batches' BY <1>2, <1>3, Zenon DEF Batches, In, InExec, Looping
  <1>5. Front' = c.mc BY Zenon DEF Front, In, InExec
  <1>6. Started' BY <1>3, <1>5, Zenon DEF Started, InExec
  <1>7. Reported' BY Zenon DEF Reported, In, InExec
  <1>8. Answers' /\ Best' BY <1>3, AnswersStay, Zenon
  <1>9. Patience'
    <2>1. c'.j >= NQ => c.mc = NQ BY <1>2, <1>3
    <2>2. c'.j - ParQueries = c.j BY <1>2
    <2>3. QED BY <2>1, <2>2, Zenon DEF Patience, InExec
  <1>10. QED BY <1>3, <1>4, <1>6, <1>7, <1>8, <1>9, LoopStep, Zenon DEF Loops, InExec

LEMMA NextBatchIs ==
    ASSUME Inv, c' = NextBatch
    PROVE  /\ c' \in Control /\ c'.pc = "batch" /\ c'.j = c.j + ParQueries /\ c'.mc = c.mc /\ c'.rv = c.rv
           /\ c'.dc = c.dc
  <1>1. c \in Control /\ c.j + ParQueries \in Nat BY Nats, SMTT(20)
  <1>2. "batch" \in PCs BY Zenon DEF PCs
  <1>3. QED BY <1>1, <1>2, Zenon DEF Control, NextBatch

LEMMA InitLoopKeeps == ASSUME Inv, InitLoop PROVE Inv'
  <1>1. c.pc = "init" /\ UNCHANGED <<loopVars, until, qs, ev>> BY Zenon DEF InitLoop
  <1>2. UNCHANGED <<mode, qs, ev, until, clock, ent, serv, save, marks, best, heard>> BY <1>1, Zenon DEF loopVars
  <1>3. /\ NQ \in Nat \ {0} /\ ParQueries \in Nat \ {0} /\ Servers = 0 .. NQ - 1 /\ c \in Control
        /\ c.i \in 0 .. NQ /\ c.j \in Nat /\ c.dc \in 0 .. NQ /\ c.mc \in 0 .. NQ
    BY Nats, Zenon
  <1>4. /\ mode = "resolve" /\ Batches /\ c.j < NQ /\ c.dc <= c.mc /\ c.j <= c.mc
        /\ c.mc = (IF c.j + ParQueries > NQ THEN NQ ELSE c.j + ParQueries)
        /\ \A k \in Servers : k < c.dc => qs[k].state = "DONE"
        /\ \A k \in Servers : IF k < Front THEN qs[k].state \in Waiting \union {"DONE"}
                                           ELSE qs[k].state = "INITIAL"
    BY <1>1, LoopFacts, Zenon DEF Loop
  <1>5. c.dc <= c.i /\ c.i <= c.mc BY <1>1, <1>4, Zenon DEF Batches
  <1>6. Front = (IF c.i > c.j THEN c.i ELSE c.j) BY <1>1, Zenon DEF Front, In
  <1>7. CASE c.i < c.mc /\ c.i >= c.j
    <2>1. c.i \in Servers /\ me.state = "INITIAL" BY <1>3, <1>4, <1>6, <1>7 DEF me
    <2>2. Exec(c.i, "init", me) /\ ts' = ts BY <1>3, <1>7 DEF InitLoop
    <2>3. c' = [c EXCEPT !.i = c.i, !.ctx = "init", !.pc = "exec"] BY <2>1, <2>2, Zenon DEF Exec
    <2>4. "exec" \in PCs BY Zenon DEF PCs
    <2>5. /\ c'.pc = "exec" /\ c'.ctx = "init" /\ c'.i = c.i /\ c'.mc = c.mc /\ c'.j = c.j
          /\ c'.dc = c.dc /\ c'.rv = c.rv /\ c' \in Control
      BY <1>3, <2>3, <2>4, Zenon DEF Control
    <2>6. Types' BY <1>2, <2>2, <2>5, Zenon DEF Inv, Types
    <2>7. Batches' BY <1>4, <1>5, <1>7, <2>5, Zenon DEF Batches, In, InExec, Looping
    <2>8. Front' = Front BY <1>6, <2>5, Zenon DEF Front, In, InExec
    <2>9. Started' BY <1>2, <1>4, <2>5, <2>8, Zenon DEF Started, InExec
    <2>10. Reported' BY <2>5, Zenon DEF Reported, In, InExec
    <2>11. Answers' /\ Best' BY <1>1, <1>2, <1>4, <2>5, AnswersStay, Zenon
    <2>12. Patience' BY <2>5, Zenon DEF Patience, InExec
    <2>13. Resources' /\ Verdicts' BY <1>1, <1>2, <2>5, Untouched, Zenon
    <2>14. InHand' BY <1>2, <1>3, <2>1, <2>5 DEF InHand, me
    <2>15. QED BY <1>2, <1>4, <2>6, <2>7, <2>9, <2>10, <2>11, <2>12, <2>13, <2>14, Zenon DEF Inv, Loops
  <1>8. CASE c.i < c.mc /\ c.i < c.j
    <2> DEFINE d == IF me.state = "DONE" /\ c.i = c.dc THEN c.dc + 1 ELSE c.dc
    <2>1. c' = [c EXCEPT !.i = c.i + 1, !.dc = d] /\ ts' = ts BY <1>3, <1>8 DEF InitLoop
    <2>2. c.i + 1 \in 0 .. NQ /\ d \in 0 .. NQ BY <1>3, <1>8
    <2>3. d <= c.i + 1 /\ d <= c.mc BY <1>3, <1>4, <1>5, <1>8
    <2>4. \A k \in Servers : k < d => qs[k].state = "DONE" BY <1>3, <1>4 DEF me
    <2> HIDE DEF d
    <2>5. /\ c'.pc = "init" /\ c'.i = c.i + 1 /\ c'.mc = c.mc /\ c'.j = c.j
          /\ c'.dc = d /\ c'.rv = c.rv /\ c' \in Control
      BY <1>1, <1>3, <2>1, <2>2, Zenon DEF Control
    <2>6. Types' BY <1>2, <2>1, <2>5, Zenon DEF Inv, Types
    <2>7. Batches' BY <1>3, <1>4, <1>5, <1>8, <2>2, <2>3, <2>5 DEF Batches, In, InExec, Looping
    <2>8. Front' = Front BY <1>3, <1>6, <1>8, <2>5 DEF Front, In, InExec
    <2>9. Started' BY <1>2, <1>4, <2>4, <2>5, <2>8, Zenon DEF Started, InExec
    <2>10. Reported' BY <2>5, Zenon DEF Reported, In, InExec
    <2>11. Answers' /\ Best' BY <1>1, <1>2, <1>4, <2>5, AnswersStay, Zenon
    <2>12. Patience' BY <2>5, Zenon DEF Patience, InExec
    <2>13. QED BY <1>1, <1>2, <1>4, <2>5, <2>6, <2>7, <2>9, <2>10, <2>11, <2>12, LoopStep, Zenon DEF Loops, InExec
  <1>9. CASE c.i >= c.mc
    <2>1. Front = c.mc BY <1>3, <1>4, <1>5, <1>6, <1>9
    <2>2. ts' = clock /\ IF c.dc < c.mc THEN Goto("build") ELSE c' = NextBatch BY <1>3, <1>9 DEF InitLoop
    <2>3. CASE c.dc < c.mc
      <3>1. c' = [c EXCEPT !.pc = "build"] BY <2>2, <2>3, Zenon DEF Goto
      <3>2. "build" \in PCs BY Zenon DEF PCs
      <3>3. /\ c'.pc = "build" /\ c'.mc = c.mc /\ c'.j = c.j /\ c'.dc = c.dc /\ c'.rv = c.rv /\ c' \in Control
        BY <1>3, <3>1, <3>2, Zenon DEF Control
      <3>4. Types' BY <1>2, <2>2, <3>3, Zenon DEF Inv, Types
      <3>5. Batches' BY <1>4, <3>3, Zenon DEF Batches, In, InExec, Looping
      <3>6. Front' = c.mc BY <3>3, Zenon DEF Front, In, InExec
      <3>7. Started' BY <1>2, <1>4, <2>1, <3>3, <3>6, Zenon DEF Started, InExec
      <3>8. Reported' BY <3>3, Zenon DEF Reported, In, InExec
      <3>9. Answers' /\ Best' BY <1>1, <1>2, <1>4, <3>3, AnswersStay, Zenon
      <3>10. Patience' BY <3>3, Zenon DEF Patience, InExec
      <3>11. QED BY <1>1, <1>2, <1>4, <3>3, <3>4, <3>5, <3>7, <3>8, <3>9, <3>10, LoopStep, Zenon DEF Loops, InExec
    <2>4. CASE ~(c.dc < c.mc)
      <3>1. /\ c' \in Control /\ c'.pc = "batch" /\ c'.j = c.j + ParQueries /\ c'.mc = c.mc /\ c'.rv = c.rv
            /\ c'.dc = c.dc
        BY <2>2, <2>4, NextBatchIs, Zenon
      <3>2. Types' BY <1>2, <2>2, <3>1, Zenon DEF Inv, Types
      <3>3. c.mc = NQ => ~\E k \in Servers : qs[k].state \in Waiting BY <1>3, <1>4, <2>4 DEF Waiting
      <3>4. QED BY <1>1, <1>2, <1>4, <2>1, <3>1, <3>2, <3>3, NextBatchKeeps, Zenon
    <2>5. QED BY <2>3, <2>4, Zenon
  <1>10. QED BY <1>3, <1>7, <1>8, <1>9

(* A step from one place of the loops to another. *)
LEMMA LoopOn ==
    ASSUME Inv, c.pc \in Loop, Front = c.mc, Types', UNCHANGED <<mode, qs, ent, save, marks, best, heard>>,
           c'.pc \in Loop \ {"init"}, c'.mc = c.mc, c'.j = c.j, c'.dc <= c.mc, c'.rv \in {c.rv, "SERVFAIL"},
           c'.pc = "poll" => c'.rv = "SERVFAIL", \A k \in Servers : k < c'.dc => qs[k].state = "DONE",
           c'.pc = "events" => c'.dc <= c'.i /\ c'.i <= c.mc,
           c'.pc = "timeout" => c.j <= c'.i /\ c'.i <= c.mc, Reported', Patience'
    PROVE  Inv'
  <1>1. /\ mode = "resolve" /\ c.j < NQ
        /\ c.mc = (IF c.j + ParQueries > NQ THEN NQ ELSE c.j + ParQueries)
        /\ \A k \in Servers : IF k < c.mc THEN qs[k].state \in Waiting \union {"DONE"}
                                          ELSE qs[k].state = "INITIAL"
    BY LoopFacts, Zenon
  <1>2. c'.pc \in {"build", "poll", "events", "timeout"} BY Zenon DEF Loop
  <1>3. Batches' BY <1>1, <1>2, Zenon DEF Batches, In, InExec, Looping
  <1>4. Front' = c.mc BY <1>2, Zenon DEF Front, In, InExec
  <1>5. Started' BY <1>1, <1>2, <1>4, Zenon DEF Started, InExec
  <1>6. Answers' /\ Best' BY <1>1, <1>2, AnswersStay, Zenon DEF Loop
  <1>7. c.pc \notin {"reply", "finish", "returned"} /\ c'.pc \notin InExec BY <1>2, Zenon DEF Loop, InExec
  <1>8. QED BY <1>1, <1>3, <1>5, <1>6, <1>7, LoopStep, Zenon DEF Loops

LEMMA BuildKeeps == ASSUME Inv, Build PROVE Inv'
  <1>1. c.pc = "build" /\ UNCHANGED <<mode, qs, ev, ts, clock, ent, serv, save, marks, best, heard>> BY Zenon DEF Build
  <1>2. /\ NQ \in Nat \ {0} /\ ParQueries \in Nat \ {0} /\ Servers = 0 .. NQ - 1 /\ c \in Control
        /\ c.i \in 0 .. NQ /\ c.j \in Nat /\ c.dc \in 0 .. NQ /\ c.mc \in 0 .. NQ
        /\ ts \in Nat /\ clock \in Nat /\ GlobalTimeout \in Nat /\ Timeout \in Nat
    BY Nats, Zenon
  <1>3. /\ c.dc <= c.mc
        /\ \A k \in Servers : k < c.dc => qs[k].state = "DONE"
        /\ \A k \in Servers : IF k < c.mc THEN qs[k].state \in Waiting \union {"DONE"}
                                          ELSE qs[k].state = "INITIAL"
        /\ Front = c.mc
    BY <1>1, LoopFacts, Zenon DEF Loop
  <1>4. CASE Pending = {}
    <2> DEFINE jj == c.j + ParQueries
    <2>1. c' = [c EXCEPT !.pc = "batch", !.j = jj, !.dc = c.mc, !.rv = "SERVFAIL"] /\ until' = until
      <3>1. c' = [NextBatch EXCEPT !.dc = c.mc, !.rv = "SERVFAIL"] /\ until' = until BY <1>4, Zenon DEF Build
      <3>2. QED BY <1>2, <3>1, Zenon DEF NextBatch, Control
    <2>2. "batch" \in PCs /\ "SERVFAIL" \in AllCodes BY Zenon DEF PCs, AllCodes, Codes
    <2>3. jj \in Nat BY <1>2
    <2> HIDE DEF jj
    <2>4. /\ c'.pc = "batch" /\ c'.mc = c.mc /\ c'.j = jj /\ c'.dc = c.mc /\ c'.rv = "SERVFAIL" /\ c' \in Control
      BY <1>2, <2>1, <2>2, <2>3, Zenon DEF Control
    <2>5. Types' BY <1>1, <2>1, <2>4, Zenon DEF Inv, Types
    <2>6. \A k \in Servers : k < c.mc => qs[k].state = "DONE" BY <1>2, <1>3, <1>4 DEF Pending
    <2>7. c.mc = NQ => ~\E k \in Servers : qs[k].state \in Waiting BY <1>2, <2>6 DEF Waiting
    <2>8. c'.dc <= c.mc /\ \A k \in Servers : k < c'.dc => qs[k].state = "DONE" BY <1>2, <2>4, <2>6
    <2>9. QED BY <1>1, <1>3, <2>4, <2>5, <2>7, <2>8, NextBatchKeeps, Zenon DEF jj
  <1>5. CASE Pending # {}
    <2> DEFINE tent == \E k \in c.j .. c.mc - 1 : tentative_tcp_query(qs[k])
               mine == \E k \in c.j .. c.mc - 1 : qs[k].state \in Waiting
               w    == IF maxto > 0 THEN maxto ELSE 0
    <2>1. c' = [c EXCEPT !.pc = "poll", !.rv = "SERVFAIL"] /\ until' = clock + w BY <1>5, Zenon DEF Build, GotoWith
    <2>2. "poll" \in PCs /\ "SERVFAIL" \in AllCodes BY Zenon DEF PCs, AllCodes, Codes
    <2>3. /\ c'.pc = "poll" /\ c'.mc = c.mc /\ c'.j = c.j /\ c'.dc = c.dc /\ c'.rv = "SERVFAIL" /\ c' \in Control
      BY <1>2, <2>1, <2>2, Zenon DEF Control
    <2>4. maxto \in Int /\ (c.mc = NQ /\ ~tent => maxto >= GlobalTimeout - clock)
      BY <1>2 DEF maxto
    <2>5. mine => maxto >= Timeout - (clock - ts)
      <3> SUFFICES ASSUME NEW k \in c.j .. c.mc - 1, qs[k].state \in Waiting PROVE maxto >= Timeout - (clock - ts)
        BY Zenon
      <3>1. k \in Servers BY <1>2
      <3>2. ~(k < c.dc) BY <1>3, <3>1, Zenon DEF Waiting
      <3>3. k \in Pending BY <1>2, <3>1, <3>2 DEF Pending, Waiting
      <3>4. \E i \in Pending : i >= c.j BY <1>2, <3>3
      <3>5. QED BY <1>2, <3>4 DEF maxto
    <2>6. /\ until' \in Nat /\ (c.mc = NQ /\ ~tent => until' >= GlobalTimeout)
          /\ (mine => until' >= ts + Timeout)
      <3> HIDE DEF tent, mine
      <3>1. QED BY <1>2, <2>1, <2>4, <2>5, SMTT(20)
    <2>7. Types' BY <1>1, <2>3, <2>6, Zenon DEF Inv, Types
    <2>8. Reported' BY <2>3, Zenon DEF Reported, In, InExec
    <2>9. Patience'
      <3>1. c.mc < NQ \/ until' >= GlobalTimeout \/ tent BY <1>2, <2>6
      <3>2. mine' = mine /\ tent' = tent BY <1>1, <2>3, Zenon DEF tentative_tcp_query
      <3>3. c'.pc = "poll" => (c'.mc < NQ \/ until' >= GlobalTimeout \/ tent') /\ (mine' => until' >= ts' + Timeout)
        <4> HIDE DEF tent, mine
        <4>1. QED BY <1>1, <2>3, <2>6, <3>1, <3>2, Zenon
      <3>4. c'.pc \notin {"timeout", "batch", "cancel"} \union InExec BY <2>3, Zenon DEF InExec
      <3>5. QED BY <3>3, <3>4, Zenon DEF Patience
    <2>10. QED BY <1>1, <1>3, <2>3, <2>7, <2>8, <2>9, LoopOn, Zenon DEF Loop
  <1>6. QED BY <1>4, <1>5, Zenon

LEMMA PollWaitKeeps == ASSUME Inv, PollWait PROVE Inv'
  <1>1. /\ c.pc \in {"poll", "uppoll"} /\ clock' = clock + 1
        /\ UNCHANGED <<mode, qs, c, ev, ts, until, ent, serv, save, marks, best, heard>>
    BY Zenon DEF PollWait
  <1>2. Types' BY <1>1 DEF Inv, Types
  <1>3. Resources' /\ Verdicts' BY <1>1, Untouched, Zenon
  <1>4. InHand' BY <1>1, Zenon DEF InHand, InExec
  <1>5. mode = "uptest" => Uptest'
    <2>1. mode = "uptest" => Uptest BY Zenon DEF Inv
    <2>2. me' = me BY <1>1, Zenon DEF me
    <2>3. QED BY <1>1, <2>1, <2>2, Zenon DEF Uptest
  <1>6. ASSUME mode = "resolve" PROVE Loops'
    <2>1. Batches /\ Started /\ Reported /\ Answers /\ Best /\ Patience BY <1>6, Zenon DEF Inv, Loops
    <2>2. Batches' BY <1>1, <2>1, Zenon DEF Batches, In
    <2>3. Front' = Front BY <1>1, Zenon DEF Front, In
    <2>4. Started'
      <3> HIDE DEF Front
      <3>1. QED BY <1>1, <2>1, <2>3, Zenon DEF Started
    <2>5. Reported' BY <1>1, Zenon DEF Reported, In, InExec
    <2>6. Answers' /\ Best' BY <1>1, <2>1, Zenon DEF Answers, Best
    <2>7. Patience'
      <3>1. c.pc = "poll" BY <1>1, <2>1, Zenon DEF Batches
      <3>2. QED BY <1>1, <2>1, <3>1, Zenon DEF Patience, InExec, tentative_tcp_query
    <2>8. QED BY <2>2, <2>4, <2>5, <2>6, <2>7, Zenon DEF Loops
  <1>7. QED BY <1>1, <1>2, <1>3, <1>4, <1>5, <1>6, Zenon DEF Inv

LEMMA PollFailsKeeps == ASSUME Inv, PollFails PROVE Inv'
  <1>1. /\ c.pc = "poll" /\ c' = [c EXCEPT !.pc = "done"] /\ until' = 0
        /\ UNCHANGED <<mode, qs, ev, ts, clock, ent, serv, save, marks, best, heard>>
    BY Zenon DEF PollFails, loopVars, Goto
  <1>2. c \in Control BY Nats, Zenon
  <1>3. "done" \in PCs BY Zenon DEF PCs
  <1>4. /\ c'.pc = "done" /\ c'.mc = c.mc /\ c'.j = c.j /\ c'.dc = c.dc /\ c'.rv = c.rv /\ c' \in Control
    BY <1>1, <1>2, <1>3, Zenon DEF Control
  <1>5. /\ mode = "resolve" /\ c.dc <= c.mc /\ c.j < NQ
        /\ \A k \in Servers : k < c.dc => qs[k].state = "DONE"
        /\ \A k \in Servers : IF k < c.mc THEN qs[k].state \in Waiting \union {"DONE"}
                                          ELSE qs[k].state = "INITIAL"
    BY <1>1, LoopFacts, Zenon DEF Loop
  <1>6. ent = "none" /\ c.rv = "SERVFAIL" BY <1>1, Resolving, Zenon DEF Answers
  <1>7. Types' BY <1>1, <1>4, Zenon DEF Inv, Types
  <1>8. Batches' BY <1>4, <1>5, Zenon DEF Batches, In, InExec, Looping
  <1>9. Started' BY <1>1, <1>4, <1>5, Zenon DEF Started, InExec, Looping
  <1>10. Reported' BY <1>4, Zenon DEF Reported, In, InExec
  <1>11. Answers' /\ Best' BY <1>1, <1>4, <1>6, Zenon DEF Answers, Best, Ended
  <1>12. Patience' BY <1>4, Zenon DEF Patience, InExec
  <1>13. QED BY <1>1, <1>4, <1>5, <1>7, <1>8, <1>9, <1>10, <1>11, <1>12, LoopStep, Zenon DEF Loops, InExec

LEMMA PollEventsKeeps == ASSUME Inv, PollEvents PROVE Inv'
  <1>1. /\ c.pc = "poll" /\ c' = [c EXCEPT !.pc = "events", !.i = c.dc] /\ until' = 0 /\ ev' \subseteq Pending
        /\ UNCHANGED <<mode, qs, ts, clock, ent, serv, save, marks, best, heard>>
    BY Zenon DEF PollEvents, loopVars
  <1>2. c \in Control /\ NQ \in Nat /\ c.dc \in 0 .. NQ /\ c.mc \in 0 .. NQ /\ Servers = 0 .. NQ - 1 BY Nats, Zenon
  <1>3. "events" \in PCs BY Zenon DEF PCs
  <1>4. /\ c'.pc = "events" /\ c'.i = c.dc /\ c'.mc = c.mc /\ c'.j = c.j /\ c'.dc = c.dc /\ c'.rv = c.rv
        /\ c' \in Control
    BY <1>1, <1>2, <1>3, Zenon DEF Control
  <1>5. /\ c.dc <= c.mc /\ Front = c.mc
        /\ \A k \in Servers : k < c.dc => qs[k].state = "DONE"
        /\ \A k \in Servers : k < c.mc => qs[k].state \in Waiting \union {"DONE"}
    BY <1>1, LoopFacts, Zenon DEF Loop
  <1>6. \A k \in ev' : k \in Servers /\ k < c.mc /\ k >= c.dc /\ qs[k].state \in Waiting
    BY <1>1, <1>2, <1>5 DEF Pending
  <1>7. Types' BY <1>1, <1>4, <1>6, Zenon DEF Inv, Types
  <1>8. Reported' BY <1>1, <1>4, <1>6, Zenon DEF Reported
  <1>9. Patience' BY <1>4, Zenon DEF Patience, InExec
  <1>10. QED BY <1>1, <1>2, <1>4, <1>5, <1>7, <1>8, <1>9, LoopOn DEF Loop

LEMMA PollTimeoutKeeps == ASSUME Inv, PollTimeout PROVE Inv'
  <1>1. /\ c.pc = "poll" /\ clock >= until /\ c' = [c EXCEPT !.pc = "timeout", !.i = c.j] /\ until' = 0 /\ ev' = {}
        /\ UNCHANGED <<mode, qs, ts, clock, ent, serv, save, marks, best, heard>>
    BY Zenon DEF PollTimeout, loopVars
  <1>2. /\ c \in Control /\ NQ \in Nat /\ c.j \in Nat /\ c.mc \in 0 .. NQ /\ ts \in Nat /\ until \in Nat
        /\ clock \in Nat /\ Timeout \in Nat /\ GlobalTimeout \in Nat
    BY Nats, Zenon
  <1>3. /\ Patience /\ c.dc <= c.mc /\ Front = c.mc /\ c.j <= c.mc /\ c.j < NQ
        /\ \A k \in Servers : k < c.dc => qs[k].state = "DONE"
    BY <1>1, LoopFacts, Zenon DEF Loop
  <1>4. "timeout" \in PCs /\ c.j \in 0 .. NQ BY <1>2, <1>3 DEF PCs
  <1>5. /\ c'.pc = "timeout" /\ c'.i = c.j /\ c'.mc = c.mc /\ c'.j = c.j /\ c'.dc = c.dc /\ c'.rv = c.rv
        /\ c' \in Control
    BY <1>1, <1>2, <1>4, Zenon DEF Control
  <1>6. Types' BY <1>1, <1>5, Zenon DEF Inv, Types
  <1>7. Reported' BY <1>5, Zenon DEF Reported, In, InExec
  <1>8. Patience'
    <2> DEFINE tent == \E k \in c.j .. c.mc - 1 : tentative_tcp_query(qs[k])
               mine == \E k \in c.j .. c.mc - 1 : qs[k].state \in Waiting
    <2>1. (c.mc < NQ \/ until >= GlobalTimeout \/ tent) /\ (mine => until >= ts + Timeout)
      BY <1>1, <1>3, Zenon DEF Patience
    <2>2. mine' = mine /\ (tent => \E k \in c'.i .. c'.mc - 1 : tentative_tcp_query(qs'[k]))
      BY <1>1, <1>5, Zenon DEF tentative_tcp_query
    <2>3. c.mc < NQ \/ clock >= GlobalTimeout \/ tent
      <3> HIDE DEF tent, mine
      <3>1. QED BY <1>1, <1>2, <2>1
    <2>4. mine => clock >= ts + Timeout
      <3> HIDE DEF tent, mine
      <3>1. QED BY <1>1, <1>2, <2>1
    <2>5. c'.pc \notin {"poll", "batch", "cancel"} \union InExec BY <1>5, Zenon DEF InExec
    <2>6. mine' => clock' >= ts' + Timeout BY <1>1, <2>2, <2>4, Zenon
    <2>7. c'.mc < NQ \/ ev' # {} \/ clock' >= GlobalTimeout \/ \E k \in c'.i .. c'.mc - 1 : tentative_tcp_query(qs'[k])
      BY <1>1, <1>5, <2>2, <2>3, Zenon
    <2>8. QED BY <2>5, <2>6, <2>7, Zenon DEF Patience
  <1>9. QED BY <1>1, <1>2, <1>3, <1>5, <1>6, <1>7, <1>8, LoopOn DEF Loop

LEMMA EventsKeeps == ASSUME Inv, Events PROVE Inv'
  <1>1. c.pc = "events" /\ UNCHANGED <<mode, qs, ts, until, clock, ent, serv, save, marks, best, heard>>
    BY Zenon DEF Events, loopVars
  <1>2. /\ NQ \in Nat \ {0} /\ Servers = 0 .. NQ - 1 /\ c \in Control
        /\ c.i \in 0 .. NQ /\ c.j \in Nat /\ c.dc \in 0 .. NQ /\ c.mc \in 0 .. NQ
    BY Nats, Zenon
  <1>3. /\ mode = "resolve" /\ Batches /\ Reported /\ c.j < NQ /\ c.dc <= c.mc /\ Front = c.mc
        /\ c.mc = (IF c.j + ParQueries > NQ THEN NQ ELSE c.j + ParQueries)
        /\ \A k \in Servers : k < c.dc => qs[k].state = "DONE"
        /\ \A k \in Servers : IF k < c.mc THEN qs[k].state \in Waiting \union {"DONE"}
                                          ELSE qs[k].state = "INITIAL"
    BY <1>1, LoopFacts, Zenon DEF Loop
  <1>4. c.dc <= c.i /\ c.i <= c.mc BY <1>1, <1>3, Zenon DEF Batches
  <1>5. ev \subseteq Servers /\ \A k \in ev : qs[k].state \in Waiting /\ k < c.mc /\ k >= c.i
    <2>1. ev \subseteq Servers BY Zenon DEF Inv, Types
    <2>2. QED BY <1>1, <1>3, <2>1, Zenon DEF Reported, In
  <1>6. CASE c.i < c.mc /\ c.i \in ev
    <2>1. c.i \in Servers /\ me.state \in Waiting /\ me.state # "INITIAL" BY <1>5, <1>6, Zenon DEF me, Waiting
    <2>2. Exec(c.i, "events", me) /\ ev' = ev \ {c.i} BY <1>6, Zenon DEF Events
    <2>3. c' = [c EXCEPT !.i = c.i, !.ctx = "events", !.pc = "sm"] BY <2>1, <2>2, Zenon DEF Exec
    <2>4. "sm" \in PCs BY Zenon DEF PCs
    <2>5. /\ c'.pc = "sm" /\ c'.ctx = "events" /\ c'.i = c.i /\ c'.mc = c.mc /\ c'.j = c.j
          /\ c'.dc = c.dc /\ c'.rv = c.rv /\ c' \in Control
      BY <1>2, <2>3, <2>4, Zenon DEF Control
    <2>6. Types' BY <1>1, <1>5, <2>2, <2>5, Zenon DEF Inv, Types
    <2>7. Batches' BY <1>3, <1>4, <1>6, <2>5, Zenon DEF Batches, In, InExec, Looping
    <2>8. Front' = c.mc BY <2>5, Zenon DEF Front, In, InExec
    <2>9. Started' BY <1>1, <1>3, <2>5, <2>8, Zenon DEF Started, InExec
    <2>10. \A k \in ev' : k \in ev /\ k > c.i BY <1>2, <1>5, <2>2
    <2>11. Reported' BY <1>1, <1>5, <2>5, <2>10, Zenon DEF Reported
    <2>12. Answers' /\ Best' BY <1>1, <1>3, <2>5, AnswersStay, Zenon
    <2>13. Patience' BY <2>5, Zenon DEF Patience, InExec
    <2>14. Resources' /\ Verdicts' BY <1>1, <2>5, Untouched, Zenon
    <2>15. InHand' BY <1>1, <1>2, <2>1, <2>5 DEF InHand, me, Open
    <2>16. QED BY <1>1, <1>3, <2>6, <2>7, <2>9, <2>11, <2>12, <2>13, <2>14, <2>15, Zenon DEF Inv, Loops
  <1>7. CASE c.i < c.mc /\ c.i \notin ev
    <2> DEFINE d == IF me.state = "DONE" /\ c.i = c.dc THEN c.dc + 1 ELSE c.dc
    <2>1. c' = [c EXCEPT !.i = c.i + 1, !.dc = d] /\ ev' = ev BY <1>7, Zenon DEF Events
    <2>2. c.i + 1 \in 0 .. NQ /\ d \in 0 .. NQ BY <1>2, <1>7
    <2>3. d <= c.i + 1 /\ d <= c.mc BY <1>2, <1>3, <1>4, <1>7
    <2>4. \A k \in Servers : k < d => qs[k].state = "DONE" BY <1>2, <1>3 DEF me
    <2> HIDE DEF d
    <2>5. /\ c'.pc = "events" /\ c'.i = c.i + 1 /\ c'.mc = c.mc /\ c'.j = c.j
          /\ c'.dc = d /\ c'.rv = c.rv /\ c' \in Control
      BY <1>1, <1>2, <2>1, <2>2, Zenon DEF Control
    <2>6. Types' BY <1>1, <2>1, <2>5, Zenon DEF Inv, Types
    <2>7. \A k \in ev : k >= c.i + 1 BY <1>2, <1>5, <1>7
    <2>8. Reported' BY <1>1, <1>5, <2>1, <2>5, <2>7, Zenon DEF Reported
    <2>9. Patience' BY <2>5, Zenon DEF Patience, InExec
    <2>10. c.i + 1 <= c.mc BY <1>2, <1>7
    <2>11. QED BY <1>1, <1>3, <2>3, <2>4, <2>5, <2>6, <2>8, <2>9, <2>10, LoopOn, Zenon DEF Loop
  <1>8. CASE c.i >= c.mc
    <2>1. ev = {} BY <1>2, <1>5, <1>8
    <2>2. ev' = ev /\ ((c.dc < c.mc /\ Goto("build")) \/ (~(c.dc < c.mc) /\ c' = NextBatch))
      BY <1>2, <1>8, <2>1 DEF Events
    <2>3. CASE c.dc < c.mc /\ Goto("build")
      <3>1. c' = [c EXCEPT !.pc = "build"] BY <2>3, Zenon DEF Goto
      <3>2. "build" \in PCs BY Zenon DEF PCs
      <3>3. /\ c'.pc = "build" /\ c'.mc = c.mc /\ c'.j = c.j /\ c'.dc = c.dc /\ c'.rv = c.rv /\ c' \in Control
        BY <1>2, <3>1, <3>2, Zenon DEF Control
      <3>4. Types' BY <1>1, <2>2, <3>3, Zenon DEF Inv, Types
      <3>5. Reported' BY <3>3, Zenon DEF Reported, In, InExec
      <3>6. Patience' BY <3>3, Zenon DEF Patience, InExec
      <3>7. QED BY <1>1, <1>3, <3>3, <3>4, <3>5, <3>6, LoopOn, Zenon DEF Loop
    <2>4. CASE ~(c.dc < c.mc) /\ c' = NextBatch
      <3>1. /\ c' \in Control /\ c'.pc = "batch" /\ c'.j = c.j + ParQueries /\ c'.mc = c.mc /\ c'.rv = c.rv
            /\ c'.dc = c.dc
        BY <2>4, NextBatchIs, Zenon
      <3>2. Types' BY <1>1, <2>2, <3>1, Zenon DEF Inv, Types
      <3>3. c.mc = NQ => ~\E k \in Servers : qs[k].state \in Waiting BY <1>2, <1>3, <2>4 DEF Waiting
      <3>4. QED BY <1>1, <1>3, <3>1, <3>2, <3>3, NextBatchKeeps, Zenon
    <2>5. QED BY <2>2, <2>3, <2>4, Zenon
  <1>9. QED BY <1>2, <1>6, <1>7, <1>8

(* A query that has timed out is as it was but for the verdict on its server. *)
LEMMA TimedOutIs ==
    ASSUME NEW x \in Query
    PROVE  /\ TimedOut(x) \in Query /\ TimedOut(x).state = x.state /\ TimedOut(x).qm = x.qm
           /\ TimedOut(x).io = x.io /\ TimedOut(x).sock = x.sock /\ TimedOut(x).msg = x.msg
           /\ TimedOut(x).buf = x.buf
           /\ x.needs = 0 => TimedOut(x).needs = 0
  BY DEF Query, TimedOut

LEMMA NowUdp ==
    ASSUME NEW x \in Query, x.sock = "live"
    PROVE  /\ switch_to_udp(Close(x)) \in Query /\ switch_to_udp(Close(x)).state = "UDPINITIAL"
           /\ switch_to_udp(Close(x)).sock = "none" /\ switch_to_udp(Close(x)).msg = x.msg
           /\ switch_to_udp(Close(x)).buf = x.buf /\ switch_to_udp(Close(x)).needs = x.needs
  <1> DEFINE y == [x EXCEPT !.sock = "none"]
             z == [y EXCEPT !.qm = "UDP_ONLY", !.state = "UDPINITIAL"]
  <1>1. switch_to_udp(Close(x)) = z BY Zenon DEF Query, switch_to_udp, Close
  <1>2. y \in Query /\ y.msg = x.msg /\ y.buf = x.buf /\ y.needs = x.needs /\ y.sock = "none" BY Zenon DEF Query
  <1>3. "UDP_ONLY" \in MethodSet /\ "UDPINITIAL" \in States BY Zenon DEF MethodSet, States, Initials
  <1> HIDE DEF y
  <1>4. /\ z \in Query /\ z.state = "UDPINITIAL" /\ z.sock = y.sock /\ z.msg = y.msg /\ z.buf = y.buf
        /\ z.needs = y.needs
    BY <1>2, <1>3, Zenon DEF Query
  <1>5. QED BY <1>1, <1>2, <1>4, Zenon

(* The verdicts, when the loop gives one query to x. *)
LEMMA GivenTo ==
    ASSUME Inv, c.pc \in {"timeout", "back", "auth", "uppoll"}, c.i \in Servers, NEW x \in Query,
           qs' = [qs EXCEPT ![c.i] = x], UNCHANGED <<marks, heard>>, c'.pc \notin {"reply", "auth", "back"},
           me.needs = 0 => x.needs = 0, x.state = me.state \/ <<c.i, "down">> \notin marks, Holds(x)
    PROVE  Resources' /\ Verdicts'
  <1>1. Resources /\ Verdicts /\ qs \in [Servers -> Query] BY Zenon DEF Inv, Types
  <1>2. qs'[c.i] = x /\ \A k \in Servers : k # c.i => qs'[k] = qs[k] BY <1>1, Zenon
  <1>3. Resources'
    <2>1. \A k \in Servers : Holds(qs[k]) BY <1>1, Zenon DEF Resources
    <2>2. \A k \in Servers : Holds(qs'[k]) BY <1>2, <2>1, Zenon
    <2>3. QED BY <2>2, Zenon DEF Resources
  <1>4. Verdicts'
    <2> SUFFICES ASSUME NEW k \in Servers
                 PROVE  /\ k \in heard \union (Servers \ Tested) =>
                             qs'[k].needs = 0 /\ <<k, "down">> \notin marks /\ <<k, "silent">> \notin marks
                        /\ <<k, "down">> \in marks => qs'[k].needs = 0 /\ qs'[k].state = "DONE"
                        /\ <<k, "silent">> \notin marks
      BY Zenon DEF Verdicts
    <2>1. /\ k \in heard \union (Servers \ Tested) =>
                qs[k].needs = 0 /\ <<k, "down">> \notin marks /\ <<k, "silent">> \notin marks
          /\ <<k, "down">> \in marks => qs[k].needs = 0 /\ qs[k].state = "DONE"
          /\ <<k, "silent">> \in marks => c.pc \in {"finish", "returned"} /\ qs[k].needs = 2
      BY <1>1, Zenon DEF Verdicts
    <2>2. <<k, "silent">> \notin marks BY <2>1, Zenon
    <2>3. CASE k = c.i
      <3>1. qs[k] = me BY <2>3, Zenon DEF me
      <3>2. QED BY <1>2, <2>1, <2>2, <2>3, <3>1, Zenon
    <2>4. CASE k # c.i BY <1>2, <2>1, <2>2, <2>4, Zenon
    <2>5. QED BY <2>3, <2>4, Zenon
  <1>5. QED BY <1>3, <1>4, Zenon

LEMMA TimeoutsKeeps == ASSUME Inv, Timeouts PROVE Inv'
  <1>1. c.pc = "timeout" /\ UNCHANGED <<mode, ts, until, clock, ent, serv, save, marks, best, heard>>
    BY Zenon DEF Timeouts, loopVars
  <1>2. /\ NQ \in Nat \ {0} /\ Servers = 0 .. NQ - 1 /\ c \in Control /\ qs \in [Servers -> Query]
        /\ c.i \in 0 .. NQ /\ c.j \in Nat /\ c.dc \in 0 .. NQ /\ c.mc \in 0 .. NQ
        /\ ts \in Nat /\ clock \in Nat /\ Timeout \in Nat /\ GlobalTimeout \in Nat
    BY Nats, Zenon
  <1>3. /\ mode = "resolve" /\ Batches /\ Patience /\ c.j < NQ /\ c.dc <= c.mc /\ Front = c.mc
        /\ c.mc = (IF c.j + ParQueries > NQ THEN NQ ELSE c.j + ParQueries)
        /\ \A k \in Servers : k < c.dc => qs[k].state = "DONE"
        /\ \A k \in Servers : IF k < c.mc THEN qs[k].state \in Waiting \union {"DONE"}
                                          ELSE qs[k].state = "INITIAL"
    BY <1>1, LoopFacts, Zenon DEF Loop
  <1>4. c.j <= c.i /\ c.i <= c.mc BY <1>1, <1>3, Zenon DEF Batches, In
  <1>5. /\ \/ c.mc < NQ \/ ev # {} \/ clock >= GlobalTimeout
           \/ \E k \in c.i .. c.mc - 1 : tentative_tcp_query(qs[k])
        /\ (\E k \in c.j .. c.mc - 1 : qs[k].state \in Waiting) => clock >= ts + Timeout
    BY <1>1, <1>3, Zenon DEF Patience
  <1>6. ev \subseteq Servers BY Zenon DEF Inv, Types
  <1> DEFINE x == TimedOut(me)
             u == switch_to_udp(Close(x))
  <1>7. ASSUME c.i < c.mc
        PROVE  /\ c.i \in Servers /\ me \in Query /\ Holds(me)
               /\ x \in Query /\ x.state = me.state /\ x.qm = me.qm /\ x.io = me.io /\ x.sock = me.sock
               /\ x.msg = me.msg /\ x.buf = me.buf /\ (me.needs = 0 => x.needs = 0)
    <2>1. c.i \in Servers BY <1>2, <1>7
    <2>2. me \in Query BY <1>2, <2>1, Zenon DEF me
    <2>3. Holds(me) BY <1>1, <2>1, Zenon DEF Inv, Resources, me
    <2>4. QED BY <2>1, <2>2, <2>3, TimedOutIs, Zenon
  <1>8. CASE c.i < c.mc /\ tentative_tcp_query(me)
    <2>1. me.state \in Waiting BY <1>8, Zenon DEF tentative_tcp_query, Waiting
    <2>2. me.sock = "live" /\ me.msg = "live" /\ me.buf # "dangling" BY <1>7, <1>8, <2>1, Zenon DEF Holds, Open
    <2>3. qs' = [qs EXCEPT ![c.i] = u] /\ ev' = ev \union {c.i} /\ Exec(c.i, "tmo", u)
      BY <1>8, Zenon DEF Timeouts, Only
    <2> HIDE DEF x
    <2>4. /\ u \in Query /\ u.state = "UDPINITIAL" /\ u.sock = "none" /\ u.msg = "live" /\ u.buf # "dangling"
          /\ u.needs = x.needs
      BY <1>7, <1>8, <2>2, NowUdp
    <2> HIDE DEF u
    <2>5. c' = [c EXCEPT !.i = c.i, !.ctx = "tmo", !.pc = "sm"] BY <2>3, <2>4, Zenon DEF Exec
    <2>6. "sm" \in PCs BY Zenon DEF PCs
    <2>7. /\ c'.pc = "sm" /\ c'.ctx = "tmo" /\ c'.i = c.i /\ c'.mc = c.mc /\ c'.j = c.j
          /\ c'.dc = c.dc /\ c'.rv = c.rv /\ c' \in Control
      BY <1>2, <2>5, <2>6, Zenon DEF Control
    <2>8. c.i \in Servers /\ qs'[c.i] = u /\ (\A k \in Servers : k # c.i => qs'[k] = qs[k]) /\ qs' \in [Servers -> Query]
      BY <1>2, <1>7, <1>8, <2>3, <2>4, Zenon
    <2>9. ~(c.i < c.dc) BY <1>3, <2>1, <2>8, Zenon DEF me, Waiting
    <2>10. Types' BY <1>1, <1>6, <2>3, <2>7, <2>8, Zenon DEF Inv, Types
    <2>11. Batches' BY <1>2, <1>3, <1>4, <1>8, <2>7, <2>9 DEF Batches, In, InExec, Looping
    <2>12. Front' = c.mc BY <2>7, Zenon DEF Front, In, InExec
    <2>13. Started'
      <3>1. \A k \in Servers : k = c.i \/ IF k < c.mc THEN qs'[k].state \in Waiting \union {"DONE"}
                                                     ELSE qs'[k].state = "INITIAL"
        BY <1>3, <2>8, Zenon
      <3>2. \A k \in Servers : k < c.dc => qs'[k].state = "DONE" BY <1>3, <2>8, <2>9
      <3>3. QED BY <2>7, <2>12, <3>1, <3>2, Zenon DEF Started, InExec
    <2>14. Reported' BY <2>7, Zenon DEF Reported, In
    <2>15. Answers' /\ Best' BY <1>1, <1>3, <2>7, AnswersStay, Zenon
    <2>16. Patience'
      <3>1. c.i \in c.j .. c.mc - 1 /\ qs[c.i].state \in Waiting BY <1>2, <1>4, <1>8, <2>1 DEF me
      <3>2. clock' >= ts' + Timeout BY <1>1, <1>5, <3>1, Zenon
      <3>3. QED BY <2>3, <2>7, <3>2, Zenon DEF Patience
    <2>17. Holds(u) BY <2>4, Zenon DEF Holds, Open, Waiting, Initials
    <2>18. <<c.i, "down">> \notin marks
      <3>1. Verdicts BY Zenon DEF Inv
      <3>2. <<c.i, "down">> \in marks => qs[c.i].state = "DONE" BY <2>8, <3>1, Zenon DEF Verdicts
      <3>3. QED BY <2>1, <3>2, Zenon DEF me, Waiting
    <2>19. Resources' /\ Verdicts'
      <3>1. me.needs = 0 => u.needs = 0 BY <1>7, <1>8, <2>4, Zenon
      <3>2. UNCHANGED <<marks, heard>> BY <1>1, Zenon
      <3>3. c'.pc \notin {"reply", "auth", "back"} BY <2>7, Zenon
      <3>4. c.pc \in {"timeout", "back", "auth", "uppoll"} /\ qs' = [qs EXCEPT ![c.i] = u] /\ u \in Query BY <1>1, <2>3, <2>4, Zenon
      <3>5. QED BY <2>8, <2>17, <2>18, <3>1, <3>2, <3>3, <3>4, GivenTo, Zenon
    <2>20. InHand'
      <3>1. me' = u BY <2>7, <2>8, Zenon DEF me
      <3>2. QED BY <1>2, <2>4, <2>7, <2>8, <3>1 DEF InHand, Open, Initials
    <2>21. QED BY <1>1, <1>3, <2>10, <2>11, <2>13, <2>14, <2>15, <2>16, <2>19, <2>20, Zenon DEF Inv, Loops
  <1>9. CASE c.i < c.mc /\ ~tentative_tcp_query(me)
    <2>1. qs' = [qs EXCEPT ![c.i] = x] /\ ev' = ev /\ c' = [c EXCEPT !.i = c.i + 1]
      BY <1>9, Zenon DEF Timeouts, Only
    <2> HIDE DEF x
    <2>2. c.i + 1 \in 0 .. NQ /\ c.i + 1 <= c.mc BY <1>2, <1>9
    <2>3. /\ c'.pc = "timeout" /\ c'.i = c.i + 1 /\ c'.mc = c.mc /\ c'.j = c.j
          /\ c'.dc = c.dc /\ c'.rv = c.rv /\ c' \in Control
      BY <1>1, <1>2, <2>1, <2>2, Zenon DEF Control
    <2>4. c.i \in Servers /\ qs'[c.i] = x /\ (\A k \in Servers : k # c.i => qs'[k] = qs[k]) /\ qs' \in [Servers -> Query]
      BY <1>2, <1>7, <1>9, <2>1, Zenon
    <2>5. \A k \in Servers : qs'[k].state = qs[k].state /\ qs'[k].qm = qs[k].qm /\ qs'[k].io = qs[k].io
      BY <1>7, <1>9, <2>4, Zenon DEF me
    <2>6. Types' BY <1>1, <2>1, <2>3, <2>4, Zenon DEF Inv, Types
    <2>7. Batches' BY <1>2, <1>3, <1>4, <2>2, <2>3 DEF Batches, In, InExec, Looping
    <2>8. Front' = c.mc BY <2>3, Zenon DEF Front, In, InExec
    <2>9. Started'
      <3>1. \A k \in Servers : IF k < c.mc THEN qs'[k].state \in Waiting \union {"DONE"}
                                           ELSE qs'[k].state = "INITIAL"
        BY <1>3, <2>5, Zenon
      <3>2. \A k \in Servers : k < c.dc => qs'[k].state = "DONE" BY <1>3, <2>5, Zenon
      <3>3. QED BY <2>3, <2>8, <3>1, <3>2, Zenon DEF Started, InExec
    <2>10. Reported' BY <2>3, Zenon DEF Reported, In, InExec
    <2>11. Answers' /\ Best' BY <1>1, <1>3, <2>3, AnswersStay, Zenon
    <2>12. Patience'
      <3>1. (\E k \in c'.j .. c'.mc - 1 : qs'[k].state \in Waiting) => clock' >= ts' + Timeout
        BY <1>1, <1>2, <1>5, <2>3, <2>5
      <3>2. ASSUME NEW k \in c.i .. c.mc - 1, tentative_tcp_query(qs[k])
            PROVE  k \in c'.i .. c'.mc - 1 /\ tentative_tcp_query(qs'[k])
        <4>1. k # c.i BY <1>9, <3>2, Zenon DEF me
        <4>2. k \in Servers BY <1>2
        <4>3. qs'[k] = qs[k] BY <2>4, <4>1, <4>2, Zenon
        <4>4. QED BY <1>2, <2>3, <3>2, <4>1, <4>3
      <3>3. \/ c'.mc < NQ \/ ev' # {} \/ clock' >= GlobalTimeout
            \/ \E k \in c'.i .. c'.mc - 1 : tentative_tcp_query(qs'[k])
        BY <1>1, <1>5, <2>1, <2>3, <3>2, Zenon
      <3>4. c'.pc \notin {"poll", "batch", "cancel"} \union InExec BY <2>3, Zenon DEF InExec
      <3>5. QED BY <3>1, <3>3, <3>4, Zenon DEF Patience
    <2>13. Holds(x) BY <1>7, <1>9, Zenon DEF Holds
    <2>14. Resources' /\ Verdicts'
      <3>1. x \in Query /\ x.state = me.state /\ (me.needs = 0 => x.needs = 0) BY <1>7, <1>9, Zenon
      <3>2. UNCHANGED <<marks, heard>> BY <1>1, Zenon
      <3>3. c'.pc \notin {"reply", "auth", "back"} BY <2>3, Zenon
      <3>4. c.pc \in {"timeout", "back", "auth", "uppoll"} /\ qs' = [qs EXCEPT ![c.i] = x] BY <1>1, <2>1, Zenon
      <3>5. QED BY <2>4, <2>13, <3>1, <3>2, <3>3, <3>4, GivenTo, Zenon
    <2>15. InHand' BY <2>3, Zenon DEF InHand, InExec
    <2>16. QED BY <1>1, <1>3, <2>6, <2>7, <2>9, <2>10, <2>11, <2>12, <2>14, <2>15, Zenon DEF Inv, Loops
  <1>10. CASE ~(c.i < c.mc)
    <2>1. c.i = c.mc BY <1>2, <1>4, <1>10
    <2>2. ev' = {} /\ qs' = qs /\ IF MayContinue /\ c.dc < c.mc THEN Goto("build") ELSE c' = NextBatch
      BY <1>10, Zenon DEF Timeouts
    <2>3. CASE MayContinue /\ c.dc < c.mc
      <3>1. c' = [c EXCEPT !.pc = "build"] BY <2>2, <2>3, Zenon DEF Goto
      <3>2. "build" \in PCs BY Zenon DEF PCs
      <3>3. /\ c'.pc = "build" /\ c'.mc = c.mc /\ c'.j = c.j /\ c'.dc = c.dc /\ c'.rv = c.rv /\ c' \in Control
        BY <1>2, <3>1, <3>2, Zenon DEF Control
      <3>4. Types' BY <1>1, <2>2, <3>3, Zenon DEF Inv, Types
      <3>5. Reported' BY <3>3, Zenon DEF Reported, In, InExec
      <3>6. Patience' BY <3>3, Zenon DEF Patience, InExec
      <3>7. QED BY <1>1, <1>3, <2>2, <3>3, <3>4, <3>5, <3>6, LoopOn, Zenon DEF Loop
    <2>4. CASE ~(MayContinue /\ c.dc < c.mc)
      <3>1. /\ c' \in Control /\ c'.pc = "batch" /\ c'.j = c.j + ParQueries /\ c'.mc = c.mc /\ c'.rv = c.rv
            /\ c'.dc = c.dc
        BY <2>2, <2>4, NextBatchIs, Zenon
      <3>2. Types' BY <1>1, <2>2, <3>1, Zenon DEF Inv, Types
      <3>3. ~\E k \in c.i .. c.mc - 1 : tentative_tcp_query(qs[k]) BY <1>2, <2>1
      <3>4. ASSUME c.mc = NQ, NEW k \in Servers, qs[k].state \in Waiting PROVE clock >= GlobalTimeout
        <4>1. ~(k < c.dc) BY <1>3, <3>4, Zenon DEF Waiting
        <4>2. c.dc < c.mc BY <1>2, <3>4, <4>1
        <4>3. QED BY <1>2, <1>5, <2>4, <3>3, <3>4, <4>2 DEF MayContinue
      <3>5. ASSUME c.mc = NQ, NEW k \in Servers, k >= c.j, qs[k].state \in Waiting PROVE clock >= ts' + Timeout
        BY <1>1, <1>2, <1>5, <3>5
      <3>6. QED BY <1>1, <1>3, <2>2, <3>1, <3>2, <3>4, <3>5, NextBatchKeeps, Zenon
    <2>5. QED BY <2>3, <2>4, Zenon
  <1>11. QED BY <1>8, <1>9, <1>10, Zenon

(* What is known of the loops when p_exec_query has returned. *)
LEMMA ExecFacts ==
    ASSUME Inv, mode = "resolve", c.pc \in {"back", "auth"}
    PROVE  /\ c.i \in Servers /\ me \in Query /\ Holds(me)
           /\ c.j < NQ /\ c.mc = (IF c.j + ParQueries > NQ THEN NQ ELSE c.j + ParQueries)
           /\ c.dc <= c.i /\ c.i < c.mc /\ c.ctx \in {"init", "events", "tmo"}
           /\ c.ctx \in {"init", "tmo"} => c.j <= c.i
           /\ Front = (IF c.ctx = "init" THEN c.i ELSE c.mc)
           /\ \A k \in Servers : k = c.i \/ IF k < Front THEN qs[k].state \in Waiting \union {"DONE"}
                                                        ELSE qs[k].state = "INITIAL"
           /\ \A k \in Servers : k < c.dc => qs[k].state = "DONE" /\ k # c.i
           /\ c.ctx = "events" => \A k \in ev : qs[k].state \in Waiting /\ k < c.mc /\ k > c.i
           /\ c.ctx = "tmo" => ev # {} /\ clock >= ts + Timeout
  <1>1. Batches /\ Started /\ Reported /\ Patience BY Zenon DEF Inv, Loops
  <1>2. c.pc \in InExec /\ c.pc \in Looping /\ c.pc \notin {"timeout", "events", "init"} BY Zenon DEF InExec, Looping
  <1>3. c.i \in Servers /\ me \in Query BY <1>2, InHandType, Zenon
  <1>4. NQ \in Nat /\ c.i \in 0 .. NQ /\ c.j \in Nat /\ c.dc \in 0 .. NQ /\ Servers = 0 .. NQ - 1 BY Nats, Zenon
  <1>5. Holds(me) BY <1>3, Zenon DEF Inv, Resources, me
  <1>6. /\ c.j < NQ /\ c.mc = (IF c.j + ParQueries > NQ THEN NQ ELSE c.j + ParQueries)
        /\ c.dc <= c.i /\ c.i < c.mc /\ c.ctx \in {"init", "events", "tmo"}
        /\ c.ctx \in {"init", "tmo"} => c.j <= c.i
    BY <1>1, <1>2, Zenon DEF Batches, In
  <1>7. Front = (IF c.ctx = "init" THEN c.i ELSE c.mc) BY <1>2, <1>4, <1>6 DEF Front, In
  <1>8. \A k \in Servers : k = c.i \/ IF k < Front THEN qs[k].state \in Waiting \union {"DONE"}
                                                   ELSE qs[k].state = "INITIAL"
    BY <1>1, <1>2, Zenon DEF Started
  <1>9. \A k \in Servers : k < c.dc => qs[k].state = "DONE" /\ k # c.i
    BY <1>1, <1>4, <1>6 DEF Started
  <1>10. c.ctx = "events" => \A k \in ev : qs[k].state \in Waiting /\ k < c.mc /\ k > c.i
    BY <1>1, <1>2, Zenon DEF Reported, In
  <1>11. c.ctx = "tmo" => ev # {} /\ clock >= ts + Timeout BY <1>1, <1>2, Zenon DEF Patience
  <1>12. QED BY <1>3, <1>5, <1>6, <1>7, <1>8, <1>9, <1>10, <1>11, Zenon

LEMMA PassedKeeps ==
    ASSUME Inv, mode = "resolve", c.pc \in {"back", "auth"}, NEW x \in Query, Holds(x), x.state = me.state,
           me.state \in Waiting \union {"DONE"}, x.needs = me.needs, Passed(me), qs' = [qs EXCEPT ![c.i] = x],
           UNCHANGED <<mode, ev, ts, until, marks, heard>>, clock' \in Nat, clock' >= clock, ent' = "none",
           c.rv \notin Ended, c.rv = "OK" => save'.has, save' \in Saved, serv' \in BOOLEAN, best' \in Nat,
           best' <= GOODQUAL, best' = (IF save'.has THEN save'.qual ELSE 0)
    PROVE  Inv'
  <1>1. /\ NQ \in Nat \ {0} /\ Servers = 0 .. NQ - 1 /\ c \in Control /\ qs \in [Servers -> Query]
        /\ c.i \in 0 .. NQ /\ c.j \in Nat /\ c.dc \in 0 .. NQ /\ c.mc \in 0 .. NQ
        /\ ts \in Nat /\ clock \in Nat /\ Timeout \in Nat
    BY Nats, Zenon
  <1>2. /\ c.i \in Servers /\ c.j < NQ
        /\ c.mc = (IF c.j + ParQueries > NQ THEN NQ ELSE c.j + ParQueries)
        /\ c.dc <= c.i /\ c.i < c.mc /\ c.ctx \in {"init", "events", "tmo"}
        /\ c.ctx \in {"init", "tmo"} => c.j <= c.i
        /\ Front = (IF c.ctx = "init" THEN c.i ELSE c.mc)
    BY ExecFacts, Zenon
  <1>3. /\ \A k \in Servers : k = c.i \/ IF k < Front THEN qs[k].state \in Waiting \union {"DONE"}
                                                    ELSE qs[k].state = "INITIAL"
        /\ \A k \in Servers : k < c.dc => qs[k].state = "DONE" /\ k # c.i
        /\ c.ctx = "events" => \A k \in ev : qs[k].state \in Waiting /\ k < c.mc /\ k > c.i
        /\ c.ctx = "tmo" => ev # {} /\ clock >= ts + Timeout
    BY ExecFacts, Zenon
  <1>4. ev \subseteq Servers BY Zenon DEF Inv, Types
  <1> DEFINE d == IF c.ctx # "tmo" /\ me.state = "DONE" /\ c.i = c.dc THEN c.dc + 1 ELSE c.dc
             p == IF c.ctx = "tmo" THEN "timeout" ELSE c.ctx
  <1>5. c' = [c EXCEPT !.pc = p, !.i = c.i + 1, !.ctx = "none", !.dc = d] BY Zenon DEF Passed
  <1>6. p \in {"init", "events", "timeout"} /\ (p = "init" <=> c.ctx = "init") /\ (p = "timeout" <=> c.ctx = "tmo")
        /\ p \in PCs
    BY <1>2, Zenon DEF PCs
  <1>7. c.i + 1 \in 0 .. NQ /\ d \in 0 .. NQ /\ d <= c.i + 1 /\ d <= c.mc /\ c.i + 1 <= c.mc BY <1>1, <1>2
  <1>8. d = c.dc \/ (d = c.dc + 1 /\ me.state = "DONE" /\ c.i = c.dc) BY Zenon
  <1> HIDE DEF d, p
  <1>9. /\ c'.pc = p /\ c'.i = c.i + 1 /\ c'.ctx = "none" /\ c'.dc = d /\ c'.j = c.j /\ c'.mc = c.mc
        /\ c'.rv = c.rv /\ c' \in Control
    BY <1>1, <1>5, <1>6, <1>7, Zenon DEF Control
  <1>10. qs'[c.i] = x /\ (\A k \in Servers : k # c.i => qs'[k] = qs[k]) /\ qs' \in [Servers -> Query]
    BY <1>1, <1>2, Zenon
  <1>11. Types' BY <1>9, <1>10, Zenon DEF Inv, Types
  <1>12. Batches' BY <1>1, <1>2, <1>6, <1>7, <1>9 DEF Batches, In, InExec, Looping
  <1>13. Front' = IF p = "init" THEN c.i + 1 ELSE c.mc BY <1>1, <1>2, <1>6, <1>9 DEF Front, In, InExec
  <1>14. Started'
    <2>1. \A k \in Servers : IF k < Front' THEN qs'[k].state \in Waiting \union {"DONE"}
                                           ELSE qs'[k].state = "INITIAL"
      <3> SUFFICES ASSUME NEW k \in Servers
                   PROVE  IF k < Front' THEN qs'[k].state \in Waiting \union {"DONE"}
                                        ELSE qs'[k].state = "INITIAL"
        BY Zenon
      <3>1. CASE k = c.i BY <1>1, <1>2, <1>10, <1>13, <3>1
      <3>2. CASE k # c.i
        <4>1. k < Front' <=> k < Front BY <1>1, <1>2, <1>6, <1>13, <3>2
        <4>2. QED BY <1>3, <1>10, <3>2, <4>1, Zenon
      <3>3. QED BY <3>1, <3>2, Zenon
    <2>2. \A k \in Servers : k < d => qs'[k].state = "DONE"
      <3> SUFFICES ASSUME NEW k \in Servers, k < d PROVE qs'[k].state = "DONE" BY Zenon
      <3>1. CASE k < c.dc BY <1>3, <1>10, <3>1, Zenon
      <3>2. CASE ~(k < c.dc) BY <1>1, <1>8, <1>10, <3>2
      <3>3. QED BY <3>1, <3>2, Zenon
    <2>3. c'.pc \notin InExec \union {"done", "cancel", "finish", "returned"} BY <1>6, <1>9, Zenon DEF InExec
    <2> HIDE DEF Front
    <2>4. QED BY <1>9, <2>1, <2>2, <2>3, Zenon DEF Started
  <1>15. Reported'
    <2>1. CASE p # "events" BY <1>6, <1>9, <2>1, Zenon DEF Reported, In, InExec
    <2>2. CASE p = "events"
      <3>1. \A k \in ev : qs[k].state \in Waiting /\ k < c.mc /\ k > c.i BY <1>2, <1>3, <1>6, <2>2, Zenon
      <3>2. \A k \in ev : k >= c.i + 1 /\ qs'[k] = qs[k] BY <1>1, <1>4, <1>10, <3>1
      <3>3. QED BY <1>9, <2>2, <3>1, <3>2, Zenon DEF Reported
    <2>3. QED BY <2>1, <2>2, Zenon
  <1>16. Answers' /\ Best' BY <1>6, <1>9, Zenon DEF Answers, Best
  <1>17. Patience'
    <2>1. p = "timeout" => ev # {} /\ clock' >= ts' + Timeout BY <1>1, <1>3, <1>6
    <2>2. QED BY <1>6, <1>9, <2>1, Zenon DEF Patience, InExec
  <1>18. Resources' /\ Verdicts'
    <2>1. c.pc \in {"timeout", "back", "auth", "uppoll"} /\ c'.pc \notin {"reply", "auth", "back"} BY <1>6, <1>9, Zenon
    <2>2. UNCHANGED <<marks, heard>> /\ (me.needs = 0 => x.needs = 0) BY Zenon
    <2>3. QED BY <1>2, <2>1, <2>2, GivenTo, Zenon
  <1>19. InHand' BY <1>6, <1>9, Zenon DEF InHand, InExec
  <1>20. QED BY <1>11, <1>12, <1>14, <1>15, <1>16, <1>17, <1>18, <1>19, Zenon DEF Inv, Loops

LEMMA StopKeeps ==
    ASSUME Inv, mode = "resolve", c.pc \in {"back", "auth"}, me.state = "DONE", c' \in Control, c'.pc = "done",
           c'.mc = (IF c.ctx = "init" THEN c.i ELSE c.mc), c'.dc = c.dc, c'.j = c.j,
           UNCHANGED <<mode, qs, ev, ts, until, save, marks, heard>>, clock' \in Nat, serv' \in BOOLEAN,
           ent' \in {"none", "live", "dangling"}, best' \in Nat, c'.rv \notin Ended, ent' = "live" <=> c'.rv = "OK",
           c'.rv = "OK" => Quality(qs[c'.qse], 1) = best' /\ qs[c'.qse].state = "DONE"
    PROVE  Inv'
  <1>1. NQ \in Nat \ {0} /\ Servers = 0 .. NQ - 1 /\ c.i \in 0 .. NQ /\ c.dc \in 0 .. NQ /\ c.mc \in 0 .. NQ
    BY Nats, Zenon
  <1>2. /\ c.i \in Servers /\ c.j < NQ /\ c.dc <= c.i /\ c.i < c.mc
        /\ Front = (IF c.ctx = "init" THEN c.i ELSE c.mc)
        /\ \A k \in Servers : k = c.i \/ IF k < Front THEN qs[k].state \in Waiting \union {"DONE"}
                                                     ELSE qs[k].state = "INITIAL"
        /\ \A k \in Servers : k < c.dc => qs[k].state = "DONE"
    BY ExecFacts, Zenon
  <1>3. Types' BY Zenon DEF Inv, Types
  <1>4. Batches' BY <1>1, <1>2 DEF Batches, In, InExec, Looping
  <1>5. Started'
    <2>1. \A k \in Servers : qs[k].state \in (IF k < c'.mc THEN Waiting \union {"DONE"} ELSE {"INITIAL", "DONE"})
      <3> SUFFICES ASSUME NEW k \in Servers
                   PROVE qs[k].state \in (IF k < c'.mc THEN Waiting \union {"DONE"} ELSE {"INITIAL", "DONE"})
        BY Zenon
      <3>1. CASE k = c.i BY <3>1, Zenon DEF me
      <3>2. CASE k # c.i BY <1>2, <3>2, Zenon
      <3>3. QED BY <3>1, <3>2, Zenon
    <2>2. QED BY <1>2, <2>1, Zenon DEF Started, InExec, Looping
  <1>6. Reported' BY Zenon DEF Reported, In, InExec
  <1>7. Answers' BY Zenon DEF Answers
  <1>8. Best' BY Zenon DEF Best
  <1>9. Patience' BY Zenon DEF Patience, InExec
  <1>10. Resources' /\ Verdicts' BY Untouched, Zenon
  <1>11. InHand' BY Zenon DEF InHand, InExec
  <1>12. QED BY <1>3, <1>4, <1>5, <1>6, <1>7, <1>8, <1>9, <1>10, <1>11, Zenon DEF Inv, Loops

LEMMA BackKeeps == ASSUME Inv, Back PROVE Inv'
  <1>1. /\ c.pc = "back" /\ mode = "resolve"
        /\ UNCHANGED <<mode, qs, ev, ts, until, clock, ent, serv, save, marks, best, heard>>
    BY Zenon DEF Back, loopVars
  <1>2. /\ c \in Control /\ qs \in [Servers -> Query] /\ NQ \in Nat /\ c.i \in 0 .. NQ /\ c.mc \in 0 .. NQ
        /\ clock \in Nat /\ best \in Nat /\ save \in Saved
    BY Nats, Zenon
  <1>3. c.i \in Servers /\ me \in Query /\ Holds(me) BY <1>1, ExecFacts, Zenon
  <1>4. IF c.rv = "AGAIN" THEN me.state \in Waiting ELSE me.state = "DONE" BY <1>1, Zenon DEF Inv, InHand
  <1>5. /\ c.rv \notin Ended /\ ent = (IF c.rv = "OK" THEN "live" ELSE "none")
        /\ best <= GOODQUAL /\ best = (IF save.has THEN save.qual ELSE 0)
    BY <1>1, Zenon DEF Inv, Loops, Answers, Best
  <1>6. serv \in BOOLEAN BY Zenon DEF Inv, Types
  <1>7. CASE c.rv = "OK"
    <2>1. c' = [c EXCEPT !.pc = "auth"] BY <1>7, Zenon DEF Back, Goto
    <2>2. "auth" \in PCs BY Zenon DEF PCs
    <2>3. /\ c'.pc = "auth" /\ c'.ctx = c.ctx /\ c'.i = c.i /\ c'.mc = c.mc /\ c'.j = c.j
          /\ c'.dc = c.dc /\ c'.rv = c.rv /\ c' \in Control
      BY <1>2, <2>1, <2>2, Zenon DEF Control
    <2>4. Batches /\ Started /\ Reported /\ Patience BY <1>1, Zenon DEF Inv, Loops
    <2>5. Types' BY <1>1, <2>3, Zenon DEF Inv, Types
    <2>6. Batches' BY <1>1, <2>3, <2>4, Zenon DEF Batches, In, InExec, Looping
    <2>7. Front' = Front BY <1>1, <2>3, Zenon DEF Front, In, InExec
    <2>8. Started'
      <3> HIDE DEF Front
      <3>1. QED BY <1>1, <2>3, <2>4, <2>7, Zenon DEF Started, InExec, Looping
    <2>9. Reported' BY <1>1, <2>3, <2>4, Zenon DEF Reported, In, InExec
    <2>10. Answers' /\ Best' BY <1>1, <1>5, <1>7, <2>3, Zenon DEF Answers, Best
    <2>11. Patience' BY <1>1, <2>3, <2>4, Zenon DEF Patience, InExec
    <2>12. Resources' /\ Verdicts' BY <1>1, <1>7, <2>3, Untouched, Zenon
    <2>13. InHand'
      <3>1. me' = me BY <1>1, <2>3, Zenon DEF me
      <3>2. c.i < NQ BY <1>2, <1>3, ParametersAssumption DEF Servers
      <3>3. QED BY <1>4, <1>7, <2>3, <3>1, <3>2, Zenon DEF InHand, InExec
    <2>14. QED BY <1>1, <2>5, <2>6, <2>8, <2>9, <2>10, <2>11, <2>12, <2>13, Zenon DEF Inv, Loops
  <1>8. CASE c.rv \in {"NAMEERR", "FATALERR"}
    <2> DEFINE m == IF c.ctx = "init" THEN c.i ELSE c.mc
    <2>1. c' = [c EXCEPT !.pc = "done", !.ctx = "none", !.mc = m] BY <1>8, Zenon DEF Back
    <2>2. "done" \in PCs /\ m \in 0 .. NQ BY <1>2, Zenon DEF PCs
    <2> HIDE DEF m
    <2>3. c'.pc = "done" /\ c'.mc = m /\ c'.j = c.j /\ c'.dc = c.dc /\ c'.rv = c.rv /\ c' \in Control
      BY <1>2, <2>1, <2>2, Zenon DEF Control
    <2>4. me.state = "DONE" /\ ent = "none" /\ c.rv # "OK" BY <1>4, <1>5, <1>8, Zenon
    <2>5. QED BY <1>1, <1>2, <1>5, <1>6, <2>3, <2>4, StopKeeps, Zenon DEF m
  <1>9. CASE c.rv \notin {"OK", "NAMEERR", "FATALERR"}
    <2>1. Passed(me) BY <1>9, Zenon DEF Back
    <2>2. qs' = [qs EXCEPT ![c.i] = me] BY <1>1, <1>2, <1>3, Zenon DEF me
    <2>3. me.state \in Waiting \union {"DONE"} /\ ent = "none" BY <1>4, <1>5, <1>9, Zenon
    <2>4. clock' \in Nat /\ clock' >= clock BY <1>1, <1>2
    <2>5. /\ c.pc \in {"back", "auth"} /\ ent' = "none" /\ (c.rv = "OK" => save'.has) /\ save' \in Saved
          /\ serv' \in BOOLEAN /\ best' \in Nat /\ best' <= GOODQUAL
          /\ best' = (IF save'.has THEN save'.qual ELSE 0) /\ UNCHANGED <<mode, ev, ts, until, marks, heard>>
      BY <1>1, <1>2, <1>5, <1>6, <1>9, <2>3, Zenon
    <2>6. QED BY <1>1, <1>3, <1>5, <2>1, <2>2, <2>3, <2>4, <2>5, PassedKeeps, Zenon
  <1>10. QED BY <1>7, <1>8, <1>9, Zenon

(* An answer that is not satisfactory is worth at most GOODQUAL, a satisfactory one
   at least that. *)
LEMMA Qualities ==
    ASSUME NEW x \in Query
    PROVE  /\ Quality(x, 0) \in Nat /\ Quality(x, 0) <= GOODQUAL /\ Quality(x, 1) \in Nat
           /\ x.failed = 0 => Quality(x, 1) >= GOODQUAL
           /\ x.failed = 1 \/ (x.failed = 0 /\ x.tc) => Quality(x, 1) <= GOODQUAL
  <1>1. x.failed \in {0, 1, 3} /\ x.tc \in BOOLEAN BY Zenon DEF Query
  <1>2. CASE x.tc BY <1>1, <1>2 DEF Quality, GOODQUAL, W_AUTHOK, W_NOTFAILED, W_NOTTRUNC
  <1>3. CASE ~x.tc BY <1>1, <1>3 DEF Quality, GOODQUAL, W_AUTHOK, W_NOTFAILED, W_NOTTRUNC
  <1>4. QED BY <1>2, <1>3, Zenon

(* The better answer is kept, and it is the best so far. *)
LEMMA KeptIsBest ==
    ASSUME Inv, mode = "resolve", c.pc = "auth", NEW ok \in {0, 1}, NEW s \in BOOLEAN,
           save_query_result(me, ok, s), Quality(me, ok) <= GOODQUAL,
           best' = IF Quality(me, ok) > best THEN Quality(me, ok) ELSE best
    PROVE  /\ save' \in Saved /\ save'.has /\ best' = save'.qual /\ best' \in Nat /\ best' <= GOODQUAL
           /\ ent' = "none" /\ serv' \in BOOLEAN
  <1> DEFINE w == Quality(me, ok)
             r == [has |-> TRUE, qual |-> w, by |-> c.i, serv |-> s]
  <1>1. c.i \in Servers /\ me \in Query BY ExecFacts, Zenon
  <1>2. w \in Nat BY <1>1, Qualities, Zenon
  <1>3. save \in Saved /\ best \in Nat BY Nats, Zenon
  <1>4. best <= GOODQUAL /\ best = (IF save.has THEN save.qual ELSE 0) BY Zenon DEF Inv, Loops, Best
  <1>5. save' = (IF ~save.has \/ w > save.qual THEN r ELSE save) /\ ent' = "none" /\ serv' = FALSE
    BY Zenon DEF save_query_result
  <1> HIDE DEF w
  <1>6. r \in Saved /\ r.has /\ r.qual = w BY <1>1, <1>2, Zenon DEF Saved
  <1>7. save.qual \in Nat BY <1>3, Zenon DEF Saved
  <1> HIDE DEF r
  <1>8. best' = (IF w > best THEN w ELSE best) /\ w <= GOODQUAL BY Zenon DEF w
  <1>9. CASE ~save.has \/ w > save.qual
    <2>1. save' = r BY <1>5, <1>9, Zenon
    <2>2. best' = w BY <1>2, <1>3, <1>4, <1>7, <1>8, <1>9
    <2>3. save' \in Saved /\ save'.has /\ best' = save'.qual BY <1>6, <2>1, <2>2, Zenon
    <2>4. best' \in Nat /\ best' <= GOODQUAL BY <1>2, <1>8, <2>2, Zenon
    <2>5. QED BY <1>5, <2>3, <2>4, Zenon
  <1>10. CASE save.has /\ ~(w > save.qual)
    <2>1. save' = save BY <1>5, <1>10, Zenon
    <2>2. best' = best /\ best = save.qual BY <1>4, <1>8, <1>10, Zenon
    <2>3. save' \in Saved /\ save'.has /\ best' = save'.qual BY <1>3, <1>10, <2>1, <2>2, Zenon
    <2>4. best' \in Nat /\ best' <= GOODQUAL BY <1>3, <1>4, <2>2, Zenon
    <2>5. QED BY <1>5, <2>3, <2>4, Zenon
  <1>11. QED BY <1>9, <1>10, Zenon

(* A truncated answer is kept, and the server is asked again using TCP. *)
LEMMA RetryKeeps ==
    ASSUME Inv, mode = "resolve", c.pc = "auth", qs' = [qs EXCEPT ![c.i] = switch_to_tcp(me)], Goto("exec"),
           UNCHANGED <<mode, ev, ts, until, marks, heard>>, clock' \in Nat, clock' >= clock, ent' = "none",
           save' \in Saved, save'.has, serv' \in BOOLEAN, best' \in Nat, best' <= GOODQUAL, best' = save'.qual
    PROVE  Inv'
  <1> DEFINE x == switch_to_tcp(me)
  <1>1. /\ NQ \in Nat \ {0} /\ Servers = 0 .. NQ - 1 /\ c \in Control /\ qs \in [Servers -> Query]
        /\ ts \in Nat /\ clock \in Nat /\ Timeout \in Nat
    BY Nats, Zenon
  <1>2. c.i \in Servers /\ me \in Query /\ Holds(me) BY ExecFacts, Zenon
  <1>3. me.state = "DONE" /\ c.rv = "OK" BY Zenon DEF Inv, InHand
  <1>4. x \in Query /\ x.state = "INITIAL" /\ x.needs = me.needs /\ Holds(x)
    <2>1. "TCP_ONLY" \in MethodSet /\ "INITIAL" \in States BY Zenon DEF MethodSet, States
    <2>2. /\ x \in Query /\ x.state = "INITIAL" /\ x.needs = me.needs /\ x.sock = me.sock /\ x.msg = me.msg
          /\ x.buf = me.buf
      BY <1>2, <2>1, Zenon DEF Query, switch_to_tcp
    <2> HIDE DEF x
    <2>3. QED BY <1>2, <1>3, <2>2, Zenon DEF Holds, Open, Waiting, Initials
  <1> HIDE DEF x
  <1>5. "exec" \in PCs /\ c' = [c EXCEPT !.pc = "exec"] BY Zenon DEF PCs, Goto
  <1>6. /\ c'.pc = "exec" /\ c'.ctx = c.ctx /\ c'.i = c.i /\ c'.mc = c.mc /\ c'.j = c.j
        /\ c'.dc = c.dc /\ c'.rv = c.rv /\ c' \in Control
    BY <1>1, <1>5, Zenon DEF Control
  <1>7. qs' = [qs EXCEPT ![c.i] = x] BY Zenon DEF x
  <1>8. qs'[c.i] = x /\ (\A k \in Servers : k # c.i => qs'[k] = qs[k]) /\ qs' \in [Servers -> Query]
    BY <1>1, <1>2, <1>4, <1>7, Zenon
  <1>9. Batches /\ Started /\ Reported /\ Patience BY Zenon DEF Inv, Loops
  <1>10. Types' BY <1>6, <1>8, Zenon DEF Inv, Types
  <1>11. Batches' BY <1>6, <1>9, Zenon DEF Batches, In, InExec, Looping
  <1>12. Front' = Front BY <1>6, Zenon DEF Front, In, InExec
  <1>13. Started'
    <2>1. \A k \in Servers : k = c.i \/ IF k < Front THEN qs[k].state \in Waiting \union {"DONE"}
                                                   ELSE qs[k].state = "INITIAL"
      BY ExecFacts, Zenon
    <2>2. \A k \in Servers : k < c.dc => qs[k].state = "DONE" /\ k # c.i BY ExecFacts, Zenon
    <2>3. \A k \in Servers : k = c.i \/ IF k < Front THEN qs'[k].state \in Waiting \union {"DONE"}
                                                   ELSE qs'[k].state = "INITIAL"
      BY <1>8, <2>1, Zenon
    <2>4. \A k \in Servers : k < c.dc => qs'[k].state = "DONE" BY <1>8, <2>2, Zenon
    <2> HIDE DEF Front
    <2>5. QED BY <1>6, <1>12, <2>3, <2>4, Zenon DEF Started, InExec
  <1>14. Reported'
    <2>1. ev \subseteq Servers BY Zenon DEF Inv, Types
    <2>2. CASE c.ctx = "events"
      <3>1. \A k \in ev : qs[k].state \in Waiting /\ k < c.mc /\ k > c.i BY <2>2, ExecFacts, Zenon
      <3>2. \A k \in ev : qs'[k] = qs[k] BY <1>1, <1>2, <1>8, <2>1, <3>1
      <3>3. QED BY <1>6, <3>1, <3>2, Zenon DEF Reported
    <2>3. CASE c.ctx # "events" BY <1>6, <2>3, Zenon DEF Reported, In
    <2>4. QED BY <2>2, <2>3, Zenon
  <1>15. Answers' /\ Best' BY <1>3, <1>6, Zenon DEF Answers, Best, Ended
  <1>16. Patience'
    <2>1. c.ctx = "tmo" => ev # {} /\ clock >= ts + Timeout BY ExecFacts, Zenon
    <2>2. QED BY <1>1, <1>6, <2>1 DEF Patience
  <1>17. Resources' /\ Verdicts'
    <2>1. Verdicts BY Zenon DEF Inv
    <2>2. <<c.i, "down">> \in marks => c.pc \notin {"reply", "auth"} BY <1>2, <2>1, Zenon DEF Verdicts
    <2>3. c.pc \in {"timeout", "back", "auth", "uppoll"} /\ c'.pc \notin {"reply", "auth", "back"} BY <1>6, Zenon
    <2>4. UNCHANGED <<marks, heard>> /\ (me.needs = 0 => x.needs = 0) /\ <<c.i, "down">> \notin marks
      BY <1>4, <2>2, Zenon
    <2>5. QED BY <1>2, <1>4, <1>7, <2>3, <2>4, GivenTo, Zenon
  <1>18. InHand'
    <2>1. me' = x BY <1>6, <1>8, Zenon DEF me
    <2>2. QED BY <1>1, <1>2, <1>4, <1>6, <2>1 DEF InHand
  <1>19. QED BY <1>10, <1>11, <1>13, <1>14, <1>15, <1>16, <1>17, <1>18, Zenon DEF Inv, Loops

LEMMA JudgeKeeps == ASSUME Inv, Judge PROVE Inv'
  <1>1. c.pc = "auth" /\ UNCHANGED <<mode, ev, ts, until, marks, heard>> BY Zenon DEF Judge
  <1>2. mode = "resolve" BY <1>1, Resolving, Zenon
  <1>3. c.i \in Servers /\ me \in Query /\ Holds(me) BY <1>1, <1>2, ExecFacts, Zenon
  <1>4. me.state = "DONE" /\ c.rv = "OK" BY <1>1, Zenon DEF Inv, InHand
  <1>5. /\ c \in Control /\ NQ \in Nat /\ c.i \in 0 .. NQ /\ c.mc \in 0 .. NQ /\ clock \in Nat /\ best \in Nat
    BY Nats, Zenon
  <1>6. ent = "live" /\ best <= GOODQUAL /\ serv \in BOOLEAN
    BY <1>1, <1>2, Zenon DEF Inv, Types, Loops, Answers, Best
  <1> DEFINE m == IF c.ctx = "init" THEN c.i ELSE c.mc
  <1>7. ASSUME NEW rv \in AllCodes, Stop("done", rv)
        PROVE  /\ c' \in Control /\ c'.pc = "done" /\ c'.mc = m /\ c'.dc = c.dc /\ c'.j = c.j
               /\ c'.rv = rv /\ c'.qse = c.i
    <2>1. c' = [c EXCEPT !.pc = "done", !.rv = rv, !.qse = c.i, !.ctx = "none", !.mc = m] BY <1>7, Zenon DEF Stop
    <2>2. "done" \in PCs /\ m \in 0 .. NQ BY <1>5, Zenon DEF PCs
    <2> HIDE DEF m
    <2>3. QED BY <1>3, <1>5, <2>1, <2>2, Zenon DEF Control
  <1>8. {"OK", "FATALERR"} \subseteq AllCodes /\ "OK" \notin Ended /\ "FATALERR" \notin Ended
    BY Zenon DEF AllCodes, Codes, Resolved, Ended
  <1>9. PICK a \in auth_ok(me), d \in {0, 1} :
         /\ clock' = clock + d
         /\ best' = IF a.ok >= 0 /\ Quality(me, a.ok) > best THEN Quality(me, a.ok) ELSE best
         /\ \/ /\ a.ok = 1 /\ Satisfactory(me) /\ Stop("done", "OK") /\ serv' = a.serv
               /\ UNCHANGED <<qs, ent, save>>
            \/ /\ a.ok = -1 /\ Stop("done", "FATALERR") /\ ent' = Freed(ent)
               /\ UNCHANGED <<qs, serv, save>>
            \/ /\ ~(a.ok = 1 /\ Satisfactory(me)) /\ a.ok # -1
               /\ save_query_result(me, a.ok, a.serv)
               /\ \/ me.qm = "UDP_TCP" /\ me.tc /\ c.ctx # "tmo" /\ Only(switch_to_tcp(me)) /\ Goto("exec")
                  \/ Only(Over(me)) /\ Passed(me)
    BY Zenon DEF Judge
  <1>10. /\ a.ok \in {0, 1, -1} /\ a.serv \in BOOLEAN /\ (a.ok = 1 => me.failed \in {0, 1})
    <2>1. me.failed \in {0, 1, 3} BY <1>3, Zenon DEF Query
    <2>2. a \in auth_ok(me) BY Zenon
    <2>3. CASE me.failed > 1
      <3>1. a = [ok |-> 0, serv |-> FALSE] BY <2>2, <2>3, Zenon DEF auth_ok
      <3>2. QED BY <3>1
    <2>4. CASE ~(me.failed > 1)
      <3>1. a \in [ok : {0, -1}, serv : {FALSE}] \/ a \in [ok : {1}, serv : BOOLEAN] BY <2>2, <2>4, Zenon DEF auth_ok
      <3>2. a.serv \in BOOLEAN BY <3>1, Zenon
      <3>3. a.ok \in {0, -1} \/ a.ok \in {1} BY <3>1, Zenon
      <3>4. me.failed \in {0, 1} BY <2>1, <2>4
      <3>5. QED BY <3>2, <3>3, <3>4, Zenon
    <2>5. QED BY <2>3, <2>4, Zenon
  <1>11. clock' \in Nat /\ clock' >= clock BY <1>5, <1>9
  <1>12. CASE /\ a.ok = 1 /\ Satisfactory(me) /\ Stop("done", "OK") /\ serv' = a.serv
              /\ UNCHANGED <<qs, ent, save>>
    <2>1. Quality(me, 1) \in Nat /\ Quality(me, 1) >= GOODQUAL BY <1>3, <1>12, Qualities, Zenon DEF Satisfactory
    <2>2. best' = Quality(me, 1)
      <3>1. best' = IF Quality(me, 1) > best THEN Quality(me, 1) ELSE best BY <1>9, <1>12
      <3>2. QED BY <1>5, <1>6, <2>1, <3>1 DEF GOODQUAL, W_AUTHOK, W_NOTFAILED
    <2>3. /\ c' \in Control /\ c'.pc = "done" /\ c'.mc = m /\ c'.dc = c.dc /\ c'.j = c.j
          /\ c'.rv = "OK" /\ c'.qse = c.i
      BY <1>7, <1>8, <1>12, Zenon
    <2>4. qs[c'.qse] = me BY <2>3, Zenon DEF me
    <2>5. /\ serv' \in BOOLEAN /\ ent' = "live" /\ best' \in Nat
          /\ UNCHANGED <<mode, qs, ev, ts, until, save, marks, heard>>
      BY <1>1, <1>6, <1>10, <1>12, <2>1, <2>2, Zenon
    <2>6. Quality(qs[c'.qse], 1) = best' /\ qs[c'.qse].state = "DONE" BY <1>4, <2>2, <2>4, Zenon
    <2> HIDE DEF m
    <2>7. c.pc \in {"back", "auth"} /\ c'.rv \notin Ended /\ ent' \in {"none", "live", "dangling"}
      BY <1>1, <1>8, <2>3, <2>5, Zenon
    <2>8. ent' = "live" <=> c'.rv = "OK" BY <2>3, <2>5, Zenon
    <2>9. QED BY <1>2, <1>4, <1>11, <2>3, <2>5, <2>6, <2>7, <2>8, StopKeeps, Zenon DEF m
  <1>13. CASE /\ a.ok = -1 /\ Stop("done", "FATALERR") /\ ent' = Freed(ent)
              /\ UNCHANGED <<qs, serv, save>>
    <2>1. best' = best BY <1>9, <1>13
    <2>2. /\ c' \in Control /\ c'.pc = "done" /\ c'.mc = m /\ c'.dc = c.dc /\ c'.j = c.j
          /\ c'.rv = "FATALERR"
      BY <1>7, <1>8, <1>13, Zenon
    <2>3. /\ serv' \in BOOLEAN /\ ent' = "dangling" /\ best' \in Nat
          /\ UNCHANGED <<mode, qs, ev, ts, until, save, marks, heard>>
      BY <1>1, <1>5, <1>6, <1>13, <2>1, Zenon DEF Freed
    <2>4. /\ c.pc \in {"back", "auth"} /\ c'.rv \notin Ended /\ ent' \in {"none", "live", "dangling"}
          /\ c'.rv # "OK" /\ (ent' = "live" <=> c'.rv = "OK")
      BY <1>1, <1>8, <2>2, <2>3, Zenon
    <2> HIDE DEF m
    <2>5. QED BY <1>2, <1>4, <1>11, <2>2, <2>3, <2>4, StopKeeps, Zenon DEF m
  <1>14. CASE /\ ~(a.ok = 1 /\ Satisfactory(me)) /\ a.ok # -1
              /\ save_query_result(me, a.ok, a.serv)
              /\ \/ me.qm = "UDP_TCP" /\ me.tc /\ c.ctx # "tmo" /\ Only(switch_to_tcp(me)) /\ Goto("exec")
                 \/ Only(Over(me)) /\ Passed(me)
    <2>1. a.ok \in {0, 1} BY <1>10, <1>14, Zenon
    <2>2. Quality(me, a.ok) <= GOODQUAL
      <3>1. CASE a.ok = 0 BY <1>3, <3>1, Qualities, Zenon
      <3>2. CASE a.ok = 1
        <4>1. me.failed = 1 \/ (me.failed = 0 /\ me.tc) BY <1>10, <1>14, <3>2, Zenon DEF Satisfactory
        <4>2. QED BY <1>3, <3>2, <4>1, Qualities, Zenon
      <3>3. QED BY <2>1, <3>1, <3>2, Zenon
    <2>3. best' = IF Quality(me, a.ok) > best THEN Quality(me, a.ok) ELSE best BY <1>9, <2>1
    <2>4. /\ save' \in Saved /\ save'.has /\ best' = save'.qual /\ best' \in Nat /\ best' <= GOODQUAL
          /\ ent' = "none" /\ serv' \in BOOLEAN
      BY <1>1, <1>2, <1>10, <1>14, <2>1, <2>2, <2>3, KeptIsBest, Zenon
    <2>5. CASE Only(switch_to_tcp(me)) /\ Goto("exec")
      BY <1>1, <1>2, <1>11, <2>4, <2>5, RetryKeeps, Zenon DEF Only
    <2>6. CASE Only(Over(me)) /\ Passed(me)
      <3>1. /\ Over(me) \in Query /\ Over(me).state = "DONE" /\ Over(me).needs = me.needs
            /\ Over(me).sock = me.sock /\ Over(me).msg = me.msg /\ Over(me).buf = me.buf
        BY <1>3, <1>5, OverIs, Zenon
      <3>2. Holds(Over(me)) BY <1>3, <1>4, <3>1, Zenon DEF Holds
      <3>3. c.pc \in {"back", "auth"} /\ me.state \in Waiting \union {"DONE"} /\ c.rv \notin Ended
        BY <1>1, <1>4, <1>8, Zenon
      <3>4. qs' = [qs EXCEPT ![c.i] = Over(me)] BY <2>6, Zenon DEF Only
      <3>5. Over(me).state = me.state BY <1>4, <3>1, Zenon
      <3>6. best' = (IF save'.has THEN save'.qual ELSE 0) BY <2>4, Zenon
      <3>7. QED BY <1>1, <1>2, <1>11, <2>4, <2>6, <3>1, <3>2, <3>3, <3>4, <3>5, <3>6, PassedKeeps, Zenon
    <2>7. QED BY <1>14, <2>5, <2>6, Zenon
  <1>15. QED BY <1>9, <1>12, <1>13, <1>14, Zenon

LEMMA NoSaveIs == NoSave \in Saved /\ ~NoSave.has
  <1>1. 0 \in Servers BY ParametersAssumption DEF Servers
  <1>2. QED BY <1>1, Zenon DEF NoSave, Saved

LEMMA DoneKeeps == ASSUME Inv, Done PROVE Inv'
  <1>1. /\ c.pc = "done" /\ save' = NoSave /\ c' = [c EXCEPT !.pc = "cancel"]
        /\ UNCHANGED <<mode, qs, ev, ts, until, clock, ent, serv, marks, best, heard>>
    BY Zenon DEF Done, Goto
  <1>2. mode = "resolve" /\ Batches /\ Started /\ Answers /\ Best BY <1>1, Resolving, Zenon
  <1>3. c \in Control /\ NQ \in Nat /\ c.j \in Nat BY Nats, Zenon
  <1>4. "cancel" \in PCs BY Zenon DEF PCs
  <1>5. /\ c'.pc = "cancel" /\ c'.mc = c.mc /\ c'.j = c.j /\ c'.dc = c.dc /\ c'.rv = c.rv /\ c'.qse = c.qse
        /\ c' \in Control
    BY <1>1, <1>3, <1>4, Zenon DEF Control
  <1>6. save' \in Saved /\ ~save'.has BY <1>1, NoSaveIs, Zenon
  <1>7. Types' BY <1>1, <1>5, <1>6, Zenon DEF Inv, Types
  <1>8. Batches' BY <1>1, <1>2, <1>5, Zenon DEF Batches, In, InExec, Looping
  <1>9. Started' BY <1>1, <1>2, <1>5, Zenon DEF Started, InExec, Looping
  <1>10. Reported' BY <1>5, Zenon DEF Reported, In, InExec
  <1>11. Answers' BY <1>1, <1>2, <1>5, <1>6, Zenon DEF Answers
  <1>12. Best' BY <1>1, <1>2, <1>5, <1>6, Zenon DEF Best
  <1>13. Patience'
    <2>1. c.j < NQ BY <1>1, <1>2, Zenon DEF Batches
    <2>2. QED BY <1>3, <1>5, <2>1 DEF Patience, InExec
  <1>14. QED BY <1>1, <1>2, <1>5, <1>7, <1>8, <1>9, <1>10, <1>11, <1>12, <1>13, LoopStep, Zenon DEF Loops, InExec

LEMMA CanceledIs ==
    ASSUME NEW x \in Query, Holds(x)
    PROVE  /\ p_cancel_query(x) \in Query /\ p_cancel_query(x).needs = x.needs /\ Holds(p_cancel_query(x))
           /\ p_cancel_query(x).state \notin Open
           /\ x.state \notin Open => p_cancel_query(x) = x
  <1>1. CASE x.state \notin Open BY <1>1, Zenon DEF p_cancel_query, Open
  <1>2. CASE x.state \in Open
    <2> DEFINE y == IF x.state \in Waiting THEN Close(x) ELSE x
               z == [y EXCEPT !.state = "CANCELED"]
    <2>1. p_cancel_query(x) = FreeBuffers(z) BY <1>2, Zenon DEF p_cancel_query, Open
    <2>2. /\ y \in Query /\ y.needs = x.needs /\ y.sock = "none" /\ y.msg # "dangling" /\ y.buf # "dangling"
      <3>1. CASE x.state \in Waiting
        <4>1. y = [x EXCEPT !.sock = "none"] BY <3>1, Zenon DEF Close, Holds, Query
        <4>2. QED BY <1>2, <4>1 DEF Query, Holds
      <3>2. CASE x.state \notin Waiting
        <4>1. x.sock \in {"none", "live"} BY Zenon DEF Query
        <4>2. QED BY <1>2, <3>2, <4>1, Zenon DEF Holds
      <3>3. QED BY <3>1, <3>2, Zenon
    <2> HIDE DEF y
    <2>3. "CANCELED" \in States BY Zenon DEF States
    <2>4. /\ z \in Query /\ z.needs = y.needs /\ z.sock = y.sock /\ z.msg = y.msg /\ z.buf = y.buf
          /\ z.state = "CANCELED"
      BY <2>2, <2>3, Zenon DEF Query
    <2> HIDE DEF z
    <2>5. /\ FreeBuffers(z) \in Query /\ FreeBuffers(z).needs = x.needs /\ FreeBuffers(z).state = "CANCELED"
          /\ FreeBuffers(z).sock = "none" /\ FreeBuffers(z).msg = "dangling" /\ FreeBuffers(z).buf = "dangling"
      BY <2>2, <2>4, FreeIs, Zenon
    <2> DEFINE f == FreeBuffers(z)
    <2> HIDE DEF f
    <2>6. f.state \notin Open /\ f.state \notin Waiting BY <2>5, Zenon DEF f, Open, Waiting, Initials
    <2>7. Holds(f) BY <2>5, <2>6, Zenon DEF f, Holds
    <2>8. QED BY <1>2, <2>1, <2>5, <2>6, <2>7, Zenon DEF f
  <1>3. QED BY <1>1, <1>2, Zenon

LEMMA CancelKeeps == ASSUME Inv, Cancel PROVE Inv'
  <1> DEFINE late == {k \in 0 .. c.mc - 1 : qs[k].needs > 1}
  <1>1. /\ c.pc = "cancel" /\ c' = [c EXCEPT !.pc = "finish"]
        /\ qs' = [i \in Servers |-> IF i \in c.dc .. c.mc - 1 THEN p_cancel_query(qs[i]) ELSE qs[i]]
        /\ marks' = marks \union {<<i, "silent">> : i \in late}
        /\ UNCHANGED <<mode, ev, ts, until, clock, ent, serv, save, best, heard>>
    BY Zenon DEF Cancel, Goto
  <1>2. mode = "resolve" /\ Batches /\ Started /\ Answers /\ Best BY <1>1, Resolving, Zenon
  <1>3. /\ c \in Control /\ qs \in [Servers -> Query] /\ NQ \in Nat \ {0} /\ Servers = 0 .. NQ - 1
        /\ c.dc \in 0 .. NQ /\ c.mc \in 0 .. NQ /\ c.qse \in Servers
    BY Nats, Zenon
  <1>4. "finish" \in PCs BY Zenon DEF PCs
  <1>5. /\ c'.pc = "finish" /\ c'.mc = c.mc /\ c'.j = c.j /\ c'.dc = c.dc /\ c'.rv = c.rv /\ c'.qse = c.qse
        /\ c' \in Control
    BY <1>1, <1>3, <1>4, Zenon DEF Control
  <1>6. /\ \A k \in Servers : qs[k].state \in (IF k < c.mc THEN Waiting \union {"DONE"} ELSE {"INITIAL", "DONE"})
        /\ \A k \in Servers : k < c.dc => qs[k].state = "DONE"
    BY <1>1, <1>2, Zenon DEF Started
  <1>7. ASSUME NEW k \in Servers
        PROVE  /\ qs'[k] \in Query /\ qs'[k].needs = qs[k].needs /\ Holds(qs'[k]) /\ qs'[k].state \notin Open
               /\ qs[k].state = "DONE" => qs'[k] = qs[k]
    <2>1. qs[k] \in Query BY <1>3, Zenon
    <2>2. Holds(qs[k]) BY <1>1, Zenon DEF Inv, Resources
    <2>3. "DONE" \notin Open /\ "INITIAL" \notin Open BY Zenon DEF Open, Waiting, Initials
    <2>4. CASE k \in c.dc .. c.mc - 1
      <3>1. qs'[k] = p_cancel_query(qs[k]) BY <1>1, <2>4, Zenon
      <3>2. QED BY <2>1, <2>2, <2>3, <3>1, CanceledIs
    <2>5. CASE k \notin c.dc .. c.mc - 1
      <3>1. qs'[k] = qs[k] BY <1>1, <2>5, Zenon
      <3>2. qs[k].state \in {"INITIAL", "DONE"} BY <1>3, <1>6, <2>5
      <3>3. QED BY <2>1, <2>2, <2>3, <3>1, <3>2, Zenon
    <2>6. QED BY <2>4, <2>5, Zenon
  <1>8. late \subseteq Servers /\ \A k \in late : qs[k].needs = 2
    <2>1. late \subseteq Servers BY <1>3
    <2>2. \A k \in Servers : qs[k].needs \in 0 .. 2 BY <1>3, Zenon DEF Query
    <2>3. QED BY <2>1, <2>2
  <1> HIDE DEF late
  <1>9. Types'
    <2>1. qs' \in [Servers -> Query]
      <3>1. \A k \in Servers : qs'[k] \in Query BY <1>7, Zenon
      <3>2. QED BY <1>1, <3>1, Zenon
    <2>2. marks' \subseteq Servers \X {"up", "down", "silent"} BY <1>1, <1>8 DEF Inv, Types
    <2>3. QED BY <1>1, <1>5, <2>1, <2>2, Zenon DEF Inv, Types
  <1>10. Resources' BY <1>5, <1>7, Zenon DEF Resources
  <1>11. InHand' BY <1>5, Zenon DEF InHand, InExec
  <1>12. Verdicts'
    <2> SUFFICES ASSUME NEW k \in Servers
                 PROVE  /\ k \in heard \union (Servers \ Tested) =>
                             qs'[k].needs = 0 /\ <<k, "down">> \notin marks' /\ <<k, "silent">> \notin marks'
                        /\ <<k, "down">> \in marks' => qs'[k].needs = 0 /\ qs'[k].state = "DONE"
                        /\ <<k, "silent">> \in marks' => qs'[k].needs = 2
      BY <1>1, <1>5, Zenon DEF Verdicts
    <2>1. Verdicts BY Zenon DEF Inv
    <2>2. /\ k \in heard \union (Servers \ Tested) =>
                qs[k].needs = 0 /\ <<k, "down">> \notin marks /\ <<k, "silent">> \notin marks
          /\ <<k, "down">> \in marks => qs[k].needs = 0 /\ qs[k].state = "DONE"
          /\ <<k, "silent">> \in marks => c.pc \in {"finish", "returned"} /\ qs[k].needs = 2
      BY <2>1, Zenon DEF Verdicts
    <2>3. <<k, "down">> \in marks' => <<k, "down">> \in marks BY <1>1, Zenon
    <2>4. <<k, "silent">> \in marks' => k \in late BY <1>1, <2>2, Zenon
    <2>5. k \in late => qs[k].needs = 2 BY <1>8, Zenon
    <2>6. qs'[k].needs = qs[k].needs /\ (qs[k].state = "DONE" => qs'[k] = qs[k]) BY <1>7, Zenon
    <2>7. QED BY <2>2, <2>3, <2>4, <2>5, <2>6
  <1>13. Batches' BY <1>2, <1>5, Zenon DEF Batches, In, InExec, Looping
  <1>14. Started' BY <1>5, <1>7, Zenon DEF Started, InExec, Looping
  <1>15. Reported' BY <1>5, Zenon DEF Reported, In, InExec
  <1>16. Answers' BY <1>1, <1>2, <1>5, Zenon DEF Answers
  <1>17. Best'
    <2>1. IF save.has THEN save.qual = best
          ELSE c.rv = "OK" => Quality(qs[c.qse], 1) = best /\ qs[c.qse].state = "DONE"
      BY <1>1, <1>2, Zenon DEF Best
    <2>2. qs[c.qse].state = "DONE" => qs'[c'.qse] = qs[c.qse] BY <1>3, <1>5, <1>7, Zenon
    <2>3. QED BY <1>1, <1>5, <2>1, <2>2, Zenon DEF Best
  <1>18. Patience' BY <1>5, Zenon DEF Patience, InExec
  <1>19. QED BY <1>1, <1>2, <1>9, <1>10, <1>11, <1>12, <1>13, <1>14, <1>15, <1>16, <1>17, <1>18, Zenon DEF Inv, Loops

LEMMA FinishKeeps == ASSUME Inv, Finish PROVE Inv'
  <1>1. /\ c.pc = "finish" /\ save' = NoSave /\ serv' = FALSE
        /\ UNCHANGED <<mode, qs, ev, ts, until, clock, marks, best, heard>>
    BY Zenon DEF Finish
  <1>2. mode = "resolve" /\ Batches /\ Started /\ Answers BY <1>1, Resolving, Zenon
  <1>3. c \in Control /\ c.rv \in AllCodes BY Nats, Zenon
  <1>4. ent \in {"none", "live", "dangling"} /\ c.rv \notin Ended
        /\ IF save.has THEN ent = "none" ELSE (ent = "live" <=> c.rv = "OK")
    BY <1>1, <1>2, Zenon DEF Inv, Types, Answers
  <1>5. \E r \in AllCodes : /\ GotoWith("returned", r) /\ ent' \in {"none", "live", "dangling"}
                            /\ ent' = "live" <=> r \in Resolved
    <2> DEFINE rv == IF save.has THEN "OK" ELSE c.rv
               by == IF save.has THEN save.by ELSE c.qse
               ask == rv = "OK" /\ (IF save.has THEN save.serv ELSE serv)
               err == IF rv = "FATALERR" THEN "SERVFAIL" ELSE rv
    <2>1. \/ GotoWith("returned", err) /\ ent' = IF save.has THEN "live" ELSE ent
          \/ \E r \in Resolved \union {"NAMEERR", "SERVFAIL"} :
                   IF r \in Resolved \union {"NAMEERR"} /\ ~(r = "STALE" /\ qs[by].claims)
                   THEN /\ GotoWith("returned", r)
                        /\ ent' = IF r \in Resolved THEN "live" ELSE "dangling"
                   ELSE /\ GotoWith("returned", IF qs[by].claims THEN "OK" ELSE r)
                        /\ ent' = IF qs[by].claims THEN "live" ELSE "dangling"
      BY Zenon DEF Finish
    <2>2. CASE GotoWith("returned", err) /\ ent' = IF save.has THEN "live" ELSE ent
      <3>1. err \in AllCodes /\ (err \in Resolved <=> save.has \/ c.rv = "OK")
        BY <1>3, <1>4, Zenon DEF AllCodes, Codes, Resolved, Ended
      <3> HIDE DEF err
      <3>2. QED BY <1>4, <2>2, <3>1, Zenon
    <2>3. ASSUME NEW r \in Resolved \union {"NAMEERR", "SERVFAIL"}, NEW cl,
                 IF r \in Resolved \union {"NAMEERR"} /\ ~(r = "STALE" /\ cl)
                 THEN /\ GotoWith("returned", r)
                      /\ ent' = IF r \in Resolved THEN "live" ELSE "dangling"
                 ELSE /\ GotoWith("returned", IF cl THEN "OK" ELSE r)
                      /\ ent' = IF cl THEN "live" ELSE "dangling"
          PROVE  \E s \in AllCodes : /\ GotoWith("returned", s) /\ ent' \in {"none", "live", "dangling"}
                                     /\ ent' = "live" <=> s \in Resolved
      <3>1. Resolved \union {"NAMEERR", "SERVFAIL"} \subseteq AllCodes /\ "OK" \in Resolved
            /\ "SERVFAIL" \notin Resolved /\ "NAMEERR" \notin Resolved
        BY Zenon DEF AllCodes, Codes, Resolved
      <3>2. CASE r \in Resolved \union {"NAMEERR"} /\ ~(r = "STALE" /\ cl) BY <2>3, <3>1, <3>2, Zenon
      <3>3. CASE ~(r \in Resolved \union {"NAMEERR"} /\ ~(r = "STALE" /\ cl))
        <4>1. CASE cl
          <5>1. GotoWith("returned", "OK") /\ ent' = "live" BY <2>3, <3>3, <4>1, Zenon
          <5>2. QED BY <3>1, <5>1, Zenon
        <4>2. CASE ~cl
          <5>1. GotoWith("returned", r) /\ ent' = "dangling" BY <2>3, <3>3, <4>2, Zenon
          <5>2. r = "SERVFAIL" BY <3>3, <4>2, Zenon
          <5>3. QED BY <3>1, <5>1, <5>2, Zenon
        <4>3. QED BY <4>1, <4>2, Zenon
      <3>4. QED BY <3>2, <3>3, Zenon
    <2> HIDE DEF rv, by, ask, err
    <2>4. QED BY <2>1, <2>2, <2>3, Zenon
  <1>6. PICK r \in AllCodes : /\ GotoWith("returned", r) /\ ent' \in {"none", "live", "dangling"}
                              /\ ent' = "live" <=> r \in Resolved
    BY <1>5, Zenon
  <1>7. "returned" \in PCs BY Zenon DEF PCs
  <1>8. c'.pc = "returned" /\ c'.rv = r /\ c'.mc = c.mc /\ c'.dc = c.dc /\ c' \in Control
    BY <1>3, <1>6, <1>7, Zenon DEF Control, GotoWith
  <1>9. save' \in Saved /\ ~save'.has BY <1>1, NoSaveIs, Zenon
  <1>10. Types'
    <2>1. serv' \in BOOLEAN BY <1>1, Zenon
    <2>2. UNCHANGED <<mode, qs, ev, ts, until, clock, marks, best, heard>> BY <1>1, Zenon
    <2>3. QED BY <1>6, <1>8, <1>9, <2>1, <2>2, Zenon DEF Inv, Types
  <1>11. Batches' BY <1>2, <1>8, Zenon DEF Batches, In, InExec, Looping
  <1>12. Started' BY <1>1, <1>2, <1>8, Zenon DEF Started, InExec, Looping
  <1>13. Reported' BY <1>8, Zenon DEF Reported, In, InExec
  <1>14. Answers' BY <1>1, <1>6, <1>8, <1>9, Zenon DEF Answers
  <1>15. Best' BY <1>8, Zenon DEF Best
  <1>16. Patience' BY <1>8, Zenon DEF Patience, InExec
  <1>17. Resources' /\ Verdicts' BY <1>1, <1>8, Untouched, Zenon
  <1>18. InHand' BY <1>8, Zenon DEF InHand, InExec
  <1>19. QED BY <1>1, <1>2, <1>10, <1>11, <1>12, <1>13, <1>14, <1>15, <1>16, <1>17, <1>18, Zenon DEF Inv, Loops

------------------------------------------------------------------------------
(* The steps of query_uptest outside p_exec_query. *)

LEMMA Testing ==
    ASSUME Inv, c.pc = "uppoll" \/ mode = "uptest"
    PROVE  /\ mode = "uptest" /\ c \in Control /\ c.i = 0 /\ 0 \in Servers /\ me \in Query
           /\ c.dc = 0 /\ c.mc = 0 /\ ent = "none"
           /\ c.pc = "uppoll" => me.state \in Waiting /\ <<0, "down">> \notin marks
           /\ \A k \in Servers : k > 0 => qs[k].state = "INITIAL"
           /\ c.pc # "reply" => Holds(me)
  <1>1. mode \in {"resolve", "uptest"} BY Zenon DEF Inv, Types
  <1>2. mode = "uptest" BY <1>1, Zenon DEF Inv, Loops, Batches
  <1>3. Uptest BY <1>2, Zenon DEF Inv
  <1>4. 0 \in Servers /\ c \in Control /\ qs \in [Servers -> Query] BY Nats
  <1>5. c.i = 0 /\ me \in Query BY <1>3, <1>4, Zenon DEF Uptest, me
  <1>6. c.pc # "reply" => Holds(me) BY <1>4, <1>5, Zenon DEF Inv, Resources, me
  <1>7. c.pc = "uppoll" => me.state \in Waiting /\ <<0, "down">> \notin marks
    <2>1. c.pc = "uppoll" => me.state \in Waiting BY <1>3, Zenon DEF Uptest
    <2>2. Verdicts BY Zenon DEF Inv
    <2>3. <<0, "down">> \in marks => qs[0].state = "DONE" BY <1>4, <2>2, Zenon DEF Verdicts
    <2>4. QED BY <1>5, <2>1, <2>3, Zenon DEF me, Waiting
  <1>8. QED BY <1>2, <1>3, <1>4, <1>5, <1>6, <1>7, Zenon DEF Uptest

LEMMA UpBackKeeps == ASSUME Inv, UpBack PROVE Inv'
  <1>1. /\ c.pc = "back" /\ mode = "uptest"
        /\ UNCHANGED <<mode, qs, ev, ts, clock, ent, serv, save, marks, best, heard>>
    BY Zenon DEF UpBack, upVars
  <1>2. /\ c \in Control /\ c.i = 0 /\ 0 \in Servers /\ c.dc = 0 /\ c.mc = 0 /\ ent = "none"
        /\ \A k \in Servers : k > 0 => qs[k].state = "INITIAL"
    BY <1>1, Testing, Zenon
  <1>3. IF c.rv = "AGAIN" THEN me.state \in Waiting ELSE me.state = "DONE" BY <1>1, Zenon DEF Inv, InHand
  <1>4. \/ c.rv = "AGAIN" /\ c' = [c EXCEPT !.pc = "uppoll", !.ctx = "upwait"]
        \/ c.rv # "AGAIN" /\ \E r \in {"up", "not"} : c' = [c EXCEPT !.pc = "returned", !.rv = r]
    <2> DEFINE r == IF c.rv \notin {"SERVFAIL", "FATALERR"} THEN "up" ELSE "not"
    <2>1. r \in {"up", "not"} BY Zenon
    <2>2. \/ c.rv = "AGAIN" /\ c' = [c EXCEPT !.pc = "uppoll", !.ctx = "upwait"]
          \/ c.rv # "AGAIN" /\ c' = [c EXCEPT !.pc = "returned", !.rv = r]
      BY Zenon DEF UpBack, UpAnswer, GotoWith
    <2> HIDE DEF r
    <2>3. QED BY <2>1, <2>2, Zenon
  <1>5. {"uppoll", "returned"} \subseteq PCs /\ {"up", "not"} \subseteq AllCodes BY Zenon DEF PCs, AllCodes
  <1>6. /\ c' \in Control /\ c'.i = c.i /\ c'.dc = c.dc /\ c'.mc = c.mc
        /\ \/ c.rv = "AGAIN" /\ c'.pc = "uppoll"
           \/ c.rv # "AGAIN" /\ c'.pc = "returned"
    <2>1. CASE c.rv = "AGAIN" /\ c' = [c EXCEPT !.pc = "uppoll", !.ctx = "upwait"]
      BY <1>2, <1>5, <2>1, Zenon DEF Control
    <2>2. ASSUME c.rv # "AGAIN", NEW r \in {"up", "not"}, c' = [c EXCEPT !.pc = "returned", !.rv = r]
          PROVE  /\ c' \in Control /\ c'.i = c.i /\ c'.dc = c.dc /\ c'.mc = c.mc /\ c'.pc = "returned"
      <3>1. r \in AllCodes BY <1>5, Zenon
      <3>2. QED BY <1>2, <1>5, <2>2, <3>1, Zenon DEF Control
    <2>3. QED BY <1>4, <2>1, <2>2, Zenon
  <1>7. until' \in Nat
    <2>1. until \in Nat /\ clock \in Nat /\ Timeout \in Nat BY Nats, Zenon
    <2>2. QED BY <2>1 DEF UpBack
  <1>8. Types' BY <1>1, <1>6, <1>7, Zenon DEF Inv, Types
  <1>9. Resources' /\ Verdicts' BY <1>1, <1>6, Untouched, Zenon
  <1>10. InHand' BY <1>6, Zenon DEF InHand, InExec
  <1>11. Uptest'
    <2>1. me' = me BY <1>1, <1>6, Zenon DEF me
    <2>2. c'.pc = "uppoll" => me'.state \in Waiting BY <1>3, <1>6, <2>1, Zenon
    <2>3. c'.pc = "returned" => me'.state \notin Open BY <1>3, <1>6, <2>1, Zenon DEF Open, Waiting, Initials
    <2>4. QED BY <1>1, <1>2, <1>6, <2>2, <2>3, Zenon DEF Uptest
  <1>12. QED BY <1>1, <1>8, <1>9, <1>10, <1>11, Zenon DEF Inv

LEMMA UpEventKeeps == ASSUME Inv, UpEvent PROVE Inv'
  <1>1. /\ c.pc = "uppoll" /\ Exec(0, "upwait", me)
        /\ UNCHANGED <<mode, qs, ev, ts, until, clock, ent, serv, save, marks, best, heard>>
    BY Zenon DEF UpEvent, upVars
  <1>2. /\ mode = "uptest" /\ c \in Control /\ c.i = 0 /\ 0 \in Servers /\ c.dc = 0 /\ c.mc = 0 /\ ent = "none"
        /\ me.state \in Waiting /\ \A k \in Servers : k > 0 => qs[k].state = "INITIAL"
    BY <1>1, Testing, Zenon
  <1>3. me.state # "INITIAL" BY <1>2, Zenon DEF Waiting
  <1>4. c' = [c EXCEPT !.i = 0, !.ctx = "upwait", !.pc = "sm"] BY <1>1, <1>3, Zenon DEF Exec
  <1>5. "sm" \in PCs /\ 0 \in 0 .. NQ /\ 0 < NQ BY <1>2, Nats DEF PCs
  <1>6. c' \in Control /\ c'.pc = "sm" /\ c'.i = 0 /\ c'.dc = c.dc /\ c'.mc = c.mc
    BY <1>2, <1>4, <1>5, Zenon DEF Control
  <1>7. Types' BY <1>1, <1>6, Zenon DEF Inv, Types
  <1>8. Resources' /\ Verdicts' BY <1>1, <1>6, Untouched, Zenon
  <1>9. me' = me BY <1>1, <1>2, <1>6, Zenon DEF me
  <1>10. InHand' BY <1>2, <1>5, <1>6, <1>9, Zenon DEF InHand, Open
  <1>11. Uptest' BY <1>1, <1>2, <1>6, Zenon DEF Uptest
  <1>12. QED BY <1>1, <1>2, <1>7, <1>8, <1>10, <1>11, Zenon DEF Inv

(* The query is given up, or begun anew. *)
LEMMA GivenUp ==
    ASSUME Inv, c.pc = "uppoll", NEW x \in Query, Holds(x), x.needs = me.needs, x.state \notin Open,
           qs' = [qs EXCEPT ![c.i] = x], UNCHANGED <<mode, ev, ts, until, clock, ent, serv, save, marks, best, heard>>,
           c' \in Control, c'.pc \in {"exec", "returned"}, c'.i = c.i, c'.dc = c.dc, c'.mc = c.mc,
           c'.pc = "exec" => x.state = "INITIAL"
    PROVE  Inv'
  <1>1. /\ mode = "uptest" /\ c.i = 0 /\ 0 \in Servers /\ me \in Query /\ c.dc = 0 /\ c.mc = 0 /\ ent = "none"
        /\ <<0, "down">> \notin marks /\ \A k \in Servers : k > 0 => qs[k].state = "INITIAL"
    BY Testing, Zenon
  <1>2. NQ \in Nat \ {0} /\ Servers = 0 .. NQ - 1 /\ qs \in [Servers -> Query] BY Nats, Zenon
  <1>3. qs'[c.i] = x /\ (\A k \in Servers : k # c.i => qs'[k] = qs[k]) /\ qs' \in [Servers -> Query]
    BY <1>1, <1>2, Zenon
  <1>4. Types' BY <1>3, Zenon DEF Inv, Types
  <1>5. Resources' /\ Verdicts'
    <2>1. c.pc \in {"timeout", "back", "auth", "uppoll"} /\ c'.pc \notin {"reply", "auth", "back"} BY Zenon
    <2>2. UNCHANGED <<marks, heard>> /\ (me.needs = 0 => x.needs = 0) BY Zenon
    <2>3. c.i \in Servers /\ <<c.i, "down">> \notin marks BY <1>1, Zenon
    <2>4. QED BY <2>1, <2>2, <2>3, GivenTo, Zenon
  <1>6. me' = x BY <1>3, Zenon DEF me
  <1>7. InHand' BY <1>1, <1>2, <1>6 DEF InHand, InExec
  <1>8. Uptest'
    <2>1. \A k \in Servers : k > 0 => qs'[k].state = "INITIAL" BY <1>1, <1>2, <1>3
    <2>2. QED BY <1>1, <1>6, <2>1, Zenon DEF Uptest
  <1>9. QED BY <1>1, <1>4, <1>5, <1>7, <1>8, Zenon DEF Inv

LEMMA UpAnswerIs ==
    ASSUME c \in Control, UpAnswer(FALSE)
    PROVE  c' \in Control /\ c'.pc = "returned" /\ c'.i = c.i /\ c'.dc = c.dc /\ c'.mc = c.mc
  <1>1. c' = [c EXCEPT !.pc = "returned", !.rv = "not"] BY Zenon DEF UpAnswer, GotoWith
  <1>2. "returned" \in PCs /\ "not" \in AllCodes BY Zenon DEF PCs, AllCodes
  <1>3. QED BY <1>1, <1>2, Zenon DEF Control

LEMMA UpInterruptedKeeps == ASSUME Inv, UpInterrupted PROVE Inv'
  <1>1. /\ c.pc = "uppoll" /\ qs' = [qs EXCEPT ![c.i] = p_cancel_query(me)] /\ UpAnswer(FALSE)
        /\ UNCHANGED <<mode, ev, ts, until, clock, ent, serv, save, marks, best, heard>>
    <2>1. c.pc = "uppoll" /\ qs' = [qs EXCEPT ![c.i] = p_cancel_query(me)] /\ UpAnswer(FALSE)
      BY Zenon DEF UpInterrupted, Only
    <2>2. UNCHANGED <<upVars, until, clock>> BY Zenon DEF UpInterrupted
    <2>3. UNCHANGED <<mode, ev, ts, until, clock, ent, serv, save, marks, best, heard>> BY <2>2, Zenon DEF upVars
    <2>4. QED BY <2>1, <2>3, Zenon
  <1>2. c \in Control /\ me \in Query /\ Holds(me) BY <1>1, Testing, Zenon
  <1>3. /\ p_cancel_query(me) \in Query /\ p_cancel_query(me).needs = me.needs /\ Holds(p_cancel_query(me))
        /\ p_cancel_query(me).state \notin Open
    BY <1>2, CanceledIs, Zenon
  <1>4. c' \in Control /\ c'.pc = "returned" /\ c'.i = c.i /\ c'.dc = c.dc /\ c'.mc = c.mc
    BY <1>1, <1>2, UpAnswerIs, Zenon
  <1>5. c'.pc \in {"exec", "returned"} /\ c'.pc # "exec" BY <1>4, Zenon
  <1>6. QED BY <1>1, <1>3, <1>4, <1>5, GivenUp, Zenon

LEMMA UpTimeoutKeeps == ASSUME Inv, UpTimeout PROVE Inv'
  <1> DEFINE x == p_cancel_query(me)
             y == [x EXCEPT !.state = "INITIAL", !.qm = c.method, !.errno = "none"]
  <1>1. /\ c.pc = "uppoll"
        /\ UNCHANGED <<mode, ev, ts, until, clock, ent, serv, save, marks, best, heard>>
        /\ \/ /\ qs' = [qs EXCEPT ![c.i] = y]
              /\ c' = [c EXCEPT !.pc = "exec", !.ctx = "uptry", !.j = c.j + 1]
           \/ qs' = [qs EXCEPT ![c.i] = x] /\ UpAnswer(FALSE)
    <2>1. /\ c.pc = "uppoll"
          /\ \/ /\ qs' = [qs EXCEPT ![c.i] = y]
                /\ c' = [c EXCEPT !.pc = "exec", !.ctx = "uptry", !.j = c.j + 1]
             \/ qs' = [qs EXCEPT ![c.i] = x] /\ UpAnswer(FALSE)
      BY Zenon DEF UpTimeout, Only
    <2>2. UNCHANGED <<upVars, until, clock>> BY Zenon DEF UpTimeout
    <2>3. UNCHANGED <<mode, ev, ts, until, clock, ent, serv, save, marks, best, heard>> BY <2>2, Zenon DEF upVars
    <2>4. QED BY <2>1, <2>3, Zenon
  <1>2. c \in Control /\ me \in Query /\ Holds(me) BY <1>1, Testing, Zenon
  <1>3. x \in Query /\ x.needs = me.needs /\ Holds(x) /\ x.state \notin Open BY <1>2, CanceledIs, Zenon
  <1>4. c.method \in MethodSet /\ c.j + 1 \in Nat BY Nats, SMTT(20)
  <1> HIDE DEF x
  <1>5. CASE qs' = [qs EXCEPT ![c.i] = y] /\ c' = [c EXCEPT !.pc = "exec", !.ctx = "uptry", !.j = c.j + 1]
    <2>1. "INITIAL" \in States /\ "exec" \in PCs BY Zenon DEF States, PCs
    <2>2. /\ y \in Query /\ y.state = "INITIAL" /\ y.needs = x.needs /\ y.sock = x.sock /\ y.msg = x.msg
          /\ y.buf = x.buf
      BY <1>3, <1>4, <2>1, Zenon DEF Query
    <2> HIDE DEF y
    <2>3. y.state \notin Open /\ y.state \notin Waiting BY <2>2, Zenon DEF Open, Waiting, Initials
    <2>4. Holds(y) /\ y.needs = me.needs BY <1>3, <2>2, <2>3, Zenon DEF Holds, Open
    <2>5. c' \in Control /\ c'.pc = "exec" /\ c'.i = c.i /\ c'.dc = c.dc /\ c'.mc = c.mc
      BY <1>2, <1>4, <1>5, <2>1, Zenon DEF Control
    <2>6. c'.pc \in {"exec", "returned"} BY <2>5, Zenon
    <2>7. QED BY <1>1, <1>5, <2>2, <2>3, <2>4, <2>5, <2>6, GivenUp, Zenon
  <1>6. CASE qs' = [qs EXCEPT ![c.i] = x] /\ UpAnswer(FALSE)
    <2>1. c' \in Control /\ c'.pc = "returned" /\ c'.i = c.i /\ c'.dc = c.dc /\ c'.mc = c.mc
      BY <1>2, <1>6, UpAnswerIs, Zenon
    <2>2. c'.pc \in {"exec", "returned"} /\ c'.pc # "exec" BY <2>1, Zenon
    <2>3. QED BY <1>1, <1>3, <1>6, <2>1, <2>2, GivenUp, Zenon
  <1>7. QED BY <1>1, <1>5, <1>6, Zenon

------------------------------------------------------------------------------
LEMMA NewQuery ==
    ASSUME NEW m \in MethodSet, NEW t \in BOOLEAN, NEW k \in Servers
    PROVE  /\ add_qserv(m, t, k) \in Query /\ add_qserv(m, t, k).state = "INITIAL" /\ Holds(add_qserv(m, t, k))
           /\ k \notin Tested => add_qserv(m, t, k).needs = 0
  <1> DEFINE n == IF k \in Tested /\ ~t THEN 1 ELSE 0
             e == k \in Edns /\ ~t
             q == [state |-> "INITIAL", qm |-> m, io |-> 0, sock |-> "none", msg |-> "none",
                   buf |-> "none", needs |-> n, edns |-> e, rd |-> TRUE, claims |-> FALSE, tc |-> FALSE,
                   failed |-> 0, errno |-> "none"]
  <1>1. n \in 0 .. 2 /\ (k \notin Tested => n = 0) OBVIOUS
  <1>2. e \in BOOLEAN BY Zenon
  <1>3. add_qserv(m, t, k) = q BY Zenon DEF add_qserv
  <1> HIDE DEF n, e
  <1>4. "INITIAL" \in States BY Zenon DEF States
  <1>5. q \in Query BY <1>1, <1>2, <1>4, Zenon DEF Query
  <1>6. q.state = "INITIAL" /\ q.sock = "none" /\ q.msg = "none" /\ q.buf = "none" /\ q.needs = n BY Zenon
  <1> HIDE DEF q
  <1>7. Holds(q) BY <1>6, Zenon DEF Holds, Open, Waiting, Initials
  <1>8. QED BY <1>1, <1>3, <1>5, <1>6, <1>7, Zenon

LEMMA InitInv == ASSUME Init PROVE Inv
  <1>1. PICK m \in Methods :
         /\ qs = [i \in Servers |-> add_qserv(m, mode = "uptest", i)]
         /\ c = [pc |-> IF mode = "uptest" THEN "exec" ELSE "batch", ctx |-> "uptry",
                 i |-> 0, j |-> 0, dc |-> 0, mc |-> 0, rv |-> "SERVFAIL", qse |-> 0,
                 method |-> m]
    BY Zenon DEF Init
  <1>2. /\ mode \in {"resolve", "uptest"} /\ ev = {} /\ ts = 0 /\ until = 0 /\ clock = 0
        /\ ent = "none" /\ serv = FALSE /\ save = NoSave /\ marks = {} /\ best = 0 /\ heard = {}
    BY Zenon DEF Init
  <1>3. m \in MethodSet /\ NQ \in Nat \ {0} /\ Servers = 0 .. NQ - 1 BY ParametersAssumption, Zenon DEF MethodSet, Servers
  <1>4. (mode = "uptest") \in BOOLEAN BY Zenon
  <1>5. \A k \in Servers : /\ qs[k] \in Query /\ qs[k].state = "INITIAL" /\ Holds(qs[k])
                           /\ k \notin Tested => qs[k].needs = 0
    <2> SUFFICES ASSUME NEW k \in Servers
                 PROVE  /\ qs[k] \in Query /\ qs[k].state = "INITIAL" /\ Holds(qs[k])
                        /\ k \notin Tested => qs[k].needs = 0
      BY Zenon
    <2>1. qs[k] = add_qserv(m, mode = "uptest", k) BY <1>1, Zenon
    <2>2. \A t \in BOOLEAN : /\ add_qserv(m, t, k) \in Query /\ add_qserv(m, t, k).state = "INITIAL"
                             /\ Holds(add_qserv(m, t, k)) /\ (k \notin Tested => add_qserv(m, t, k).needs = 0)
      BY <1>3, NewQuery, Zenon
    <2>3. QED BY <1>4, <2>1, <2>2, Zenon
  <1>6. qs \in [Servers -> Query]
    <2>1. DOMAIN qs = Servers /\ qs = [k \in DOMAIN qs |-> qs[k]] BY <1>1, Zenon
    <2>2. QED BY <1>5, <2>1, Zenon
  <1> DEFINE p == IF mode = "uptest" THEN "exec" ELSE "batch"
  <1>7. p \in PCs /\ p \in {"exec", "batch"} /\ (p = "exec" <=> mode = "uptest") BY Zenon DEF PCs
  <1>8. /\ c.pc = p /\ c.ctx = "uptry" /\ c.i = 0 /\ c.j = 0 /\ c.dc = 0 /\ c.mc = 0 /\ c.rv = "SERVFAIL"
        /\ c \in Control
    <2>1. c = [pc |-> p, ctx |-> "uptry", i |-> 0, j |-> 0, dc |-> 0, mc |-> 0, rv |-> "SERVFAIL", qse |-> 0,
               method |-> m]
      BY <1>1, Zenon
    <2>2. 0 \in Servers /\ 0 \in 0 .. NQ /\ 0 \in Nat BY <1>3
    <2>3. "SERVFAIL" \in AllCodes BY Zenon DEF AllCodes, Codes
    <2> HIDE DEF p
    <2>4. QED BY <1>3, <1>7, <2>1, <2>2, <2>3, Zenon DEF Control
  <1> HIDE DEF p
  <1>9. save \in Saved /\ ~save.has BY <1>2, NoSaveIs, Zenon
  <1>10. Types
    <2>1. serv \in BOOLEAN BY <1>2, Zenon
    <2>2. ev \subseteq Servers /\ heard \subseteq Servers /\ marks \subseteq Servers \X {"up", "down", "silent"} BY <1>2, Zenon
    <2>3. ts \in Nat /\ until \in Nat /\ clock \in Nat /\ best \in Nat /\ ent \in {"none", "live", "dangling"} BY <1>2, Zenon
    <2>4. QED BY <1>2, <1>6, <1>8, <1>9, <2>1, <2>2, <2>3, Zenon DEF Types
  <1>11. Resources BY <1>5, <1>7, <1>8, Zenon DEF Resources
  <1>12. InHand
    <2>1. me.state = "INITIAL" BY <1>3, <1>5, <1>8 DEF me
    <2>2. QED BY <1>3, <1>7, <1>8, <2>1 DEF InHand
  <1>13. Verdicts BY <1>2, <1>5, Zenon DEF Verdicts
  <1>14. ASSUME mode = "resolve" PROVE Loops
    <2>1. c.pc = "batch" BY <1>7, <1>8, <1>14, Zenon
    <2>2. Batches BY <1>3, <1>8, <2>1 DEF Batches, In, InExec, Looping
    <2>3. Front = 0 BY <1>8, <2>1, Zenon DEF Front, In, InExec
    <2>4. Started BY <1>3, <1>5, <1>8, <2>1, <2>3 DEF Started, InExec
    <2>5. Reported BY <1>2, Zenon DEF Reported
    <2>6. Answers /\ Best BY <1>2, <1>8, <1>9, <2>1 DEF Answers, Best, Ended, GOODQUAL, W_AUTHOK, W_NOTFAILED
    <2>7. Patience BY <1>3, <1>8, <2>1 DEF Patience, InExec
    <2>8. QED BY <2>2, <2>4, <2>5, <2>6, <2>7, Zenon DEF Loops
  <1>15. ASSUME mode = "uptest" PROVE Uptest
    <2>1. c.pc = "exec" BY <1>7, <1>8, <1>15, Zenon
    <2>2. QED BY <1>2, <1>5, <1>8, <2>1, Zenon DEF Uptest
  <1>16. QED BY <1>10, <1>11, <1>12, <1>13, <1>14, <1>15, Zenon DEF Inv

(* The invariant: what each query holds in its state, which queries are begun,
   over and still awaited at each place of the loops, which answer is in hand, and
   what is known of the servers and of the time. *)
THEOREM Invariant == Spec => []Inv
  <1>1. Inv /\ [Next]_vars => Inv'
    <2> SUFFICES ASSUME Inv, [Next]_vars PROVE Inv' BY Zenon
    <2>1. CASE UNCHANGED vars
      <3>1. UNCHANGED <<mode, qs, c, ev, ts, until, clock, ent, serv, save, marks, best, heard>> BY <2>1, Zenon DEF vars
      <3>2. Types' = Types /\ Resources' = Resources BY <3>1, Zenon DEF Types, Resources
      <3>3. InHand' = InHand /\ Verdicts' = Verdicts BY <3>1, Zenon DEF InHand, Verdicts, me
      <3>4. Front' = Front BY <3>1, Zenon DEF Front, In
      <3>5. Batches' = Batches /\ Reported' = Reported BY <3>1, Zenon DEF Batches, Reported, In
      <3>6. Started' = Started
        <4> HIDE DEF Front
        <4>1. QED BY <3>1, <3>4, Zenon DEF Started
      <3>7. Answers' = Answers /\ Best' = Best BY <3>1, Zenon DEF Answers, Best
      <3>8. Patience' = Patience /\ Uptest' = Uptest BY <3>1, Zenon DEF Patience, Uptest, me
      <3>9. QED BY <3>1, <3>2, <3>3, <3>5, <3>6, <3>7, <3>8, Zenon DEF Inv, Loops
    <2>2. CASE NoSocket \/ TcpConnect \/ TcpWrite \/ TcpRead \/ UdpSend \/ UdpReceive \/ ExecInitial \/ BadReply
      BY <2>2, NoSocketSteps, TcpConnectSteps, TcpWriteSteps, TcpReadSteps, UdpSendSteps, UdpReceiveSteps,
         ExecInitialSteps, BadReplySteps, QueryKeeps, Zenon
    <2>3. CASE \E rcode \in {"OK", "NAMEERR", "SERVFAIL", "REFUSED", "FORMAT"}, ra, an \in BOOLEAN :
                  Reply(rcode, ra, an)
      BY <2>3, ReplySteps, QueryKeeps, Zenon
    <2>4. CASE \/ Batch \/ InitLoop \/ Build \/ PollWait \/ PollFails \/ PollEvents \/ PollTimeout
               \/ Events \/ Timeouts \/ Back \/ Judge \/ Done \/ Cancel \/ Finish
      BY <2>4, BatchKeeps, InitLoopKeeps, BuildKeeps, PollWaitKeeps, PollFailsKeeps, PollEventsKeeps,
         PollTimeoutKeeps, EventsKeeps, TimeoutsKeeps, BackKeeps, JudgeKeeps, DoneKeeps, CancelKeeps, FinishKeeps, Zenon
    <2>5. CASE UpBack \/ UpEvent \/ UpInterrupted \/ UpTimeout
      BY <2>5, UpBackKeeps, UpEventKeeps, UpInterruptedKeeps, UpTimeoutKeeps, Zenon
    <2>6. QED BY <2>1, <2>2, <2>3, <2>4, <2>5, Zenon DEF Next
  <1>2. QED BY <1>1, InitInv, PTL DEF Spec

(* Nothing that a call opens or allocates is leaked, freed twice or handed out after
   it was freed: p_query_sm closes a socket on every path out of its waiting states,
   p_exec_query frees the buffers, save_query_result the worse answer, and p_cancel_query
   what is left; a call hands out an answer exactly if its code says so. *)
THEOREM AllOwnedHolds == Spec => []AllOwned
  <1>1. Inv => AllOwned
    <2> SUFFICES ASSUME Inv PROVE AllOwned BY Zenon
    <2>1. Types /\ Resources /\ mode \in {"resolve", "uptest"} BY Zenon DEF Inv, Types
    <2>2. /\ c \in Control /\ qs \in [Servers -> Query] /\ NQ \in Nat \ {0} /\ Servers = 0 .. NQ - 1
          /\ c.i \in 0 .. NQ /\ c.dc \in 0 .. NQ /\ c.mc \in 0 .. NQ /\ c.pc \in PCs /\ c.rv \in AllCodes
      BY Nats, Zenon
    <2>3. c.dc <= c.mc
      <3>1. CASE mode = "resolve" BY <3>1, Zenon DEF Inv, Loops, Batches
      <3>2. CASE mode = "uptest" BY <3>2 DEF Inv, Uptest
      <3>3. QED BY <2>1, <3>1, <3>2, Zenon
    <2>4. TypeOK
      <3>1. c.dc \in 0 .. c.mc BY <2>2, <2>3
      <3>2. {ts, until, clock, best} \subseteq Nat BY <2>1, Zenon DEF Types
      <3>3. QED BY <2>1, <2>2, <3>1, <3>2, Zenon DEF TypeOK, Types, Query, MethodSet, PCs, AllCodes
    <2>5. ASSUME NEW k \in Servers
          PROVE  /\ qs[k].sock \in {"none", "live"} /\ "twice" \notin {qs[k].msg, qs[k].buf}
                 /\ qs[k].sock = "live" <=> qs[k].state \in Waiting
                 /\ qs[k].state \in Waiting => qs[k].msg = "live"
      <3>1. qs[k].sock \in {"none", "live"} /\ "twice" \notin {qs[k].msg, qs[k].buf} BY <2>2, Zenon DEF Query
      <3>2. Holds(qs[k]) \/ Replied(qs[k]) BY <2>1, Zenon DEF Resources
      <3>3. CASE Holds(qs[k]) BY <3>1, <3>3, Zenon DEF Holds, Open
      <3>4. CASE Replied(qs[k]) BY <3>1, <3>4, Zenon DEF Replied, Waiting
      <3>5. QED BY <3>2, <3>3, <3>4, Zenon
    <2>6. ASSUME c.pc = "returned", NEW k \in Servers PROVE "live" \notin {qs[k].sock, qs[k].msg, qs[k].buf}
      <3>1. qs[k].state \notin Open
        <4>1. CASE mode = "resolve" BY <2>6, <4>1, Zenon DEF Inv, Loops, Started
        <4>2. CASE mode = "uptest"
          <5>1. Uptest BY <4>2, Zenon DEF Inv
          <5>2. CASE k = 0 BY <2>6, <5>1, <5>2, Zenon DEF Uptest, me
          <5>3. CASE k # 0 BY <2>2, <5>1, <5>3 DEF Uptest, Open, Waiting, Initials
          <5>4. QED BY <5>2, <5>3, Zenon
        <4>3. QED BY <2>1, <4>1, <4>2, Zenon
      <3>2. Holds(qs[k]) BY <2>1, <2>6, Zenon DEF Resources
      <3>3. QED BY <3>1, <3>2, Zenon DEF Holds, Open
    <2>7. ResourcesOwned BY <2>5, <2>6, Zenon DEF ResourcesOwned
    <2>8. ResultMatches
      <3>1. ent # "twice" BY <2>1, Zenon DEF Types
      <3>2. ASSUME c.pc = "returned", mode = "resolve"
            PROVE  (ent = "live" <=> c.rv \in Resolved) /\ ~save.has /\ ~serv
        BY <3>2, Zenon DEF Inv, Loops, Answers
      <3>3. QED BY <3>1, <3>2, Zenon DEF ResultMatches
    <2>9. QED BY <2>4, <2>7, <2>8, Zenon DEF AllOwned
  <1>2. QED BY <1>1, Invariant, PTL

(* What p_recursive_query concludes from the replies is right in whatever order and
   however late they come: it uses the best of the answers, of all servers and of the
   retries using TCP, and it reports no server as down or silent that sent a usable
   reply or is not to be tested. *)
THEOREM RepliesUsedHolds == Spec => []RepliesUsed
  <1>1. Inv => RepliesUsed
    <2> SUFFICES ASSUME Inv PROVE RepliesUsed BY Zenon
    <2>1. BestAnswer
      <3> SUFFICES ASSUME c.pc = "finish"
                   PROVE  /\ save.has => save.qual = best
                          /\ ~save.has /\ c.rv = "OK" => Quality(qs[c.qse], 1) = best
        BY Zenon DEF BestAnswer
      <3>1. Best BY Resolving, Zenon
      <3>2. QED BY <3>1, Zenon DEF Best
    <2>2. AnsweredNotDown
      <3> SUFFICES ASSUME NEW k \in Servers
                   PROVE  /\ k \in heard \union (Servers \ Tested) => {<<k, "down">>, <<k, "silent">>} \cap marks = {}
                          /\ {<<k, "down">>, <<k, "silent">>} \subseteq marks => FALSE
        BY Zenon DEF AnsweredNotDown
      <3>1. Verdicts BY Zenon DEF Inv
      <3>2. /\ k \in heard \union (Servers \ Tested) => <<k, "down">> \notin marks /\ <<k, "silent">> \notin marks
            /\ <<k, "down">> \in marks => qs[k].needs = 0
            /\ <<k, "silent">> \in marks => qs[k].needs = 2
        BY <3>1, Zenon DEF Verdicts
      <3>3. ~(<<k, "down">> \in marks /\ <<k, "silent">> \in marks) BY <3>2
      <3>4. QED BY <3>2, <3>3, Zenon
    <2>3. QED BY <2>1, <2>2, Zenon DEF RepliesUsed
  <1>2. QED BY <1>1, Invariant, PTL

(* Having asked all servers, p_recursive_query gives up on queries that are still open
   only when the global timeout is over, and on those of the last batch only when their
   own timeout is over, too; retries of TCP queries using UDP included. *)
THEOREM PatientEndHolds == Spec => []PatientEnd
  <1>1. Inv => PatientEnd
    <2> SUFFICES ASSUME Inv, c.pc = "cancel", mode = "resolve", c.j >= NQ
                 PROVE  /\ \A k \in Servers : qs[k].state # "INITIAL"
                        /\ (\E k \in Servers : qs[k].state \in Waiting) => clock >= GlobalTimeout
                        /\ (\E k \in Servers : k >= c.j - ParQueries /\ qs[k].state \in Waiting) =>
                              clock >= ts + Timeout
      BY Zenon DEF PatientEnd
    <2>1. Started /\ Patience BY Zenon DEF Inv, Loops
    <2>2. /\ c.mc = NQ
          /\ (\E k \in Servers : qs[k].state \in Waiting) => clock >= GlobalTimeout
          /\ (\E k \in Servers : k >= c.j - ParQueries /\ qs[k].state \in Waiting) => clock >= ts + Timeout
      BY <2>1, Zenon DEF Patience
    <2>3. \A k \in Servers : qs[k].state # "INITIAL"
      <3>1. NQ \in Nat \ {0} /\ Servers = 0 .. NQ - 1 BY Nats, Zenon
      <3>2. \A k \in Servers : k < c.mc => qs[k].state \in Waiting \union {"DONE"} BY <2>1, Zenon DEF Started
      <3>3. QED BY <2>2, <3>1, <3>2 DEF Waiting
    <2>4. QED BY <2>2, <2>3, Zenon
  <1>2. QED BY <1>1, Invariant, PTL

==============================================================================
