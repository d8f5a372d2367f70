---------------------------- MODULE ServerStatus ----------------------------
(***************************************************************************)
(* The table of name servers and the thread that tests them (servers.c,    *)
(* the table swap of conff.c, CTL_SERVER and CTL_CONFIG of status.c).      *)
(* The mutex servers_lock guards the table; a thread that needs the table  *)
(* while it waits for the network counts itself in server_data_users and   *)
(* frees the mutex, and whoever replaces parts of the table waits until    *)
(* that count is 0.  A section is a record                                 *)
(*   uptest   none, if, ping (each address), pingall (one address for all) *)
(*   interval 0, -1 (onquery), -2 (ontimeout) or positive                  *)
(*   root     1 usual, 2 addresses of root servers yet to be discovered    *)
(*   scheme, ok   a network scheme is given; it matches                    *)
(*   preset   initial status                                               *)
(*   at       its addresses: [a, up, due], due meaning that i_ts is 0      *)
(* Time appears only in due; whether an interval has run out is a choice.  *)
(***************************************************************************)
EXTENDS Integers, Sequences, FiniteSets

CONSTANTS
    Q,              \* query threads
    Hosts,          \* addresses of servers
    Table0,         \* the table that the configuration file defines
    Tables,         \* tables that a reload may bring
    Addresses,      \* sequences of addresses that change_servers may set
    RootAddresses,  \* what root server discovery finds
    MaxCmds, MaxAsked, MaxTimeouts, MaxFails    \* bounds

atup_t == [a : Hosts, up : BOOLEAN, due : BOOLEAN]
servparm_t == [uptest : {"none", "if", "ping", "pingall"}, interval : Int, root : {1, 2},
               scheme : BOOLEAN, ok : BOOLEAN, preset : BOOLEAN, at : Seq(atup_t)]

ASSUME ThreadsAssumption == IsFiniteSet(Q) /\ "st" \notin Q /\ "free" \notin Q
ASSUME TablesAssumption ==
    /\ Table0 \in Seq(servparm_t) /\ Tables \subseteq Seq(servparm_t)
    /\ Addresses \subseteq Seq(Hosts) /\ RootAddresses \in Seq(Hosts)

VARIABLES
    servers,     \* the table
    gen,         \* how often a reload replaced it
    mutex,       \* holder of servers_lock across steps, or "free"
    users,       \* server_data_users
    pings,       \* server_status_ping
    intr,        \* signal_interrupt
    flag,        \* retest_flag
    thrid,       \* servstat_thrid: main, or stt for the last thread created
    st,          \* the server status thread
    run,         \* per thread: a call of retest
    q,           \* per query thread: what it is doing
    ctl,         \* the control thread, with the commands it has taken
    boot,        \* main: create, setid, up; hurt or crashed after freed memory was used
    asked,       \* calls made by query threads
    spent        \* timeouts and failures so far

vars == <<servers, gen, mutex, users, pings, intr, flag, thrid, st, run, q, ctl,
          boot, asked, spent>>

T == Q \union {"st"}
NoRun == [on |-> FALSE, out |-> FALSE, counted |-> FALSE, i |-> 0, j |-> 0, last |-> 0]
Running(i, j, last) == [on |-> TRUE, out |-> FALSE, counted |-> FALSE, i |-> i, j |-> j, last |-> last]

Each(sp) == sp.uptest = "ping"
Pinging(sp) == sp.uptest \in {"ping", "pingall"}
Tested(sp) == sp.uptest # "none" \/ sp.scheme
needs_testing(sp) == (sp.interval > 0 \/ sp.interval = -2) /\ Tested(sp)
needs_intermittent_testing(sp) == sp.interval > 0 /\ Tested(sp)

(* The addresses J of a section, with a status and a time stamp. *)
Mark(at, J, up, due) ==
    [j \in DOMAIN at |-> IF j \in J THEN [a |-> at[j].a, up |-> up, due |-> due]
                         ELSE at[j]]
SetDue(at, J, due) ==
    [j \in DOMAIN at |-> IF j \in J THEN [at[j] EXCEPT !.due = due] ELSE at[j]]

------------------------------------------------------------------------------
(* retest and uptest, run by the status thread or by a query thread.  The
   mutex is held except between UptestBegin and UptestEnd. *)

(* What retest(i, j) does before the first uptest; j = 0 stands for all. *)
Retest(t, i, j) ==
    LET sp   == servers[i]
        from == IF j = 0 THEN 1 ELSE j
        last == IF j = 0 THEN Len(sp.at) ELSE j
        J    == from..last
    IN  IF Len(sp.at) = 0 THEN UNCHANGED <<servers, run>>
        ELSE IF ~sp.ok
        THEN servers' = [servers EXCEPT ![i].at = Mark(@, J, FALSE, FALSE)] /\ UNCHANGED run
        ELSE IF sp.uptest = "none"
        THEN servers' = [servers EXCEPT ![i].at = SetDue(@, J, FALSE)] /\ UNCHANGED run
        ELSE run' = [run EXCEPT ![t] = Running(i, from, last)] /\ UNCHANGED servers

UptestBegin(t) ==
    /\ mutex = t /\ run[t].on
    /\ LET counted == Pinging(servers[run[t].i]) /\ t = "st" /\ thrid = "stt"
       IN  /\ run' = [run EXCEPT ![t].out = TRUE, ![t].counted = counted]
           /\ pings' = IF counted THEN pings + 1 ELSE pings
    /\ users' = users + 1
    /\ mutex' = "free"
    /\ UNCHANGED <<servers, gen, intr, flag, thrid, st, q, ctl, boot, asked, spent>>

UptestDone(t) ==
    /\ pings' = IF run[t].counted THEN pings - 1 ELSE pings
    /\ users' = users - 1

(* The result of a test, of one address or of all those tested together.
   An interrupt ends a round of pings and leaves the time stamp alone. *)
Noted(at, J, up, stays) ==
    [j \in DOMAIN at |-> IF j \in J THEN [a |-> at[j].a, up |-> up, due |-> at[j].due /\ stays]
                         ELSE at[j]]

UptestEnd(t, res) ==
    /\ run[t].out /\ mutex = "free"
    /\ mutex' = t
    /\ UptestDone(t)
    /\ LET r  == run[t]
           sp == servers[r.i]
           J  == IF Each(sp) THEN {r.j} ELSE r.j..r.last
           more == Each(sp) /\ ~intr /\ r.j < r.last
       IN  /\ servers' = [servers EXCEPT ![r.i].at = Noted(@, J, res, intr /\ Pinging(sp))]
           /\ run' = [run EXCEPT ![t] = IF more THEN Running(r.i, r.j + 1, r.last) ELSE NoRun]
    /\ UNCHANGED <<gen, intr, flag, thrid, st, q, ctl, boot, asked, spent>>

------------------------------------------------------------------------------
(* The server status thread.  It holds the mutex except in uptest, during
   root server discovery and in its two condition waits.  i is the section,
   n the number of sections and g the table when the scan began. *)

Off == [pc |-> "off", i |-> 0, n |-> 0, j |-> 0, keep |-> FALSE, g |-> 0, freed |-> FALSE]
InSt(pc) == mutex = "st" /\ st.pc = pc /\ ~run["st"].on
Sp == servers[st.i]
Keep(b) == [st EXCEPT !.keep = @ \/ b]
NextSection(s) == [s EXCEPT !.pc = "section", !.i = @ + 1]

StLock ==
    /\ st.pc = "lock" /\ mutex = "free"
    /\ mutex' = "st" /\ intr' = FALSE
    /\ st' = [st EXCEPT !.pc = "pass"]
    /\ UNCHANGED <<servers, gen, users, pings, flag, thrid, run, q, ctl, boot, asked, spent>>

StPass ==
    /\ InSt("pass")
    /\ flag' = FALSE
    /\ st' = [st EXCEPT !.pc = "section", !.keep = FALSE, !.i = 1, !.n = Len(servers)]
    /\ UNCHANGED <<servers, gen, mutex, users, pings, intr, thrid, run, q, ctl, boot, asked, spent>>

(* A usual section, or the first part for one with undiscovered root servers.
   Pings wait until after discovery; other tests come first. *)
StSection ==
    /\ InSt("section") /\ st.i <= st.n /\ st.i <= Len(servers)
    /\ LET all  == DOMAIN Sp.at
           s    == [st EXCEPT !.g = gen, !.freed = FALSE]
           some == IF Sp.interval > 0 THEN all # {}
                   ELSE \E j \in all : Sp.at[j].up \/ Sp.at[j].due
       IN  \/ /\ Sp.root = 1
              /\ st' = [s EXCEPT !.pc = "tests"] /\ UNCHANGED <<servers, run>>
           \/ /\ Sp.root = 2 /\ ~Sp.ok
              /\ servers' = [servers EXCEPT ![st.i].at = SetDue(@, all, FALSE)]
              /\ st' = NextSection(Keep(needs_intermittent_testing(Sp))) /\ UNCHANGED run
           \/ /\ Sp.root = 2 /\ Sp.ok /\ Pinging(Sp)
              /\ servers' = IF Sp.interval > 0 THEN servers
                            ELSE [servers EXCEPT ![st.i].at = SetDue(@, all, FALSE)]
              /\ st' = IF some THEN [s EXCEPT !.pc = "resolve"]
                       ELSE NextSection(Keep(needs_intermittent_testing(Sp)))
              /\ UNCHANGED run
           \/ /\ Sp.root = 2 /\ Sp.ok /\ ~Pinging(Sp)
              /\ Retest("st", st.i, 0)
              /\ st' = [s EXCEPT !.pc = "retested"]
    /\ UNCHANGED <<gen, mutex, users, pings, intr, flag, thrid, q, ctl, boot, asked, spent>>

StRetested ==
    /\ InSt("retested")
    /\ st' = IF \E j \in DOMAIN Sp.at : Sp.at[j].up THEN [st EXCEPT !.pc = "resolve"]
             ELSE NextSection(Keep(needs_intermittent_testing(Sp)))
    /\ UNCHANGED <<servers, gen, mutex, users, pings, intr, flag, thrid, run, q, ctl, boot, asked, spent>>

(* resolv_rootserver_addrs queries the network without the mutex. *)
StResolve ==
    /\ InSt("resolve")
    /\ users' = users + 1 /\ mutex' = "free"
    /\ st' = [st EXCEPT !.pc = "resolving"]
    /\ UNCHANGED <<servers, gen, pings, intr, flag, thrid, run, q, ctl, boot, asked, spent>>

StResolved(found) ==
    /\ st.pc = "resolving" /\ mutex = "free"
    /\ users' = users - 1 /\ mutex' = "st"
    /\ st' = IF found THEN [st EXCEPT !.pc = "await"] ELSE NextSection(Keep(Sp.at # << >>))
    /\ UNCHANGED <<servers, gen, pings, intr, flag, thrid, run, q, ctl, boot, asked, spent>>

(* Wait until nobody uses the table.  After 60 seconds the addresses found are
   freed and the inner loop, not the outer one, goes on. *)
StAwait ==
    /\ InSt("await") /\ users > 0
    /\ mutex' = "free"
    /\ st' = [st EXCEPT !.pc = "awaiting"]
    /\ UNCHANGED <<servers, gen, users, pings, intr, flag, thrid, run, q, ctl, boot, asked, spent>>

StAwake(timedout) ==
    /\ st.pc = "awaiting" /\ mutex = "free"
    /\ IF timedout THEN spent.timeouts < MaxTimeouts /\ ~st.freed ELSE users = 0
    /\ mutex' = "st"
    /\ st' = IF timedout THEN [st EXCEPT !.pc = "await", !.freed = TRUE, !.keep = TRUE]
             ELSE [st EXCEPT !.pc = "await"]
    /\ spent' = IF timedout THEN [spent EXCEPT !.timeouts = @ + 1] ELSE spent
    /\ UNCHANGED <<servers, gen, users, pings, intr, flag, thrid, run, q, ctl, boot, asked>>

(* Set the addresses found.  When the table was replaced meanwhile, or the
   addresses were freed, memory that was freed is used: the process may crash
   or go on, with the new table unchanged or with any addresses. *)
Sane == st.g = gen /\ ~st.freed
Discovered(sp, as) == [sp EXCEPT !.root = 1,
    !.at = [j \in DOMAIN as |-> [a |-> as[j], up |-> sp.preset, due |-> sp.interval >= 0]]]

StSetRoot(as) ==
    /\ InSt("await") /\ users = 0 /\ st.g = gen
    /\ ~st.freed => as = RootAddresses
    /\ servers' = [servers EXCEPT ![st.i] = Discovered(@, as)]
    /\ st' = [st EXCEPT !.pc = "tests"]
    /\ UNCHANGED <<gen, mutex, users, pings, intr, flag, thrid, run, q, ctl, boot, asked, spent>>

(* The allocation of the new array fails. *)
StNoMemory ==
    /\ InSt("await") /\ users = 0 /\ spent.fails < MaxFails
    /\ st' = NextSection(Keep(TRUE))
    /\ spent' = [spent EXCEPT !.fails = @ + 1]
    /\ UNCHANGED <<servers, gen, mutex, users, pings, intr, flag, thrid, run, q, ctl, boot, asked>>

StStaleRoot(keep) ==
    /\ InSt("await") /\ users = 0 /\ st.g # gen
    /\ \/ st.i <= Len(servers) /\ Retest("st", st.i, 0)
       \/ UNCHANGED <<servers, run>>
    /\ st' = NextSection(Keep(keep)) /\ boot' = "hurt"
    /\ UNCHANGED <<gen, mutex, users, pings, intr, flag, thrid, q, ctl, asked, spent>>

StBeyond ==     \* sections counted before the table was replaced
    /\ InSt("section") /\ st.i <= st.n /\ st.i > Len(servers)
    /\ st' = NextSection(st)
    /\ UNCHANGED <<servers, gen, mutex, users, pings, intr, flag, thrid, run, q, ctl, boot, asked, spent>>

UndefinedCrash ==
    /\ \/ InSt("await") /\ ~Sane
       \/ InSt("section") /\ st.i <= st.n /\ st.i > Len(servers)
    /\ boot' = "crashed"
    /\ UNCHANGED <<servers, gen, mutex, users, pings, intr, flag, thrid, st, run, q, ctl, asked, spent>>

(* Mutant: a section tested together does not keep the thread. *)
StTests_ForgetsKeep ==
    /\ InSt("tests")
    /\ IF \E j \in DOMAIN Sp.at : ~Sp.at[j].due
       THEN /\ st' = [Keep(needs_intermittent_testing(Sp)) EXCEPT !.pc = "each", !.j = 1]
            /\ UNCHANGED <<servers, run>>
       ELSE /\ IF intr THEN UNCHANGED <<servers, run>> ELSE Retest("st", st.i, 0)
            /\ st' = NextSection(st)
    /\ UNCHANGED <<gen, mutex, users, pings, intr, flag, thrid, q, ctl, boot, asked, spent>>

(* Test the addresses together, or one by one if some have a time stamp. *)
StTests ==
    /\ InSt("tests")
    /\ IF \E j \in DOMAIN Sp.at : ~Sp.at[j].due
       THEN /\ st' = [Keep(needs_testing(Sp)) EXCEPT !.pc = "each", !.j = 1]
            /\ UNCHANGED <<servers, run>>
       ELSE /\ IF intr THEN UNCHANGED <<servers, run>> ELSE Retest("st", st.i, 0)
            /\ st' = NextSection(Keep(needs_testing(Sp)))
    /\ UNCHANGED <<gen, mutex, users, pings, intr, flag, thrid, q, ctl, boot, asked, spent>>

(* Mutant: a time stamp of 0 is no reason to test. *)
StEach_OnlyElapsed(elapsed) ==
    /\ InSt("each")
    /\ IF intr \/ st.j > Len(Sp.at)
       THEN st' = NextSection(st) /\ UNCHANGED <<servers, run>>
       ELSE /\ st' = [st EXCEPT !.j = @ + 1]
            /\ IF needs_intermittent_testing(Sp) /\ elapsed
               THEN Retest("st", st.i, st.j) ELSE UNCHANGED <<servers, run>>
    /\ UNCHANGED <<gen, mutex, users, pings, intr, flag, thrid, q, ctl, boot, asked, spent>>

StEach(elapsed) ==
    /\ InSt("each")
    /\ IF intr \/ st.j > Len(Sp.at)
       THEN st' = NextSection(st) /\ UNCHANGED <<servers, run>>
       ELSE /\ st' = [st EXCEPT !.j = @ + 1]
            /\ IF Sp.at[st.j].due \/ (needs_intermittent_testing(Sp) /\ elapsed)
               THEN Retest("st", st.i, st.j) ELSE UNCHANGED <<servers, run>>
    /\ UNCHANGED <<gen, mutex, users, pings, intr, flag, thrid, q, ctl, boot, asked, spent>>

(* Mutant: the interrupt is not taken back. *)
StScanned_KeepsIntr ==
    /\ InSt("section") /\ st.i > st.n
    /\ IF ~intr /\ flag
       THEN st' = [st EXCEPT !.pc = "pass"] /\ UNCHANGED <<mutex, thrid>>
       ELSE /\ mutex' = "free"
            /\ st' = IF st.keep THEN [st EXCEPT !.pc = "sleep"] ELSE Off
            /\ thrid' = IF st.keep THEN thrid ELSE "main"
    /\ UNCHANGED <<servers, gen, users, pings, intr, flag, run, q, ctl, boot, asked, spent>>

(* The end of a scan: once more, exit, or sleep. *)
StScanned ==
    /\ InSt("section") /\ st.i > st.n
    /\ IF ~intr /\ flag
       THEN st' = [st EXCEPT !.pc = "pass"] /\ UNCHANGED <<mutex, intr, thrid>>
       ELSE /\ intr' = FALSE
            /\ mutex' = "free"
            /\ st' = IF st.keep THEN [st EXCEPT !.pc = "sleep"] ELSE Off
            /\ thrid' = IF st.keep THEN thrid ELSE "main"
    /\ UNCHANGED <<servers, gen, users, pings, flag, run, q, ctl, boot, asked, spent>>

(* The wait is bounded, so that a signal only shortens it. *)
StWake ==
    /\ st.pc = "sleep" /\ mutex = "free"
    /\ mutex' = "st"
    /\ st' = [st EXCEPT !.pc = "pass"]
    /\ UNCHANGED <<servers, gen, users, pings, intr, flag, thrid, run, q, ctl, boot, asked, spent>>

------------------------------------------------------------------------------
(* Starting or waking the thread, by whoever holds the mutex *)

StartThread(ok) ==
    IF ok THEN /\ thrid' = "stt" /\ st' = [Off EXCEPT !.pc = "lock"] /\ UNCHANGED spent
    ELSE /\ spent.fails < MaxFails /\ spent' = [spent EXCEPT !.fails = @ + 1]
         /\ UNCHANGED <<thrid, st>>

SignalTest(wanted, ok) ==
    IF ~wanted THEN ok /\ UNCHANGED <<thrid, st, flag, spent>>
    ELSE IF thrid = "main" THEN StartThread(ok) /\ UNCHANGED flag
    ELSE ok /\ flag' = TRUE /\ UNCHANGED <<thrid, st, spent>>

(* exclusive_unlock_server_data(1) signals, but does not set retest_flag. *)
SignalReload(ok) ==
    IF thrid = "main" THEN StartThread(ok) ELSE ok /\ UNCHANGED <<thrid, st, spent>>

(* main creates the thread without the mutex and then stores its id. *)
BootCreate ==
    /\ boot = "create"
    /\ st' = [Off EXCEPT !.pc = "lock"] /\ boot' = "setid"
    /\ UNCHANGED <<servers, gen, mutex, users, pings, intr, flag, thrid, run, q, ctl, asked, spent>>

BootCreateFails ==
    /\ boot = "create" /\ spent.fails < MaxFails
    /\ boot' = "up" /\ spent' = [spent EXCEPT !.fails = @ + 1]
    /\ UNCHANGED <<servers, gen, mutex, users, pings, intr, flag, thrid, st, run, q, ctl, asked>>

BootSetId ==
    /\ boot = "setid"
    /\ thrid' = "stt" /\ boot' = "up"
    /\ UNCHANGED <<servers, gen, mutex, users, pings, intr, flag, st, run, q, ctl, asked, spent>>

------------------------------------------------------------------------------
(* The control thread *)

Up == boot \in {"up", "hurt"}
Ready == Up /\ mutex = "free" /\ ctl.pc = "idle" /\ ctl.n < MaxCmds
Took(pc) == [ctl EXCEPT !.pc = pc, !.n = @ + 1]
Idle == [ctl EXCEPT !.pc = "idle", !.i = 0, !.as = << >>, !.up = 0, !.table = << >>]

(* Addresses marked up (1), down (0) or to be tested again (-1). *)
Marked(at, up) == [j \in DOMAIN at |->
    IF up >= 0 THEN [a |-> at[j].a, up |-> (up = 1), due |-> FALSE]
    ELSE [at[j] EXCEPT !.due = TRUE]]

mark_servers(I, up, ok) ==
    /\ Ready
    /\ servers' = [i \in DOMAIN servers |->
           IF i \in I THEN [servers[i] EXCEPT !.at = Marked(@, up)] ELSE servers[i]]
    /\ SignalTest(\E i \in I : LET sp == servers[i] IN
                      \/ sp.at # << >> /\ sp.root = 2 /\ up > 0
                      \/ up < 0 /\ \E j \in DOMAIN sp.at : ~sp.at[j].due, ok)
    /\ ctl' = Took("idle")
    /\ UNCHANGED <<gen, mutex, users, pings, intr, run, q, boot, asked>>

(* Exclusive access: interrupt pings of the status thread and wait until
   there is no user, for at most 60 seconds. *)
Interrupt == intr' = (intr \/ (pings > 0 /\ thrid = "stt"))

(* change_servers sets the addresses of one section, in place if they are the
   same and else with exclusive access.  It also ends root server discovery. *)
Differs(sp, as) == as # [j \in DOMAIN sp.at |-> sp.at[j].a] \/ sp.root = 2

ApplyChange(i, as, up, change, ok) ==
    LET sp    == servers[i]
        fresh == [j \in DOMAIN as |-> [a |-> as[j], up |-> sp.preset, due |-> FALSE]]
        base  == IF change THEN fresh ELSE sp.at
    IN  /\ servers' = [servers EXCEPT ![i] = [sp EXCEPT !.at = Marked(base, up),
                                                        !.root = IF change THEN 1 ELSE @]]
        /\ SignalTest(up < 0 /\ \E j \in DOMAIN base : ~base[j].due, ok)

change_servers(i, as, up, ok) ==
    /\ Ready
    /\ IF ~Differs(servers[i], as) \/ users = 0
       THEN /\ ApplyChange(i, as, up, Differs(servers[i], as), ok)
            /\ ctl' = Took("idle") /\ UNCHANGED intr
       ELSE /\ ok /\ Interrupt
            /\ ctl' = [Took("change") EXCEPT !.i = i, !.as = as, !.up = up]
            /\ UNCHANGED <<servers, flag, thrid, st, spent>>
    /\ UNCHANGED <<gen, mutex, users, pings, run, q, boot, asked>>

ChangeDone(ok) ==
    /\ ctl.pc = "change" /\ mutex = "free" /\ users = 0
    /\ ApplyChange(ctl.i, ctl.as, ctl.up, TRUE, ok)
    /\ ctl' = Idle
    /\ UNCHANGED <<gen, mutex, users, pings, intr, run, q, boot, asked>>

(* CTL_CONFIG: the file has been parsed into a new table, which replaces the
   old one when there is no user. *)
Replace(table, ok) ==
    /\ servers' = table /\ gen' = gen + 1
    /\ SignalReload(ok)

reload_config_file(table, ok) ==
    /\ Ready
    /\ IF users = 0
       THEN Replace(table, ok) /\ ctl' = Took("idle") /\ UNCHANGED intr
       ELSE /\ ok /\ Interrupt
            /\ ctl' = [Took("reload") EXCEPT !.table = table]
            /\ UNCHANGED <<servers, gen, thrid, st, spent>>
    /\ UNCHANGED <<mutex, users, pings, flag, run, q, boot, asked>>

(* Mutant: woken, it does not look again whether there is a user. *)
ReloadDone_NoTest(ok) ==
    /\ ctl.pc = "reload" /\ mutex = "free"
    /\ Replace(ctl.table, ok)
    /\ ctl' = Idle
    /\ UNCHANGED <<mutex, users, pings, intr, flag, run, q, boot, asked>>

ReloadDone(ok) ==
    /\ ctl.pc = "reload" /\ mutex = "free" /\ users = 0
    /\ Replace(ctl.table, ok)
    /\ ctl' = Idle
    /\ UNCHANGED <<mutex, users, pings, intr, flag, run, q, boot, asked>>

CtlTimeout ==
    /\ ctl.pc \in {"change", "reload"} /\ mutex = "free" /\ users > 0
    /\ spent.timeouts < MaxTimeouts
    /\ spent' = [spent EXCEPT !.timeouts = @ + 1]
    /\ ctl' = Idle
    /\ UNCHANGED <<servers, gen, mutex, users, pings, intr, flag, thrid, st, run, q, boot, asked>>

------------------------------------------------------------------------------
(* Query threads *)

Free(t) == Up /\ mutex = "free" /\ q[t].pc = "idle" /\ asked < MaxAsked
Asks(t, pc) == /\ q' = [q EXCEPT ![t] = [pc |-> pc, i |-> 1, sig |-> FALSE]]
               /\ asked' = asked + 1

(* lock_server_data and unlock_server_data around reading the table *)
lock_server_data(t) ==
    /\ Free(t) /\ Asks(t, "using")
    /\ users' = users + 1
    /\ UNCHANGED <<servers, gen, mutex, pings, intr, flag, thrid, st, run, ctl, boot, spent>>

unlock_server_data(t) ==
    /\ q[t].pc = "using" /\ mutex = "free"
    /\ users' = users - 1
    /\ q' = [q EXCEPT ![t].pc = "idle"]
    /\ UNCHANGED <<servers, gen, mutex, pings, intr, flag, thrid, st, run, ctl, boot, asked, spent>>

(* The outcome of a query marks its server, or asks for a test.  Only servers
   that need testing are reported, perhaps after a reload. *)
Reported == {a \in UNION {{sp.at[j].a : j \in DOMAIN sp.at} :
                             sp \in UNION {{tb[i] : i \in DOMAIN tb} : tb \in Tables \union {Table0}}} :
                \E tb \in Tables \union {Table0} : \E i \in DOMAIN tb :
                    needs_testing(tb[i]) /\ \E j \in DOMAIN tb[i].at : tb[i].at[j].a = a}

sched_server_test(t, a, up) ==
    /\ Free(t) /\ Asks(t, "idle")
    /\ servers' = [i \in DOMAIN servers |-> [servers[i] EXCEPT !.at =
           [j \in DOMAIN @ |-> IF @[j].a = a THEN Marked(<<@[j]>>, up)[1] ELSE @[j]]]]
    /\ UNCHANGED <<gen, mutex, users, pings, intr, flag, thrid, st, run, ctl, boot, spent>>

(* test_onquery scans the table with the mutex, tests what has the interval
   onquery and leaves root server discovery to the status thread. *)
test_onquery(t) ==
    /\ Free(t) /\ Asks(t, "scan")
    /\ \E i \in DOMAIN servers : servers[i].interval = -1
    /\ mutex' = t
    /\ UNCHANGED <<servers, gen, users, pings, intr, flag, thrid, st, run, ctl, boot, spent>>

OnQuerySection(t) ==
    /\ mutex = t /\ q[t].pc = "scan" /\ ~run[t].on
    /\ q[t].i <= Len(servers)
    /\ LET i == q[t].i  sp == servers[i] IN
           \/ /\ sp.interval # -1 /\ UNCHANGED <<servers, run>>
              /\ q' = [q EXCEPT ![t].i = @ + 1]
           \/ /\ sp.interval = -1 /\ sp.root = 1 /\ Retest(t, i, 0)
              /\ q' = [q EXCEPT ![t].i = @ + 1]
           \/ /\ sp.interval = -1 /\ sp.root = 2 /\ UNCHANGED run
              /\ servers' = [servers EXCEPT ![i].at = SetDue(@, DOMAIN @, TRUE)]
              /\ q' = [q EXCEPT ![t].i = @ + 1, ![t].sig = TRUE]
    /\ UNCHANGED <<gen, mutex, users, pings, intr, flag, thrid, st, ctl, boot, asked, spent>>

OnQueryEnd(t, ok) ==
    /\ mutex = t /\ q[t].pc = "scan" /\ ~run[t].on
    /\ q[t].i > Len(servers)
    /\ SignalTest(q[t].sig, ok)
    /\ q' = [q EXCEPT ![t] = [pc |-> "idle", i |-> 1, sig |-> FALSE]]
    /\ mutex' = "free"
    /\ UNCHANGED <<servers, gen, users, pings, intr, run, ctl, boot, asked>>

------------------------------------------------------------------------------

Init ==
    /\ servers = Table0 /\ gen = 0
    /\ mutex = "free" /\ users = 0 /\ pings = 0
    /\ intr = FALSE /\ flag = FALSE
    /\ thrid = "main" /\ st = Off
    /\ run = [t \in T |-> NoRun]
    /\ q = [t \in Q |-> [pc |-> "idle", i |-> 1, sig |-> FALSE]]
    /\ ctl = [pc |-> "idle", n |-> 0, i |-> 0, as |-> << >>, up |-> 0, table |-> << >>]
    /\ boot = "create" /\ asked = 0
    /\ spent = [timeouts |-> 0, fails |-> 0]

StatusThread ==
    \/ StLock \/ StPass \/ StSection \/ StRetested \/ StResolve
    \/ \E b \in BOOLEAN : StResolved(b) \/ StAwake(b) \/ StStaleRoot(b) \/ StEach(b)
    \/ StAwait \/ StNoMemory \/ StBeyond \/ StTests \/ StScanned \/ StWake
    \/ \E as \in Addresses \union {RootAddresses} : StSetRoot(as)
Uptests(t) == UptestBegin(t) \/ \E b \in BOOLEAN : UptestEnd(t, b)
OnQuery(t) == OnQuerySection(t) \/ \E ok \in BOOLEAN : OnQueryEnd(t, ok)
Control ==
    \/ \E i \in DOMAIN servers, up \in {-1, 0, 1}, ok \in BOOLEAN :
           mark_servers({i}, up, ok) \/ mark_servers(DOMAIN servers, up, ok)
    \/ \E i \in DOMAIN servers, as \in Addresses, up \in {-1, 0, 1}, ok \in BOOLEAN :
           change_servers(i, as, up, ok)
    \/ \E tb \in Tables, ok \in BOOLEAN : reload_config_file(tb, ok)
    \/ CtlTimeout
ControlDone == \E ok \in BOOLEAN : ChangeDone(ok) \/ ReloadDone(ok)

Next ==
    /\ boot # "crashed"
    /\ \/ BootCreate \/ BootCreateFails \/ BootSetId \/ UndefinedCrash
       \/ StatusThread \/ Control \/ ControlDone
       \/ \E t \in T : Uptests(t)
       \/ \E t \in Q : \/ OnQuery(t) \/ test_onquery(t)
                       \/ lock_server_data(t) \/ unlock_server_data(t)
                       \/ \E a \in Reported, up \in {-1, 0, 1} : sched_server_test(t, a, up)

(* The scheduler runs every thread that can go on, tests and discovery end,
   and the timed wait of the status thread is bounded. *)
Fairness ==
    /\ WF_vars(boot # "crashed" /\ (BootCreate \/ BootSetId))
    /\ WF_vars(boot # "crashed" /\ StatusThread)
    /\ \A t \in T : WF_vars(boot # "crashed" /\ Uptests(t))
    /\ \A t \in Q : WF_vars(boot # "crashed" /\ (OnQuery(t) \/ unlock_server_data(t)))

Spec == Init /\ [][Next]_vars /\ Fairness

------------------------------------------------------------------------------
(* Properties *)

B(b) == IF b THEN 1 ELSE 0
Scanning == {"pass", "section", "retested", "resolve", "resolving", "await",
             "awaiting", "tests", "each"}

TypeOK ==
    /\ mutex \in T \union {"free"}
    /\ users \in Nat /\ pings \in Nat /\ intr \in BOOLEAN /\ flag \in BOOLEAN
    /\ thrid \in {"main", "stt"}
    /\ st.pc \in Scanning \union {"off", "lock", "sleep"}
    /\ ctl.pc \in {"idle", "change", "reload"}
    /\ \A t \in Q : q[t].pc \in {"idle", "using", "scan"}

(* server_data_users counts exactly the threads that rely on the table without
   the mutex, and server_status_ping the ping that may be interrupted; an
   interrupt, a timeout or a failed start leaks no count. *)
UsersExact ==
    /\ users = Cardinality({t \in T : run[t].out}) + B(st.pc = "resolving")
               + Cardinality({t \in Q : q[t].pc = "using"})
    /\ pings = B(run["st"].out /\ run["st"].counted)

(* While anybody counts as a user no thread replaces the table, a section's
   addresses or its kind: pointers into it stay good without the mutex. *)
Shape == <<gen, [i \in DOMAIN servers |->
             <<servers[i].root, [j \in DOMAIN servers[i].at |-> servers[i].at[j].a]>>]>>
TableStable == [][users > 0 => Shape' = Shape]_vars

(* A signal sent to cut a round of pings short is spent in that round: it can
   not end a later one before it begins. *)
InterruptSpent == intr => st.pc \in Scanning

(* The three counters and flags by which threads keep out of each other's way
   are exact: users, pings and the interrupt. *)
AccessExact == TypeOK /\ UsersExact /\ InterruptSpent

(* There is never a second server status thread. *)
OneThread == [][st'.pc = "lock" /\ st.pc # "lock" => st.pc = "off"]_vars

(* The thread gives up only when no section is left that it has to test at
   intervals, and none of the usual sections needs it in another way, however the
   table changed while it scanned.  With two sections of undiscovered root
   servers, change_servers may make one usual after the scan has passed it. *)
OneUndiscovered(tb) == \A i, j \in DOMAIN tb : tb[i].root = 2 /\ tb[j].root = 2 => i = j
NeededThread ==
    [][st.pc # "off" /\ st'.pc = "off" /\ boot # "hurt"
       => \A i \in DOMAIN servers :
            /\ ~needs_intermittent_testing(servers[i])
            /\ (\A tb \in Tables \union {Table0} : OneUndiscovered(tb)) /\ servers[i].root = 1
                 => ~needs_testing(servers[i])]_vars

(* There is one status thread as long as one is needed, though its id is read and
   written by threads that start one, signal it or end. (servstat_thrid) *)
ThreadAsNeeded == OneThread /\ NeededThread

(* A test that is due in a section that needs testing is done, or the server
   marked, or the section replaced, unless the thread could not be created or
   its id was lost (BootSetId after the thread has ended). *)
Due(i, j) ==
    /\ i \in DOMAIN servers /\ j \in DOMAIN servers[i].at
    /\ servers[i].at[j].due /\ servers[i].root = 1 /\ needs_testing(servers[i])
Lost == boot \in {"crashed", "hurt"} \/ (st.pc = "off" /\ thrid = "stt") \/ spent.fails > 0
DueTested == \A i, j \in 1..2 : Due(i, j) /\ ~Lost ~> ~Due(i, j) \/ Lost

==============================================================================
