-------------------------- MODULE ServerStatusProofs --------------------------
(***************************************************************************)
(* The counters and flags that guard the table of servers are exact, the   *)
(* table keeps its shape while anybody uses it, and the status thread ends *)
(* only when no section needs it: for every table, every number of query   *)
(* threads and every sequence of commands.  The invariant and the steps of *)
(* the status thread are in StatusThreadProofs.                            *)
(***************************************************************************)
EXTENDS StatusThreadProofs

------------------------------------------------------------------------------
(* The test of an address *)

LEMMA Unmoved ==
    ASSUME Inv, UNCHANGED <<servers, gen, st, ctl, boot, thrid, intr, q>>
    PROVE  Places' /\ Booted' /\ InterruptSpent' /\ TableMoves
  <1>1. Types /\ Places /\ Booted /\ InterruptSpent BY Zenon DEF Inv
  <1>2. Places' BY <1>1, Zenon DEF Places
  <1>3. Booted' BY <1>1, Zenon DEF Booted
  <1>4. InterruptSpent' BY <1>1, Zenon DEF InterruptSpent
  <1>5. QED BY <1>1, <1>2, <1>3, <1>4, SameMoves, Zenon

LEMMA UptestBeginKeeps == ASSUME Inv, NEW t \in T, UptestBegin(t) PROVE Kept /\ StKept
  <1>1. Types /\ UsersSum /\ PingsSum /\ Mutexes BY Halves, Zenon DEF Inv
  <1>2. /\ run \in [T -> Runs] /\ users \in Nat /\ pings \in Nat BY <1>1, Zenon DEF Types
  <1> DEFINE counted == Pinging(servers[run[t].i]) /\ t = "st" /\ thrid = "stt"
  <1>3. /\ mutex = t /\ run[t].on /\ users' = users + 1 /\ mutex' = "free"
        /\ run' = [run EXCEPT ![t].out = TRUE, ![t].counted = counted]
        /\ pings' = IF counted THEN pings + 1 ELSE pings
        /\ UNCHANGED <<servers, gen, intr, flag, thrid, st, q, ctl, boot>>
    BY Zenon DEF UptestBegin
  <1>4. counted \in BOOLEAN /\ (counted => t = "st") BY Zenon DEF Pinging
  <1> HIDE DEF counted
  <1>5. /\ run' \in [T -> Runs] /\ \A x \in T \ {t} : run'[x] = run[x]
        /\ run'[t].on /\ run'[t].out /\ run'[t].counted = counted /\ run'[t].i = run[t].i
    <2>1. run[t] \in Runs BY <1>2, Zenon
    <2>2. run' = [run EXCEPT ![t] = [run[t] EXCEPT !.out = TRUE, !.counted = counted]] BY <1>2, <1>3, Zenon
    <2> DEFINE r == [run[t] EXCEPT !.out = TRUE, !.counted = counted]
    <2>3. TRUE \in BOOLEAN BY Zenon
    <2>4. r \in Runs /\ r.on = run[t].on /\ r.out = TRUE /\ r.counted = counted /\ r.i = run[t].i
      BY <1>4, <2>1, <2>3, Zenon DEF Runs
    <2> HIDE DEF r
    <2>5. run' = [run EXCEPT ![t] = r] BY <2>2, Zenon DEF r
    <2>6. QED BY <1>2, <1>3, <2>4, <2>5, Zenon
  <1>6. ~run[t].out BY <1>1, <1>3, Zenon DEF Mutexes
  <1>7. pings' \in Nat BY <1>2, <1>3
  <1>8. Types' BY <1>1, <1>2, <1>3, <1>5, <1>7, Others DEF Types
  <1>9. UsersSum'
    <2>1. \A x \in T : run'[x].out <=> run[x].out \/ x = t BY <1>5, Zenon
    <2>2. SameUsing /\ SameResolving BY <1>3, Zenon DEF SameUsing, SameResolving
    <2>3. users' = users + 1 + 0 + 0 BY <1>2, <1>3
    <2>4. Cardinality(Out)' = Cardinality(Out) + 1 BY <1>6, <2>1, OutMoves, Zenon
    <2>5. B(st.pc = "resolving")' = B(st.pc = "resolving") + 0 BY <2>2, ResolvingMoves, Zenon
    <2>6. Cardinality(Using)' = Cardinality(Using) + 0 BY <2>2, UsingMoves, Zenon
    <2>7. QED BY <1>1, <2>3, <2>4, <2>5, <2>6, SumMoves
  <1>10. PingsSum'
    <2>1. CASE t = "st"
      <3>1. pings = 0 BY <1>1, <1>6, <2>1, Zenon DEF PingsSum, B
      <3>2. QED BY <1>3, <1>4, <1>5, <2>1, <3>1 DEF PingsSum, B
    <2>2. CASE t # "st"
      <3>1. run'["st"] = run["st"] /\ pings' = pings BY <1>3, <1>4, <1>5, <2>2, Others, Zenon
      <3>2. QED BY <1>1, <3>1, Zenon DEF PingsSum
    <2>3. QED BY <2>1, <2>2, Zenon
  <1>11. UsersExact' BY <1>9, <1>10, Zenon DEF UsersExact, UsersSum, PingsSum, Out, Using
  <1>12. Mutexes'
    <2>1. \A x \in T : run'[x].out => run'[x].on /\ mutex' # x BY <1>1, <1>3, <1>5, Others, Zenon DEF Mutexes
    <2>2. \A x \in T : run'[x].on => run'[x].out /\ run'[x].i \in DOMAIN servers'
      BY <1>1, <1>3, <1>5, Zenon DEF Mutexes
    <2>3. \A x \in T : run'[x].on = run[x].on
      <3>1. run[t].on \in BOOLEAN /\ run'[t].on \in BOOLEAN BY <1>2, <1>5, Zenon DEF Runs
      <3>2. QED BY <1>3, <1>5, <3>1, Zenon
    <2>4. \A x \in Q : (run'[x].on \/ mutex' = x => q'[x].pc = "scan") /\ ~run'[x].counted
      <3>1. ASSUME NEW x \in Q PROVE (run'[x].on \/ mutex' = x => q'[x].pc = "scan") /\ ~run'[x].counted
        <4>1. x \in T /\ x # "st" /\ x # "free" BY Others, Zenon
        <4>2. run'[x].on = run[x].on BY <2>3, <4>1, Zenon
        <4>3. ~run'[x].counted BY <1>1, <1>4, <1>5, <4>1, Zenon DEF Mutexes
        <4>4. QED BY <1>1, <1>3, <4>1, <4>2, <4>3, Zenon DEF Mutexes
      <3>2. QED BY <3>1, Zenon
    <2>5. run'["st"].on => st'.pc \in Retested BY <1>1, <1>3, <2>3, Others, Zenon DEF Mutexes
    <2>6. st'.pc \in Holding <=> mutex' = "st" \/ run'["st"].out
      <3>1. CASE t = "st" BY <1>1, <1>3, <1>5, <3>1, Zenon DEF Mutexes
      <3>2. CASE t # "st" BY <1>1, <1>3, <1>5, <3>2, Others, Zenon DEF Mutexes
      <3>3. QED BY <3>1, <3>2, Zenon
    <2>7. QED BY <2>1, <2>2, <2>4, <2>5, <2>6, Zenon DEF Mutexes
  <1>13. StKept BY <1>1, <1>3, Zenon DEF StKept, Types
  <1>14. QED BY <1>3, <1>8, <1>11, <1>12, <1>13, Unmoved, Zenon DEF Inv, Kept, StKept

(* The result of a test, noted for some of the addresses of a section. *)
LEMMA NotedAt ==
    ASSUME NEW at \in Seq(atup_t), NEW J, NEW res \in BOOLEAN, NEW b \in BOOLEAN
    PROVE  Noted(at, J, res, b) \in Seq(atup_t) /\ SameAts(at, Noted(at, J, res, b))
  <1> DEFINE f == Noted(at, J, res, b)
  <1>1. f = [j \in DOMAIN at |-> f[j]] BY Zenon DEF Noted
  <1>2. ASSUME NEW j \in DOMAIN at PROVE f[j] \in atup_t /\ f[j].a = at[j].a
    <2> DEFINE d == at[j].due /\ b
    <2>1. at[j] \in atup_t OBVIOUS
    <2>2. d \in BOOLEAN BY <2>1, Zenon DEF atup_t
    <2>3. f[j] = IF j \in J THEN [a |-> at[j].a, up |-> res, due |-> d] ELSE at[j] BY Zenon DEF Noted
    <2> HIDE DEF d, f
    <2>4. QED BY <2>1, <2>2, <2>3 DEF atup_t
  <1>3. QED BY <1>1, <1>2, Rewrite, Zenon

LEMMA UptestEndTable ==
    ASSUME Inv, NEW t \in T, NEW res \in BOOLEAN, UptestEnd(t, res)
    PROVE  SameTable(servers, servers')
  <1>1. Types /\ Mutexes BY Zenon DEF Inv
  <1>2. servers \in Seq(servparm_t) BY <1>1, Zenon DEF Types
  <1> DEFINE i == run[t].i
             at == servers[i].at
             J == IF Each(servers[i]) THEN {run[t].j} ELSE run[t].j..run[t].last
             b == intr /\ Pinging(servers[i])
             f == Noted(at, J, res, b)
  <1>3. i \in DOMAIN servers BY <1>1, Zenon DEF Mutexes, UptestEnd
  <1>4. at \in Seq(atup_t) /\ b \in BOOLEAN BY <1>1, <1>2, <1>3, AtType, Zenon DEF Types, Pinging
  <1>5. servers' = [servers EXCEPT ![i].at = f] BY Zenon DEF UptestEnd
  <1> HIDE DEF J, b
  <1>6. f \in Seq(atup_t) /\ SameAts(at, f)
    <2> HIDE DEF at
    <2>1. QED BY <1>4, NotedAt, Zenon
  <1> HIDE DEF f
  <1>7. SameTable(servers, [servers EXCEPT ![i].at = f])
    <2> HIDE DEF i
    <2>1. QED BY <1>2, <1>3, <1>6, SetAt, Zenon
  <1>8. QED BY <1>5, <1>7, Zenon

LEMMA UptestEndKeeps == ASSUME Inv, NEW t \in T, NEW res \in BOOLEAN, UptestEnd(t, res) PROVE Kept /\ StKept
  <1>1. Types /\ UsersSum /\ PingsSum /\ Mutexes /\ Places /\ Booted /\ InterruptSpent BY Halves, Zenon DEF Inv
  <1>2. run \in [T -> Runs] /\ users \in Nat /\ pings \in Nat /\ servers \in Seq(servparm_t) BY <1>1, Zenon DEF Types
  <1>3. /\ run[t].out /\ mutex = "free" /\ mutex' = t /\ users' = users - 1
        /\ pings' = IF run[t].counted THEN pings - 1 ELSE pings
        /\ UNCHANGED <<gen, intr, flag, thrid, st, q, ctl, boot>>
    BY Zenon DEF UptestEnd, UptestDone
  <1>4. SameTable(servers, servers') BY UptestEndTable, Zenon
  <1>5. servers' \in Seq(servparm_t) /\ DOMAIN servers' = DOMAIN servers BY <1>4, Zenon DEF SameTable
  <1>6. run[t].on /\ run[t].i \in DOMAIN servers BY <1>1, <1>3, Zenon DEF Mutexes
  <1>7. /\ run' \in [T -> Runs] /\ \A x \in T \ {t} : run'[x] = run[x]
        /\ run'[t].out = FALSE /\ run'[t].counted = FALSE
        /\ run'[t].on => run'[t].i \in DOMAIN servers
    <2> DEFINE m == Running(run[t].i, run[t].j + 1, run[t].last)
    <2>1. run[t] \in Runs BY <1>2, Zenon
    <2>2. m \in Runs /\ m.i = run[t].i /\ m.out = FALSE /\ m.counted = FALSE BY <2>1 DEF Running, Runs
    <2>3. NoRun \in Runs /\ NoRun.out = FALSE /\ NoRun.counted = FALSE /\ NoRun.on = FALSE BY Zenon DEF NoRun, Runs
    <2>4. run' = [run EXCEPT ![t] = m] \/ run' = [run EXCEPT ![t] = NoRun] BY Zenon DEF UptestEnd
    <2> HIDE DEF m
    <2>5. CASE run' = [run EXCEPT ![t] = m] BY <1>2, <1>6, <2>2, <2>5, Zenon
    <2>6. CASE run' = [run EXCEPT ![t] = NoRun] BY <1>2, <2>3, <2>6, Zenon
    <2>7. QED BY <2>4, <2>5, <2>6, Zenon
  <1>8. UsersSum' /\ users' \in Nat
    <2>1. \A x \in T : run'[x].out <=> run[x].out /\ x # t BY <1>7, Zenon
    <2>2. SameUsing /\ SameResolving BY <1>3, Zenon DEF SameUsing, SameResolving
    <2>3. users' = users + (-1) + 0 + 0 BY <1>2, <1>3
    <2>4. Cardinality(Out)' = Cardinality(Out) + (-1) BY <1>3, <2>1, OutMoves, Zenon
    <2>5. B(st.pc = "resolving")' = B(st.pc = "resolving") + 0 BY <2>2, ResolvingMoves, Zenon
    <2>6. Cardinality(Using)' = Cardinality(Using) + 0 BY <2>2, UsingMoves, Zenon
    <2>7. UsersSum' BY <1>1, <2>3, <2>4, <2>5, <2>6, SumMoves
    <2>8. users > 0 BY <1>1, <1>3, UserCounted, Zenon
    <2>9. QED BY <1>2, <1>3, <2>7, <2>8
  <1>9. PingsSum' /\ pings' \in Nat
    <2>1. CASE t = "st"
      <3>1. pings = B(run[t].counted) BY <1>1, <1>3, <2>1, Zenon DEF PingsSum, B
      <3>2. pings' = 0 BY <1>3, <3>1 DEF B
      <3>3. QED BY <1>7, <2>1, <3>2, Zenon DEF PingsSum, B
    <2>2. CASE t # "st"
      <3>1. ~run[t].counted BY <1>1, <2>2, Zenon DEF Mutexes, T
      <3>2. run'["st"] = run["st"] /\ pings' = pings BY <1>3, <1>7, <2>2, <3>1, Others, Zenon
      <3>3. QED BY <1>1, <1>2, <3>2, Zenon DEF PingsSum
    <2>3. QED BY <2>1, <2>2, Zenon
  <1>10. Types' BY <1>1, <1>3, <1>5, <1>7, <1>8, <1>9, Zenon DEF Types
  <1>11. UsersExact' BY <1>8, <1>9, Zenon DEF UsersExact, UsersSum, PingsSum, Out, Using
  <1>12. Mutexes'
    <2>1. \A x \in T : run'[x].out => run'[x].on /\ mutex' # x BY <1>1, <1>3, <1>7, Zenon DEF Mutexes
    <2>2. \A x \in T : run'[x].on => (mutex' = x \/ run'[x].out) /\ run'[x].i \in DOMAIN servers'
      BY <1>1, <1>3, <1>5, <1>7, Others, Zenon DEF Mutexes
    <2>3. \A x \in Q : (run'[x].on \/ mutex' = x => q'[x].pc = "scan") /\ ~run'[x].counted
      BY <1>1, <1>3, <1>6, <1>7, Others, Zenon DEF Mutexes
    <2>4. run'["st"].on => st'.pc \in Retested BY <1>1, <1>3, <1>6, <1>7, Others, Zenon DEF Mutexes
    <2>5. st'.pc \in Holding <=> mutex' = "st" \/ run'["st"].out
      <3>1. CASE t = "st" BY <1>1, <1>3, <1>7, <3>1, Zenon DEF Mutexes
      <3>2. CASE t # "st" BY <1>1, <1>3, <1>7, <3>2, Others, Zenon DEF Mutexes
      <3>3. QED BY <3>1, <3>2, Zenon
    <2>6. QED BY <2>1, <2>2, <2>3, <2>4, <2>5, Zenon DEF Mutexes
  <1>13. Places'
    <2>1. st.pc \in {"resolve", "resolving"} => servers'[st.i].at # << >>
      <3>1. ASSUME st.pc \in {"resolve", "resolving"} PROVE servers'[st.i].at # << >>
        <4>1. st.i \in DOMAIN servers /\ servers[st.i].at # << >> BY <1>1, <3>1, Zenon DEF Places, AtSection
        <4>2. servers[st.i].at \in Seq(atup_t) /\ servers'[st.i].at \in Seq(atup_t)
          BY <1>2, <1>5, <4>1, AtType, Zenon
        <4>3. DOMAIN servers[st.i].at = DOMAIN servers'[st.i].at
          BY <1>4, <4>1, Zenon DEF SameTable, SameSection, SameAts
        <4>4. QED BY <4>1, <4>2, <4>3
      <3>2. QED BY <3>1, Zenon
    <2>2. QED BY <1>1, <1>3, <1>5, <2>1, Zenon DEF Places
  <1>14. Booted' /\ InterruptSpent' BY <1>1, <1>3, Zenon DEF Booted, InterruptSpent
  <1>15. TableMoves BY <1>1, <1>3, <1>4, SameMoves, Zenon
  <1>16. StKept BY <1>1, <1>3, Zenon DEF StKept, Types
  <1>17. QED BY <1>3, <1>10, <1>11, <1>12, <1>13, <1>14, <1>15, <1>16, Zenon DEF Inv, Kept, StKept

------------------------------------------------------------------------------
(* Steps of other threads *)

LEMMA LockIs ==
    /\ [Off EXCEPT !.pc = "lock"] \in Threads
    /\ [Off EXCEPT !.pc = "lock"].pc = "lock" /\ [Off EXCEPT !.pc = "lock"].g = 0
  <1>1. Off \in Threads /\ Off.g = 0 BY Zenon DEF Off, Threads, PCs
  <1>2. "lock" \in PCs BY Zenon DEF PCs
  <1>3. QED BY <1>1, <1>2, Zenon DEF Threads

(* servstat_thrid says main only when there is no thread, so that whoever starts
   one does not start a second one. *)
LEMMA StartKeeps ==
    ASSUME Inv, Up, NEW ok \in BOOLEAN, thrid = "main", StartThread(ok)
    PROVE  StKept /\ thrid' \in {"main", "stt"} /\ (thrid' = "main" => st'.pc = "off")
  <1>1. Types /\ st.pc = "off" BY Zenon DEF Inv, Booted, Up
  <1>2. CASE thrid' = "stt" /\ st' = [Off EXCEPT !.pc = "lock"]
    <2>1. st' \in Threads /\ st'.pc = "lock" /\ st'.g = 0 BY <1>2, LockIs, Zenon
    <2>2. QED BY <1>1, <1>2, <2>1, Zenon DEF StKept
  <1>3. CASE UNCHANGED <<thrid, st>> BY <1>1, <1>3, Zenon DEF StKept, Types
  <1>4. QED BY <1>2, <1>3, Zenon DEF StartThread

LEMMA SignalKeeps ==
    ASSUME Inv, Up, NEW ok \in BOOLEAN,
           (\E w \in BOOLEAN : SignalTest(w, ok)) \/ (SignalReload(ok) /\ UNCHANGED flag)
    PROVE  StKept /\ thrid' \in {"main", "stt"} /\ (thrid' = "main" => st'.pc = "off") /\ flag' \in BOOLEAN
  <1>1. Types /\ (thrid = "main" => st.pc = "off") BY Zenon DEF Inv, Booted, Up
  <1>2. flag' \in BOOLEAN BY <1>1, Zenon DEF Types, SignalTest, SignalReload
  <1>3. CASE UNCHANGED <<thrid, st>> BY <1>1, <1>2, <1>3, Zenon DEF StKept, Types
  <1>4. CASE thrid = "main" /\ StartThread(ok) BY <1>2, <1>4, StartKeeps, Zenon
  <1>5. QED BY <1>3, <1>4, Zenon DEF SignalTest, SignalReload

LEMMA PlacesKept ==
    ASSUME Inv, TableMoves, StKept, ctl'.pc = "change" => ctl'.i \in DOMAIN servers'
    PROVE  Places'
  <1>1. Types /\ UsersSum /\ Mutexes /\ Places BY Halves, Zenon DEF Inv
  <1>2. /\ servers' \in Seq(servparm_t) /\ gen' \in Nat /\ gen <= gen'
        /\ gen' = gen => DOMAIN servers' = DOMAIN servers
        /\ gen' # gen => users = 0 /\ mutex = "free"
        /\ users > 0 => gen' = gen /\ SameTable(servers, servers')
    BY <1>1, MovedType, Zenon
  <1>3. gen \in Nat /\ st.g \in Nat /\ users \in Nat /\ servers \in Seq(servparm_t) BY <1>1, Zenon DEF Types, Threads
  <1>4. CASE st' # st
    <2>1. st'.pc = "lock" /\ st'.g = 0 BY <1>4, Zenon DEF StKept
    <2>2. QED BY <1>2, <2>1 DEF Places, Scanning, AtSection
  <1>5. CASE st' = st
    <2>1. st.pc = "resolving" => users > 0 BY <1>1, UserCounted, Zenon
    <2>2. mutex = "free" /\ st.pc \in Holding => users > 0 BY <1>1, UserCounted, Others, Zenon DEF Mutexes
    <2>3. st.pc \in AtSection => gen' = gen
      BY <1>2, <1>3, <2>1, <2>2, Zenon DEF AtSection, Holding
    <2>4. st.pc \in {"resolve", "resolving"} => SameTable(servers, servers')
      <3>1. st.pc = "resolve" => mutex = "st" BY <1>1, Others, Zenon DEF Mutexes, Holding, Retested
      <3>2. QED BY <1>2, <1>3, <2>1, <3>1, Others, Zenon DEF TableMoves, OneChanged
    <2>5. st.pc \in {"resolve", "resolving"} => servers'[st.i].at # << >>
      <3>1. ASSUME st.pc \in {"resolve", "resolving"} PROVE servers'[st.i].at # << >>
        <4>1. st.i \in DOMAIN servers /\ servers[st.i].at # << >> BY <1>1, <3>1, Zenon DEF Places, AtSection
        <4>2. DOMAIN servers' = DOMAIN servers /\ DOMAIN servers[st.i].at = DOMAIN servers'[st.i].at
          BY <2>4, <3>1, <4>1, Zenon DEF SameTable, SameSection, SameAts
        <4>3. servers[st.i].at \in Seq(atup_t) /\ servers'[st.i].at \in Seq(atup_t)
          BY <1>2, <1>3, <4>1, <4>2, AtType, Zenon
        <4>4. QED BY <4>1, <4>2, <4>3
      <3>2. QED BY <3>1, Zenon
    <2>6. st.pc \in {"await", "awaiting"} /\ st.g = gen' => gen' = gen BY <1>1, <1>2, <1>3 DEF Places
    <2>7. st.g <= gen' BY <1>1, <1>2, <1>3 DEF Places
    <2>8. QED BY <1>1, <1>2, <1>5, <2>3, <2>5, <2>6, <2>7, Zenon DEF Places
  <1>6. QED BY <1>4, <1>5, Zenon

(* The interrupt is set for a ping that is under way. *)
LEMMA InterruptKept ==
    ASSUME Inv, StKept, intr' => intr \/ pings > 0
    PROVE  InterruptSpent'
  <1>1. PingsSum /\ Mutexes /\ InterruptSpent BY Halves, Zenon DEF Inv
  <1>2. pings > 0 => run["st"].out BY <1>1 DEF PingsSum, B
  <1>3. run["st"].out => st.pc \in Scanning BY <1>1, Others, Zenon DEF Mutexes, Retested, Scanning
  <1>4. "off" \notin Scanning BY Zenon DEF Scanning
  <1>5. QED BY <1>1, <1>2, <1>3, <1>4, Zenon DEF InterruptSpent, StKept

(* A thread in retest keeps its section, whoever moves the table. *)
LEMMA RunsPlaced ==
    ASSUME Inv, TableMoves
    PROVE  \A t \in T : run[t].on => run[t].i \in DOMAIN servers'
  <1>1. Types /\ UsersSum /\ Mutexes BY Halves, Zenon DEF Inv
  <1>2. /\ gen' = gen => DOMAIN servers' = DOMAIN servers
        /\ gen' # gen => users = 0 /\ mutex = "free"
    BY <1>1, MovedType, Zenon
  <1>3. ASSUME NEW t \in T, run[t].on PROVE run[t].i \in DOMAIN servers'
    <2>1. t # "free" BY Others, Zenon
    <2>2. run[t].i \in DOMAIN servers /\ (mutex = t \/ run[t].out) BY <1>1, <1>3, Zenon DEF Mutexes
    <2>3. run[t].out => users > 0 BY <1>1, UserCounted, Zenon
    <2>4. gen' = gen BY <1>2, <2>1, <2>2, <2>3
    <2>5. QED BY <1>2, <2>2, <2>4, Zenon
  <1>4. QED BY <1>3, Zenon

LEMMA CtlStep ==
    ASSUME Inv, UNCHANGED <<mutex, users, pings, run, q>>, TableMoves, StKept,
           intr' \in BOOLEAN, intr' => intr \/ pings > 0, flag' \in BOOLEAN, thrid' \in {"main", "stt"},
           ctl' \in Controls, ctl'.pc = "change" => ctl'.i \in DOMAIN servers',
           boot' \in {"create", "setid", "up", "hurt", "crashed"}, Booted',
           boot = "hurt" => boot' \in {"hurt", "crashed"}
    PROVE  Kept /\ StKept
  <1>1. Types /\ UsersSum /\ PingsSum /\ Mutexes BY Halves, Zenon DEF Inv
  <1>2. servers' \in Seq(servparm_t) /\ gen' \in Nat BY <1>1, MovedType, Zenon
  <1>3. Types' BY <1>1, <1>2, Zenon DEF Types, StKept
  <1>4. UsersSum'
    <2>1. SameOut /\ SameUsing BY Zenon DEF SameOut, SameUsing
    <2>2. SameResolving BY Zenon DEF SameResolving, StKept
    <2>3. QED BY <1>1, <2>1, <2>2, SumSame, Zenon
  <1>5. PingsSum' BY <1>1, Zenon DEF PingsSum
  <1>6. UsersExact' BY <1>4, <1>5, Zenon DEF UsersExact, UsersSum, PingsSum, Out, Using
  <1>7. Mutexes'
    <2>1. st'.pc \in Holding <=> st.pc \in Holding BY Zenon DEF StKept, Holding
    <2>2. run["st"].on => st'.pc \in Retested BY <1>1, Zenon DEF Mutexes, StKept, Retested
    <2>3. QED BY <1>1, <2>1, <2>2, RunsPlaced, Zenon DEF Mutexes
  <1>8. Places' /\ InterruptSpent' BY PlacesKept, InterruptKept, Zenon
  <1>9. QED BY <1>3, <1>6, <1>7, <1>8, Zenon DEF Inv, Kept, StKept

LEMMA BootKeeps == ASSUME Inv, BootCreate \/ BootCreateFails \/ BootSetId \/ UndefinedCrash PROVE Kept /\ StKept
  <1>1. Types /\ Places /\ Booted BY Zenon DEF Inv
  <1>2. intr \in BOOLEAN /\ flag \in BOOLEAN /\ thrid \in {"main", "stt"} /\ ctl \in Controls /\ st \in Threads
    BY <1>1, Zenon DEF Types
  <1>3. /\ UNCHANGED <<servers, gen, mutex, users, pings, intr, flag, run, q, ctl>>
        /\ boot' \in {"setid", "up", "crashed"} /\ thrid' \in {thrid, "stt"}
    BY Zenon DEF BootCreate, BootCreateFails, BootSetId, UndefinedCrash
  <1>4. StKept /\ Booted'
    <2>1. CASE BootCreate
      <3>1. st' \in Threads /\ st'.pc = "lock" /\ st'.g = 0 BY <2>1, LockIs, Zenon DEF BootCreate
      <3>2. QED BY <1>1, <2>1, <3>1, Zenon DEF BootCreate, Booted, StKept
    <2>2. CASE BootCreateFails BY <1>1, <1>2, <2>2, Zenon DEF BootCreateFails, Booted, StKept
    <2>3. CASE BootSetId BY <1>1, <1>2, <2>3, Zenon DEF BootSetId, Booted, StKept
    <2>4. CASE UndefinedCrash BY <1>1, <1>2, <2>4, Zenon DEF UndefinedCrash, Booted, StKept
    <2>5. QED BY <2>1, <2>2, <2>3, <2>4, Zenon
  <1>5. TableMoves BY <1>1, <1>3, SameMoves, Zenon
  <1>6. ctl'.pc = "change" => ctl'.i \in DOMAIN servers' BY <1>1, <1>3, Zenon DEF Places
  <1>7. thrid' \in {"main", "stt"} /\ intr' \in BOOLEAN /\ flag' \in BOOLEAN /\ ctl' \in Controls
        /\ boot' \in {"create", "setid", "up", "hurt", "crashed"} /\ (intr' => intr \/ pings > 0) BY <1>2, <1>3, Zenon
  <1>8. boot = "hurt" => boot' = "crashed" BY Zenon DEF BootCreate, BootCreateFails, BootSetId, UndefinedCrash
  <1>9. QED BY <1>3, <1>4, <1>5, <1>6, <1>7, <1>8, CtlStep, Zenon

(* The control thread's own variables. *)
LEMMA IdleIs == ASSUME ctl \in Controls PROVE Idle \in Controls /\ Idle.pc = "idle"
  <1>1. << >> \in Seq(Hosts) /\ 0 \in Nat /\ 0 \in {-1, 0, 1} /\ "idle" \in {"idle", "change", "reload"}
        /\ << >> \in Tables \union {<< >>} OBVIOUS
  <1>2. QED BY <1>1, Zenon DEF Idle, Controls

LEMMA TookIs ==
    ASSUME ctl \in Controls, NEW p \in {"idle", "change", "reload"}
    PROVE  Took(p) \in Controls /\ Took(p).pc = p
  <1>1. ctl.n + 1 \in Nat BY DEF Controls
  <1>2. Took(p) = [ctl EXCEPT !.pc = p, !.n = ctl.n + 1] BY Zenon DEF Took
  <1>3. QED BY <1>1, <1>2, Zenon DEF Controls

(* A step of the control thread, when main has started it. *)
LEMMA ControlStep ==
    ASSUME Inv, Up, UNCHANGED <<mutex, users, pings, run, q, boot>>, TableMoves,
           StKept, thrid' \in {"main", "stt"}, thrid' = "main" => st'.pc = "off", flag' \in BOOLEAN,
           intr' = intr \/ Interrupt, ctl' \in Controls, ctl'.pc = "change" => ctl'.i \in DOMAIN servers'
    PROVE  Kept /\ StKept
  <1>1. Types BY Zenon DEF Inv
  <1>2. intr' \in BOOLEAN /\ (intr' => intr \/ pings > 0)
    <2>1. intr \in BOOLEAN BY <1>1, Zenon DEF Types
    <2>2. CASE intr' = intr BY <2>1, <2>2, Zenon
    <2>3. CASE Interrupt BY <2>3, Zenon DEF Interrupt
    <2>4. QED BY <2>2, <2>3, Zenon
  <1>3. Booted' BY Zenon DEF Booted, Up
  <1>4. boot' \in {"create", "setid", "up", "hurt", "crashed"} BY <1>1, Zenon DEF Types
  <1>5. QED BY <1>2, <1>3, <1>4, CtlStep, Zenon

LEMMA MarksTable ==
    ASSUME Types, NEW I, NEW up \in {-1, 0, 1},
           servers' = [i \in DOMAIN servers |->
               IF i \in I THEN [servers[i] EXCEPT !.at = Marked(@, up)] ELSE servers[i]]
    PROVE  SameTable(servers, servers')
  <1> DEFINE F == [i \in DOMAIN servers |-> IF i \in I THEN Marked(servers[i].at, up) ELSE servers[i].at]
             u == [i \in DOMAIN servers |-> [servers[i] EXCEPT !.at = F[i]]]
  <1>1. servers \in Seq(servparm_t) BY Zenon DEF Types
  <1>2. F = [i \in DOMAIN servers |-> F[i]] BY Zenon
  <1>3. ASSUME NEW i \in DOMAIN servers PROVE F[i] \in Seq(atup_t) /\ SameAts(servers[i].at, F[i])
    <2>1. servers[i].at \in Seq(atup_t) BY <1>1, AtType, Zenon
    <2>2. CASE i \in I
      <3>1. F[i] = Marked(servers[i].at, up) BY <2>2, Zenon
      <3> HIDE DEF F
      <3>2. QED BY <2>1, <3>1, MarkedAt, Zenon
    <2>3. CASE i \notin I
      <3>1. F[i] = servers[i].at BY <2>3, Zenon
      <3> HIDE DEF F
      <3>2. QED BY <2>1, <3>1, Zenon DEF SameAts
    <2>4. QED BY <2>2, <2>3, Zenon
  <1>4. SameTable(servers, u)
    <2> HIDE DEF F
    <2>1. QED BY <1>1, <1>2, <1>3, SetAts, Zenon
  <1>5. servers' = u
    <2>1. ASSUME NEW i \in DOMAIN servers PROVE servers'[i] = u[i]
      <3>1. servers[i] \in servparm_t BY <1>1
      <3>2. servers[i] = [servers[i] EXCEPT !.at = servers[i].at] BY <3>1, Zenon DEF servparm_t
      <3>3. u[i] = [servers[i] EXCEPT !.at = F[i]] BY Zenon
      <3>4. CASE i \in I BY <3>3, <3>4, Zenon
      <3>5. CASE i \notin I
        <4>1. F[i] = servers[i].at /\ servers'[i] = servers[i] BY <3>5, Zenon
        <4> HIDE DEF F, u
        <4>2. QED BY <3>2, <3>3, <4>1, Zenon
      <3>6. QED BY <3>4, <3>5, Zenon
    <2>2. servers' = [i \in DOMAIN servers |-> servers'[i]] BY Zenon
    <2>3. u = [i \in DOMAIN servers |-> u[i]] BY Zenon
    <2> HIDE DEF u
    <2>4. QED BY <2>1, <2>2, <2>3, Zenon
  <1>6. QED BY <1>4, <1>5, Zenon

LEMMA MarkServersKeeps ==
    ASSUME Inv, NEW I, NEW up \in {-1, 0, 1}, NEW ok \in BOOLEAN, mark_servers(I, up, ok)
    PROVE  Kept /\ StKept
  <1>1. Types /\ Places BY Zenon DEF Inv
  <1>2. ctl \in Controls BY <1>1, Zenon DEF Types
  <1>3. /\ Up /\ ctl' = Took("idle")
        /\ UNCHANGED <<gen, mutex, users, pings, intr, run, q, boot>>
    BY Zenon DEF mark_servers, Ready
  <1>4. SameTable(servers, servers') BY <1>1, MarksTable, Zenon DEF mark_servers
  <1>5. TableMoves BY <1>1, <1>3, <1>4, SameMoves, Zenon
  <1> DEFINE w == \E i \in I : LET sp == servers[i] IN
                      \/ sp.at # << >> /\ sp.root = 2 /\ up > 0
                      \/ up < 0 /\ \E j \in DOMAIN sp.at : ~sp.at[j].due
  <1>6. w \in BOOLEAN /\ SignalTest(w, ok) BY Zenon DEF mark_servers
  <1> HIDE DEF w
  <1>7. StKept /\ thrid' \in {"main", "stt"} /\ (thrid' = "main" => st'.pc = "off") /\ flag' \in BOOLEAN
    BY <1>3, <1>6, SignalKeeps, Zenon
  <1>8. ctl' \in Controls /\ ctl'.pc = "idle" BY <1>2, <1>3, TookIs, Zenon
  <1>9. QED BY <1>3, <1>5, <1>7, <1>8, ControlStep, Zenon

LEMMA ChangeTable ==
    ASSUME Types, NEW i \in DOMAIN servers, NEW hs \in Seq(Hosts), NEW up \in {-1, 0, 1},
           NEW change \in BOOLEAN, NEW ok \in BOOLEAN, mutex = "free", gen' = gen,
           change => users = 0, ApplyChange(i, hs, up, change, ok)
    PROVE  TableMoves /\ \E w \in BOOLEAN : SignalTest(w, ok)
  <1> DEFINE sp == servers[i]
             fresh == [j \in DOMAIN hs |-> [a |-> hs[j], up |-> sp.preset, due |-> FALSE]]
             base == IF change THEN fresh ELSE sp.at
             w == up < 0 /\ \E j \in DOMAIN base : ~base[j].due
             at == Marked(base, up)
             root == IF change THEN 1 ELSE sp.root
             new == [sp EXCEPT !.at = at, !.root = root]
  <1>1. servers' = [servers EXCEPT ![i] = new] /\ w \in BOOLEAN /\ SignalTest(w, ok)
    BY Zenon DEF ApplyChange
  <1>2. \E x \in BOOLEAN : SignalTest(x, ok)
    <2> HIDE DEF w
    <2>1. QED BY <1>1, Zenon
  <1>3. servers \in Seq(servparm_t) BY Zenon DEF Types
  <1>4. sp \in servparm_t /\ sp.at \in Seq(atup_t) BY <1>3, AtType, Zenon
  <1>5. sp.preset \in BOOLEAN /\ sp.root \in {1, 2} BY <1>4, Zenon DEF servparm_t
  <1>6. fresh \in Seq(atup_t)
    <2> HIDE DEF sp
    <2>1. QED BY <1>5, FreshAt, Zenon
  <1> HIDE DEF fresh
  <1>7. base \in Seq(atup_t) BY <1>4, <1>6, Zenon
  <1>8. at \in Seq(atup_t) /\ SameAts(base, at)
    <2> HIDE DEF base
    <2>1. QED BY <1>7, MarkedAt, Zenon
  <1> HIDE DEF at
  <1>9. root \in {1, 2} BY <1>5, Zenon
  <1>10. new \in servparm_t /\ SameParms(sp, new) /\ new.root = root /\ new.at = at
    <2> HIDE DEF sp, root
    <2>1. QED BY <1>4, <1>8, <1>9, Zenon DEF servparm_t, SameParms
  <1> HIDE DEF new
  <1>11. CASE change
    <2>1. new.root = 1 /\ users = 0 BY <1>10, <1>11, Zenon
    <2>2. QED BY <1>1, <1>2, <1>10, <2>1, Zenon DEF TableMoves, OneChanged
  <1>12. CASE ~change
    <2>1. SameAts(sp.at, at) /\ root = sp.root BY <1>8, <1>12, Zenon
    <2>2. SameSection(sp, new) BY <1>10, <2>1, Zenon DEF SameSection
    <2>3. SameTable(servers, servers')
      <3>1. servers' \in Seq(servparm_t) /\ DOMAIN servers' = DOMAIN servers BY <1>1, <1>3, <1>10
      <3>2. \A k \in DOMAIN servers : SameSection(servers[k], servers'[k])
        <4>1. \A k \in DOMAIN servers : SameSection(servers[k], servers[k]) BY Zenon DEF SameSection, SameParms, SameAts
        <4>2. QED BY <1>1, <1>3, <2>2, <4>1, Zenon
      <3>3. QED BY <3>1, <3>2, Zenon DEF SameTable
    <2>4. QED BY <1>2, <2>3, Zenon DEF TableMoves
  <1>13. QED BY <1>11, <1>12, Zenon

LEMMA ChangeServersKeeps ==
    ASSUME Inv, NEW i \in DOMAIN servers, NEW hs \in Addresses, NEW up \in {-1, 0, 1}, NEW ok \in BOOLEAN,
           change_servers(i, hs, up, ok)
    PROVE  Kept /\ StKept
  <1>1. Types /\ Places /\ Booted BY Zenon DEF Inv
  <1>2. /\ ctl \in Controls /\ servers \in Seq(servparm_t) /\ st \in Threads /\ flag \in BOOLEAN
        /\ thrid \in {"main", "stt"} /\ i \in Nat /\ hs \in Seq(Hosts)
    BY <1>1, TablesAssumption DEF Types
  <1>3. Up /\ mutex = "free" /\ UNCHANGED <<gen, mutex, users, pings, run, q, boot>>
    BY Zenon DEF change_servers, Ready
  <1> DEFINE differs == Differs(servers[i], hs)
  <1>4. differs \in BOOLEAN BY Zenon DEF Differs
  <1>5. \/ /\ ~differs \/ users = 0
           /\ ApplyChange(i, hs, up, differs, ok) /\ ctl' = Took("idle") /\ UNCHANGED intr
        \/ /\ Interrupt /\ ctl' = [Took("change") EXCEPT !.i = i, !.as = hs, !.up = up]
           /\ UNCHANGED <<servers, flag, thrid, st>>
    BY Zenon DEF change_servers
  <1> HIDE DEF differs
  <1>6. CASE /\ ~differs \/ users = 0
             /\ ApplyChange(i, hs, up, differs, ok) /\ ctl' = Took("idle") /\ UNCHANGED intr
    <2>1. TableMoves /\ \E w \in BOOLEAN : SignalTest(w, ok) BY <1>1, <1>2, <1>3, <1>4, <1>6, ChangeTable, Zenon
    <2>2. StKept /\ thrid' \in {"main", "stt"} /\ (thrid' = "main" => st'.pc = "off") /\ flag' \in BOOLEAN
      BY <1>3, <2>1, SignalKeeps, Zenon
    <2>3. ctl' \in Controls /\ ctl'.pc = "idle" BY <1>2, <1>6, TookIs, Zenon
    <2>4. QED BY <1>3, <1>6, <2>1, <2>2, <2>3, ControlStep, Zenon
  <1>7. CASE /\ Interrupt /\ ctl' = [Took("change") EXCEPT !.i = i, !.as = hs, !.up = up]
             /\ UNCHANGED <<servers, flag, thrid, st>>
    <2>1. TableMoves BY <1>1, <1>3, <1>7, SameMoves, Zenon
    <2>2. StKept /\ thrid' \in {"main", "stt"} /\ (thrid' = "main" => st'.pc = "off") /\ flag' \in BOOLEAN
      BY <1>1, <1>2, <1>3, <1>7, Zenon DEF StKept, Booted, Up
    <2>3. ctl' \in Controls /\ ctl'.i = i
      <3>1. Took("change") \in Controls BY <1>2, TookIs, Zenon
      <3> DEFINE c == Took("change")
      <3> HIDE DEF c
      <3>2. c \in Controls /\ ctl' = [c EXCEPT !.i = i, !.as = hs, !.up = up] BY <1>7, <3>1, Zenon DEF c
      <3>3. QED BY <1>2, <3>2, Zenon DEF Controls
    <2>4. ctl'.i \in DOMAIN servers' BY <1>7, <2>3, Zenon
    <2>5. QED BY <1>3, <1>7, <2>1, <2>2, <2>3, <2>4, ControlStep, Zenon
  <1>8. QED BY <1>5, <1>6, <1>7, Zenon

(* A command under way means that main has started the control thread. *)
LEMMA CommandUp == ASSUME Inv, boot # "crashed", ctl.pc # "idle" PROVE Up
  BY Zenon DEF Inv, Types, Booted, Up

LEMMA ChangeDoneKeeps ==
    ASSUME Inv, NEW ok \in BOOLEAN, boot # "crashed", ChangeDone(ok) PROVE Kept /\ StKept
  <1>1. Types /\ Places BY Zenon DEF Inv
  <1>2. ctl \in Controls BY <1>1, Zenon DEF Types
  <1>3. /\ ctl.pc = "change" /\ mutex = "free" /\ users = 0 /\ ctl' = Idle
        /\ ApplyChange(ctl.i, ctl.as, ctl.up, TRUE, ok)
        /\ UNCHANGED <<gen, mutex, users, pings, intr, run, q, boot>>
    BY Zenon DEF ChangeDone
  <1>4. Up BY <1>3, CommandUp, Zenon
  <1>5. ctl.i \in DOMAIN servers /\ ctl.as \in Seq(Hosts) /\ ctl.up \in {-1, 0, 1}
    BY <1>1, <1>2, <1>3, Zenon DEF Places, Controls
  <1>6. TableMoves /\ \E w \in BOOLEAN : SignalTest(w, ok) BY <1>1, <1>3, <1>5, ChangeTable, Zenon
  <1>7. StKept /\ thrid' \in {"main", "stt"} /\ (thrid' = "main" => st'.pc = "off") /\ flag' \in BOOLEAN
    BY <1>4, <1>6, SignalKeeps, Zenon
  <1>8. ctl' \in Controls /\ ctl'.pc = "idle" BY <1>2, <1>3, IdleIs, Zenon
  <1>9. QED BY <1>3, <1>4, <1>6, <1>7, <1>8, ControlStep, Zenon

LEMMA ReplaceKeeps ==
    ASSUME Inv, Up, NEW table \in Tables \union {<< >>}, NEW ok \in BOOLEAN, Replace(table, ok),
           mutex = "free", users = 0, UNCHANGED <<mutex, users, pings, intr, flag, run, q, boot>>,
           ctl' \in Controls, ctl'.pc = "idle"
    PROVE  Kept /\ StKept
  <1>1. TableMoves BY Zenon DEF Replace, TableMoves
  <1>2. StKept /\ thrid' \in {"main", "stt"} /\ (thrid' = "main" => st'.pc = "off") /\ flag' \in BOOLEAN
    BY SignalKeeps, Zenon DEF Replace
  <1>3. QED BY <1>1, <1>2, ControlStep, Zenon

LEMMA ReloadKeeps ==
    ASSUME Inv, NEW tb \in Tables, NEW ok \in BOOLEAN, reload_config_file(tb, ok) PROVE Kept /\ StKept
  <1>1. Types /\ Booted BY Zenon DEF Inv
  <1>2. ctl \in Controls /\ st \in Threads /\ flag \in BOOLEAN /\ thrid \in {"main", "stt"} BY <1>1, Zenon DEF Types
  <1>3. Up /\ mutex = "free" /\ UNCHANGED <<mutex, users, pings, flag, run, q, boot>>
    BY Zenon DEF reload_config_file, Ready
  <1>4. CASE users = 0 /\ Replace(tb, ok) /\ ctl' = Took("idle") /\ UNCHANGED intr
    <2>1. ctl' \in Controls /\ ctl'.pc = "idle" BY <1>2, <1>4, TookIs, Zenon
    <2>2. QED BY <1>3, <1>4, <2>1, ReplaceKeeps, Zenon
  <1>5. CASE /\ Interrupt /\ ctl' = [Took("reload") EXCEPT !.table = tb]
             /\ UNCHANGED <<servers, gen, thrid, st>>
    <2>1. TableMoves BY <1>1, <1>5, SameMoves, Zenon
    <2>2. StKept /\ thrid' \in {"main", "stt"} /\ (thrid' = "main" => st'.pc = "off") /\ flag' \in BOOLEAN
      BY <1>1, <1>2, <1>3, <1>5, Zenon DEF StKept, Booted, Up
    <2>3. ctl' \in Controls /\ ctl'.pc = "reload"
      <3> DEFINE c == Took("reload")
      <3>1. c \in Controls /\ c.pc = "reload" BY <1>2, TookIs, Zenon
      <3> HIDE DEF c
      <3>2. ctl' = [c EXCEPT !.table = tb] /\ tb \in Tables \union {<< >>} BY <1>5, Zenon DEF c
      <3>3. QED BY <3>1, <3>2, Zenon DEF Controls
    <2>4. QED BY <1>3, <1>5, <2>1, <2>2, <2>3, ControlStep, Zenon
  <1>6. QED BY <1>4, <1>5, Zenon DEF reload_config_file

LEMMA ReloadDoneKeeps == ASSUME Inv, NEW ok \in BOOLEAN, boot # "crashed", ReloadDone(ok) PROVE Kept /\ StKept
  <1>1. ctl \in Controls BY Zenon DEF Inv, Types
  <1>2. /\ ctl.pc = "reload" /\ mutex = "free" /\ users = 0 /\ ctl' = Idle /\ Replace(ctl.table, ok)
        /\ UNCHANGED <<mutex, users, pings, intr, flag, run, q, boot>>
    BY Zenon DEF ReloadDone
  <1>3. Up BY <1>2, CommandUp, Zenon
  <1>4. ctl' \in Controls /\ ctl'.pc = "idle" BY <1>1, <1>2, IdleIs, Zenon
  <1>5. ctl.table \in Tables \union {<< >>} BY <1>1, Zenon DEF Controls
  <1>6. QED BY <1>2, <1>3, <1>4, <1>5, ReplaceKeeps, Zenon

LEMMA CtlTimeoutKeeps == ASSUME Inv, boot # "crashed", CtlTimeout PROVE Kept /\ StKept
  <1>1. Types /\ Booted BY Zenon DEF Inv
  <1>2. ctl \in Controls /\ st \in Threads /\ flag \in BOOLEAN /\ thrid \in {"main", "stt"} BY <1>1, Zenon DEF Types
  <1>3. /\ ctl.pc # "idle" /\ ctl' = Idle
        /\ UNCHANGED <<servers, gen, mutex, users, pings, intr, flag, thrid, st, run, q, boot>>
    BY Zenon DEF CtlTimeout
  <1>4. Up BY <1>3, CommandUp, Zenon
  <1>5. ctl' \in Controls /\ ctl'.pc = "idle" BY <1>2, <1>3, IdleIs, Zenon
  <1>6. TableMoves BY <1>1, <1>3, SameMoves, Zenon
  <1>7. StKept /\ thrid' \in {"main", "stt"} /\ (thrid' = "main" => st'.pc = "off") /\ flag' \in BOOLEAN
    BY <1>1, <1>2, <1>3, <1>4, Zenon DEF StKept, Booted, Up
  <1>8. QED BY <1>3, <1>4, <1>5, <1>6, <1>7, ControlStep, Zenon

------------------------------------------------------------------------------
(* Steps of query threads *)

LEMMA QueryStep ==
    ASSUME Inv, Up, NEW t \in Q, ~run[t].on, UNCHANGED <<gen, pings, intr, ctl, boot>>,
           SameTable(servers, servers'), Started(t, run'),
           StKept, thrid' \in {"main", "stt"}, thrid' = "main" => st'.pc = "off", flag' \in BOOLEAN,
           q' \in [Q -> Queries], \A x \in Q \ {t} : q'[x] = q[x],
           users' \in Nat, UsersSum',
           mutex \in {t, "free"}, mutex' \in {t, "free"}, run' # run => mutex' = t,
           mutex' = t => q'[t].pc = "scan"
    PROVE  Kept /\ StKept
  <1>1. Types /\ PingsSum /\ Mutexes /\ Places BY Halves, Zenon DEF Inv
  <1>2. t \in T /\ t # "st" BY Others, Zenon
  <1>3. /\ run' \in [T -> Runs] /\ \A x \in T \ {t} : run'[x] = run[x]
        /\ run' # run => run'[t].on /\ ~run'[t].out /\ ~run'[t].counted /\ run'[t].i \in DOMAIN servers
    BY <1>1, <1>2, StartedRuns, Zenon
  <1>4. servers' \in Seq(servparm_t) /\ DOMAIN servers' = DOMAIN servers BY Zenon DEF SameTable
  <1>5. mutex' \in T \union {"free"} BY <1>2, Zenon
  <1>6. Types' BY <1>1, <1>3, <1>4, <1>5, Zenon DEF Types, StKept
  <1>7. run'["st"] = run["st"] BY <1>2, <1>3, Others, Zenon
  <1>8. PingsSum' BY <1>1, <1>7, Zenon DEF PingsSum
  <1>9. UsersExact' BY <1>8, Zenon DEF UsersExact, UsersSum, PingsSum, Out, Using
  <1>10. Mutexes'
    <2>1. ~run[t].out /\ ~run'[t].out BY <1>1, <1>2, <1>3, Zenon DEF Mutexes
    <2>2. \A x \in T \ {t} : mutex # x /\ mutex' # x BY Others
    <2>3. \A x \in T : run'[x].out => run'[x].on /\ mutex' # x BY <1>1, <1>3, <2>1, <2>2, Zenon DEF Mutexes
    <2>4. \A x \in T : run'[x].on => (mutex' = x \/ run'[x].out) /\ run'[x].i \in DOMAIN servers'
      BY <1>1, <1>3, <1>4, <2>2, Zenon DEF Mutexes
    <2>5. \A x \in Q : run'[x].on \/ mutex' = x => q'[x].pc = "scan"
      <3>1. ASSUME NEW x \in Q, x # t PROVE run'[x].on \/ mutex' = x => q'[x].pc = "scan"
        BY <1>1, <1>3, <2>2, <3>1, Others, Zenon DEF Mutexes
      <3>2. run'[t].on \/ mutex' = t => q'[t].pc = "scan" BY Zenon
      <3>3. QED BY <3>1, <3>2, Zenon
    <2>6. \A x \in Q : ~run'[x].counted BY <1>1, <1>3, Others, Zenon DEF Mutexes
    <2>7. st'.pc \in Holding <=> st.pc \in Holding BY Zenon DEF StKept, Holding
    <2>8. run["st"].on => st'.pc \in Retested BY <1>1, Zenon DEF Mutexes, StKept, Retested
    <2>9. QED BY <1>1, <1>2, <1>7, <2>2, <2>3, <2>4, <2>5, <2>6, <2>7, <2>8, Others, Zenon DEF Mutexes
  <1>11. TableMoves BY Zenon DEF TableMoves
  <1>12. ctl'.pc = "change" => ctl'.i \in DOMAIN servers' BY <1>1, <1>4, Zenon DEF Places
  <1>13. Places' /\ InterruptSpent' BY <1>11, <1>12, PlacesKept, InterruptKept, Zenon
  <1>14. Booted' BY Zenon DEF Booted, Up
  <1>15. QED BY <1>6, <1>9, <1>10, <1>11, <1>13, <1>14, Zenon DEF Inv, Kept, StKept

(* What a step that does not start or signal the status thread leaves alone. *)
LEMMA QuietIs ==
    ASSUME Inv, Up, UNCHANGED <<st, thrid, flag>>
    PROVE  StKept /\ thrid' \in {"main", "stt"} /\ (thrid' = "main" => st'.pc = "off") /\ flag' \in BOOLEAN
  BY Zenon DEF Inv, Types, Booted, Up, StKept

(* A query thread in a call, or with the mutex, runs in a program that is up. *)
LEMMA QueryUp == ASSUME Inv, boot # "crashed", NEW t \in Q, q[t].pc # "idle" PROVE Up
  BY Zenon DEF Inv, Types, Booted, Up

LEMMA QueryFree ==
    ASSUME Inv, NEW t \in Q, q[t].pc # "scan"
    PROVE  ~run[t].on /\ mutex # t
  BY Zenon DEF Inv, Mutexes

LEMMA AsksIs ==
    ASSUME q \in [Q -> Queries], NEW t \in Q, NEW p \in {"idle", "using", "scan"}, Asks(t, p)
    PROVE  q' \in [Q -> Queries] /\ q'[t].pc = p /\ \A x \in Q \ {t} : q'[x] = q[x]
  <1> DEFINE r == [pc |-> p, i |-> 1, sig |-> FALSE]
  <1>1. r \in Queries /\ r.pc = p BY DEF Queries
  <1>2. q' = [q EXCEPT ![t] = r] BY Zenon DEF Asks
  <1> HIDE DEF r
  <1>3. QED BY <1>1, <1>2, Zenon

LEMMA LockServerDataKeeps == ASSUME Inv, NEW t \in Q, lock_server_data(t) PROVE Kept /\ StKept
  <1>1. Types /\ UsersSum BY Halves, Zenon DEF Inv
  <1>2. q \in [Q -> Queries] /\ users \in Nat /\ servers \in Seq(servparm_t) BY <1>1, Zenon DEF Types
  <1>3. /\ Up /\ mutex = "free" /\ q[t].pc = "idle" /\ Asks(t, "using") /\ users' = users + 1
        /\ UNCHANGED <<servers, gen, mutex, pings, intr, flag, thrid, st, run, ctl, boot>>
    BY Zenon DEF lock_server_data, Free
  <1>4. q' \in [Q -> Queries] /\ q'[t].pc = "using" /\ \A x \in Q \ {t} : q'[x] = q[x]
    BY <1>2, <1>3, AsksIs, Zenon
  <1>5. UsersSum' /\ users' \in Nat
    <2>1. \A x \in Q : q'[x].pc = "using" <=> q[x].pc = "using" \/ x = t BY <1>4, Zenon
    <2>2. SameOut /\ SameResolving BY <1>3, Zenon DEF SameOut, SameResolving
    <2>3. users' = users + 0 + 0 + 1 BY <1>2, <1>3
    <2>4. Cardinality(Out)' = Cardinality(Out) + 0 BY <2>2, OutMoves, Zenon
    <2>5. B(st.pc = "resolving")' = B(st.pc = "resolving") + 0 BY <2>2, ResolvingMoves, Zenon
    <2>6. Cardinality(Using)' = Cardinality(Using) + 1 BY <1>3, <2>1, UsingMoves, Zenon
    <2>7. UsersSum' BY <1>1, <2>3, <2>4, <2>5, <2>6, SumMoves
    <2>8. QED BY <1>2, <1>3, <2>7
  <1>6. SameTable(servers, servers') /\ Started(t, run') BY <1>2, <1>3, SameRefl, Zenon DEF Started
  <1>7. ~run[t].on /\ t # "free" BY <1>3, QueryFree, Others, Zenon
  <1>8. StKept /\ thrid' \in {"main", "stt"} /\ (thrid' = "main" => st'.pc = "off") /\ flag' \in BOOLEAN
    BY <1>3, QuietIs, Zenon
  <1>9. QED BY <1>3, <1>4, <1>5, <1>6, <1>7, <1>8, QueryStep, Zenon

LEMMA UnlockServerDataKeeps == ASSUME Inv, boot # "crashed", NEW t \in Q, unlock_server_data(t) PROVE Kept /\ StKept
  <1>1. Types /\ UsersSum BY Halves, Zenon DEF Inv
  <1>2. q \in [Q -> Queries] /\ users \in Nat /\ servers \in Seq(servparm_t) BY <1>1, Zenon DEF Types
  <1>3. /\ mutex = "free" /\ q[t].pc = "using" /\ users' = users - 1 /\ q' = [q EXCEPT ![t].pc = "idle"]
        /\ UNCHANGED <<servers, gen, mutex, pings, intr, flag, thrid, st, run, ctl, boot>>
    BY Zenon DEF unlock_server_data
  <1>4. q' \in [Q -> Queries] /\ q'[t].pc = "idle" /\ \A x \in Q \ {t} : q'[x] = q[x]
    <2> DEFINE r == [q[t] EXCEPT !.pc = "idle"]
    <2>1. q[t] \in Queries BY <1>2, Zenon
    <2>2. r \in Queries /\ r.pc = "idle" BY <2>1, Zenon DEF Queries
    <2>3. q' = [q EXCEPT ![t] = r] BY <1>3, Zenon
    <2> HIDE DEF r
    <2>4. QED BY <1>2, <2>2, <2>3, Zenon
  <1>5. UsersSum' /\ users' \in Nat
    <2>1. \A x \in Q : q'[x].pc = "using" <=> q[x].pc = "using" /\ x # t BY <1>4, Zenon
    <2>2. SameOut /\ SameResolving BY <1>3, Zenon DEF SameOut, SameResolving
    <2>3. users' = users + 0 + 0 + (-1) BY <1>2, <1>3
    <2>4. Cardinality(Out)' = Cardinality(Out) + 0 BY <2>2, OutMoves, Zenon
    <2>5. B(st.pc = "resolving")' = B(st.pc = "resolving") + 0 BY <2>2, ResolvingMoves, Zenon
    <2>6. Cardinality(Using)' = Cardinality(Using) + (-1) BY <1>3, <2>1, UsingMoves, Zenon
    <2>7. UsersSum' BY <1>1, <2>3, <2>4, <2>5, <2>6, SumMoves
    <2>8. users > 0 BY <1>1, <1>3, UserCounted, Zenon
    <2>9. QED BY <1>2, <1>3, <2>7, <2>8
  <1>6. SameTable(servers, servers') /\ Started(t, run') BY <1>2, <1>3, SameRefl, Zenon DEF Started
  <1>7. ~run[t].on /\ t # "free" BY <1>3, QueryFree, Others, Zenon
  <1>8. Up BY <1>3, QueryUp, Zenon
  <1>9. StKept /\ thrid' \in {"main", "stt"} /\ (thrid' = "main" => st'.pc = "off") /\ flag' \in BOOLEAN
    BY <1>3, <1>8, QuietIs, Zenon
  <1>10. QED BY <1>3, <1>4, <1>5, <1>6, <1>7, <1>8, <1>9, QueryStep, Zenon

LEMMA SchedTable ==
    ASSUME Types, NEW a, NEW up \in {-1, 0, 1},
           servers' = [i \in DOMAIN servers |-> [servers[i] EXCEPT !.at =
               [j \in DOMAIN @ |-> IF @[j].a = a THEN Marked(<<@[j]>>, up)[1] ELSE @[j]]]]
    PROVE  SameTable(servers, servers')
  <1> DEFINE G(at) == [j \in DOMAIN at |-> IF at[j].a = a THEN Marked(<<at[j]>>, up)[1] ELSE at[j]]
             F == [i \in DOMAIN servers |-> G(servers[i].at)]
  <1>1. servers \in Seq(servparm_t) BY Zenon DEF Types
  <1>2. ASSUME NEW at \in Seq(atup_t) PROVE G(at) \in Seq(atup_t) /\ SameAts(at, G(at))
    <2> DEFINE f == G(at)
    <2>1. f = [j \in DOMAIN at |-> f[j]] BY Zenon
    <2>2. ASSUME NEW j \in DOMAIN at PROVE f[j] \in atup_t /\ f[j].a = at[j].a
      <3>1. at[j] \in atup_t OBVIOUS
      <3> DEFINE x == at[j]
                 m == Marked(<<x>>, up)
      <3>2. f[j] = IF x.a = a THEN m[1] ELSE x BY Zenon
      <3>3. x \in atup_t BY <3>1, Zenon
      <3>4. m[1] \in atup_t /\ m[1].a = x.a
        <4> HIDE DEF x
        <4>1. <<x>> \in Seq(atup_t) /\ DOMAIN <<x>> = {1} /\ <<x>>[1] = x BY <3>3
        <4>2. m \in Seq(atup_t) /\ SameAts(<<x>>, m) BY <4>1, MarkedAt, Zenon
        <4> HIDE DEF m
        <4>3. 1 \in DOMAIN m /\ <<x>>[1].a = m[1].a BY <4>1, <4>2, Zenon DEF SameAts
        <4>4. QED BY <4>1, <4>2, <4>3
      <3> HIDE DEF m, f
      <3>5. QED BY <3>2, <3>3, <3>4, Zenon
    <2> HIDE DEF f
    <2>3. f \in Seq(atup_t) /\ SameAts(at, f) BY <2>1, <2>2, Rewrite, Zenon
    <2>4. QED BY <2>3, Zenon DEF f
  <1>3. servers' = [i \in DOMAIN servers |-> [servers[i] EXCEPT !.at = F[i]]] BY Zenon
  <1>4. F = [i \in DOMAIN servers |-> F[i]] BY Zenon
  <1>5. ASSUME NEW i \in DOMAIN servers PROVE F[i] \in Seq(atup_t) /\ SameAts(servers[i].at, F[i])
    <2>1. servers[i].at \in Seq(atup_t) BY <1>1, AtType, Zenon
    <2>2. F[i] = G(servers[i].at) BY Zenon
    <2> HIDE DEF F, G
    <2>3. QED BY <1>2, <2>1, <2>2, Zenon
  <1> HIDE DEF F
  <1>6. SameTable(servers, [i \in DOMAIN servers |-> [servers[i] EXCEPT !.at = F[i]]])
    BY <1>1, <1>4, <1>5, SetAts, Zenon
  <1>7. QED BY <1>3, <1>6, Zenon

LEMMA SchedKeeps == ASSUME Inv, NEW t \in Q, NEW a, NEW up \in {-1, 0, 1}, sched_server_test(t, a, up) PROVE Kept /\ StKept
  <1>1. Types /\ UsersSum BY Halves, Zenon DEF Inv
  <1>2. q \in [Q -> Queries] /\ users \in Nat BY <1>1, Zenon DEF Types
  <1>3. /\ Up /\ mutex = "free" /\ q[t].pc = "idle" /\ Asks(t, "idle")
        /\ UNCHANGED <<gen, mutex, users, pings, intr, flag, thrid, st, run, ctl, boot>>
    BY Zenon DEF sched_server_test, Free
  <1>4. q' \in [Q -> Queries] /\ q'[t].pc = "idle" /\ \A x \in Q \ {t} : q'[x] = q[x]
    BY <1>2, <1>3, AsksIs, Zenon
  <1>5. UsersSum' /\ users' \in Nat
    <2>1. SameOut /\ SameResolving /\ SameUsing BY <1>3, <1>4, Zenon DEF SameOut, SameResolving, SameUsing
    <2>2. QED BY <1>1, <1>2, <1>3, <2>1, SumSame, Zenon
  <1>6. SameTable(servers, servers') BY <1>1, SchedTable, Zenon DEF sched_server_test
  <1>7. Started(t, run') BY <1>3, Zenon DEF Started
  <1>8. ~run[t].on /\ t # "free" BY <1>3, QueryFree, Others, Zenon
  <1>9. StKept /\ thrid' \in {"main", "stt"} /\ (thrid' = "main" => st'.pc = "off") /\ flag' \in BOOLEAN
    BY <1>3, QuietIs, Zenon
  <1>10. QED BY <1>3, <1>4, <1>5, <1>6, <1>7, <1>8, <1>9, QueryStep, Zenon

LEMMA TestOnqueryKeeps == ASSUME Inv, NEW t \in Q, test_onquery(t) PROVE Kept /\ StKept
  <1>1. Types /\ UsersSum BY Halves, Zenon DEF Inv
  <1>2. q \in [Q -> Queries] /\ users \in Nat /\ servers \in Seq(servparm_t) BY <1>1, Zenon DEF Types
  <1>3. /\ Up /\ mutex = "free" /\ mutex' = t /\ q[t].pc = "idle" /\ Asks(t, "scan")
        /\ UNCHANGED <<servers, gen, users, pings, intr, flag, thrid, st, run, ctl, boot>>
    BY Zenon DEF test_onquery, Free
  <1>4. q' \in [Q -> Queries] /\ q'[t].pc = "scan" /\ \A x \in Q \ {t} : q'[x] = q[x]
    BY <1>2, <1>3, AsksIs, Zenon
  <1>5. UsersSum' /\ users' \in Nat
    <2>1. SameOut /\ SameResolving /\ SameUsing BY <1>3, <1>4, Zenon DEF SameOut, SameResolving, SameUsing
    <2>2. QED BY <1>1, <1>2, <1>3, <2>1, SumSame, Zenon
  <1>6. SameTable(servers, servers') /\ Started(t, run') BY <1>2, <1>3, SameRefl, Zenon DEF Started
  <1>7. ~run[t].on BY <1>3, QueryFree, Zenon
  <1>8. StKept /\ thrid' \in {"main", "stt"} /\ (thrid' = "main" => st'.pc = "off") /\ flag' \in BOOLEAN
    BY <1>3, QuietIs, Zenon
  <1>9. QED BY <1>3, <1>4, <1>5, <1>6, <1>7, <1>8, QueryStep, Zenon

LEMMA OnQuerySectionKeeps == ASSUME Inv, boot # "crashed", NEW t \in Q, OnQuerySection(t) PROVE Kept /\ StKept
  <1>1. Types /\ UsersSum BY Halves, Zenon DEF Inv
  <1>2. q \in [Q -> Queries] /\ users \in Nat /\ servers \in Seq(servparm_t) BY <1>1, Zenon DEF Types
  <1>3. /\ mutex = t /\ q[t].pc = "scan" /\ ~run[t].on /\ q[t].i <= Len(servers)
        /\ UNCHANGED <<gen, mutex, users, pings, intr, flag, thrid, st, ctl, boot>>
    BY Zenon DEF OnQuerySection
  <1>4. q[t] \in Queries /\ q[t].i \in DOMAIN servers
    <2>1. q[t] \in Queries BY <1>2, Zenon
    <2>2. QED BY <1>2, <1>3, <2>1 DEF Queries
  <1>5. q' \in [Q -> Queries] /\ q'[t].pc = "scan" /\ \A x \in Q \ {t} : q'[x] = q[x]
    <2> DEFINE r == [q[t] EXCEPT !.i = q[t].i + 1]
               s == [q[t] EXCEPT !.i = q[t].i + 1, !.sig = TRUE]
    <2>1. r \in Queries /\ r.pc = "scan" /\ s \in Queries /\ s.pc = "scan"
      <3>1. q[t].i + 1 \in Nat \ {0} /\ TRUE \in BOOLEAN BY <1>4 DEF Queries
      <3>2. QED BY <1>3, <1>4, <3>1, Zenon DEF Queries
    <2>2. q' = [q EXCEPT ![t].i = @ + 1] \/ q' = [q EXCEPT ![t].i = @ + 1, ![t].sig = TRUE]
      BY Zenon DEF OnQuerySection
    <2>3. [q EXCEPT ![t].i = @ + 1] = [q EXCEPT ![t] = r] BY <1>2, Zenon
    <2>4. [q EXCEPT ![t].i = @ + 1, ![t].sig = TRUE] = [q EXCEPT ![t] = s] BY <1>2, Zenon
    <2> HIDE DEF r, s
    <2>5. QED BY <1>2, <2>1, <2>2, <2>3, <2>4
  <1>6. SameTable(servers, servers') /\ Started(t, run')
    <2>1. CASE UNCHANGED <<servers, run>> BY <1>2, <2>1, SameRefl, Zenon DEF Started
    <2>2. CASE Retest(t, q[t].i, 0) BY <1>1, <1>4, <2>2, RetestEffect, Others, Zenon
    <2>3. CASE UNCHANGED run /\ servers' = [servers EXCEPT ![q[t].i].at = SetDue(@, DOMAIN @, TRUE)]
      <3> DEFINE i == q[t].i
                 J == DOMAIN servers[i].at
      <3>1. i \in DOMAIN servers BY <1>4, Zenon
      <3>2. servers' = [servers EXCEPT ![i].at = SetDue(@, J, TRUE)] BY <2>3, Zenon
      <3> HIDE DEF i, J
      <3>3. SameTable(servers, servers') BY <1>1, <3>1, <3>2, SetsDue, Zenon
      <3>4. QED BY <2>3, <3>3, Zenon DEF Started
    <2>4. QED BY <2>1, <2>2, <2>3, Zenon DEF OnQuerySection
  <1>7. UsersSum' /\ users' \in Nat
    <2>1. SameResolving /\ SameUsing BY <1>3, <1>5, Zenon DEF SameResolving, SameUsing
    <2>2. SameOut
      <3>1. t \in T /\ run \in [T -> Runs] BY <1>1, Others, Zenon DEF Types
      <3>2. /\ run' \in [T -> Runs] /\ \A x \in T \ {t} : run'[x] = run[x]
            /\ run' # run => ~run'[t].out
        BY <1>1, <1>6, <3>1, StartedRuns, Zenon
      <3>3. ~run[t].out BY <1>3, <3>1, Zenon DEF Inv, Mutexes
      <3>4. run[t].out \in BOOLEAN /\ run'[t].out \in BOOLEAN BY <3>1, <3>2, Zenon DEF Runs
      <3>5. QED BY <3>2, <3>3, <3>4, Zenon DEF SameOut
    <2>3. QED BY <1>1, <1>2, <1>3, <2>1, <2>2, SumSame, Zenon
  <1>8. Up BY <1>3, QueryUp, Zenon
  <1>9. StKept /\ thrid' \in {"main", "stt"} /\ (thrid' = "main" => st'.pc = "off") /\ flag' \in BOOLEAN
    BY <1>3, <1>8, QuietIs, Zenon
  <1>10. QED BY <1>3, <1>5, <1>6, <1>7, <1>8, <1>9, QueryStep, Zenon

LEMMA OnQueryEndKeeps == ASSUME Inv, boot # "crashed", NEW t \in Q, NEW ok \in BOOLEAN, OnQueryEnd(t, ok) PROVE Kept /\ StKept
  <1>1. Types /\ UsersSum BY Halves, Zenon DEF Inv
  <1>2. q \in [Q -> Queries] /\ users \in Nat /\ servers \in Seq(servparm_t) BY <1>1, Zenon DEF Types
  <1>3. /\ mutex = t /\ mutex' = "free" /\ q[t].pc = "scan" /\ ~run[t].on /\ SignalTest(q[t].sig, ok)
        /\ q' = [q EXCEPT ![t] = [pc |-> "idle", i |-> 1, sig |-> FALSE]]
        /\ UNCHANGED <<servers, gen, users, pings, intr, run, ctl, boot>>
    BY Zenon DEF OnQueryEnd
  <1>4. q[t].sig \in BOOLEAN BY <1>2, Zenon DEF Queries
  <1>5. q' \in [Q -> Queries] /\ q'[t].pc = "idle" /\ \A x \in Q \ {t} : q'[x] = q[x]
    <2> DEFINE r == [pc |-> "idle", i |-> 1, sig |-> FALSE]
    <2>1. r \in Queries /\ r.pc = "idle" BY DEF Queries
    <2>2. q' = [q EXCEPT ![t] = r] BY <1>3, Zenon
    <2> HIDE DEF r
    <2>3. QED BY <1>2, <2>1, <2>2, Zenon
  <1>6. Up BY <1>3, QueryUp, Zenon
  <1>7. StKept /\ thrid' \in {"main", "stt"} /\ (thrid' = "main" => st'.pc = "off") /\ flag' \in BOOLEAN
    BY <1>3, <1>4, <1>6, SignalKeeps, Zenon
  <1>8. UsersSum' /\ users' \in Nat
    <2>1. SameOut /\ SameUsing BY <1>3, <1>5, Zenon DEF SameOut, SameUsing
    <2>2. SameResolving BY <1>7, Zenon DEF SameResolving, StKept
    <2>3. QED BY <1>1, <1>2, <1>3, <2>1, <2>2, SumSame, Zenon
  <1>9. SameTable(servers, servers') /\ Started(t, run') BY <1>2, <1>3, SameRefl, Zenon DEF Started
  <1>10. t # "free" BY Others, Zenon
  <1>11. QED BY <1>3, <1>5, <1>6, <1>7, <1>8, <1>9, <1>10, QueryStep, Zenon

------------------------------------------------------------------------------
(* The theorems *)

LEMMA Starting == ASSUME Init PROVE Inv
  <1>1. "st" \in T /\ Q \subseteq T BY Others, Zenon
  <1>2. \A t \in T : run[t] = NoRun BY Zenon DEF Init
  <1>3. NoRun \in Runs /\ NoRun.out = FALSE /\ NoRun.on = FALSE /\ NoRun.counted = FALSE BY Zenon DEF NoRun, Runs
  <1>4. Off \in Threads /\ Off.pc = "off" /\ Off.g = 0 BY Zenon DEF Off, Threads, PCs
  <1>5. Types
    <2>1. servers \in Seq(servparm_t) BY TablesAssumption, Zenon DEF Init
    <2>2. run \in [T -> Runs] BY <1>3, Zenon DEF Init
    <2>3. q \in [Q -> Queries]
      <3> DEFINE r == [pc |-> "idle", i |-> 1, sig |-> FALSE]
      <3>1. r \in Queries BY DEF Queries
      <3>2. q = [t \in Q |-> r] BY Zenon DEF Init
      <3> HIDE DEF r
      <3>3. QED BY <3>1, <3>2, Zenon
    <2>4. ctl \in Controls
      <3>1. << >> \in Seq(Hosts) /\ << >> \in Tables \union {<< >>} OBVIOUS
      <3>2. QED BY <3>1, Zenon DEF Init, Controls
    <2>5. QED BY <1>4, <2>1, <2>2, <2>3, <2>4, Zenon DEF Init, Types
  <1>6. UsersExact
    <2>1. Out = {} BY <1>2, <1>3, Zenon DEF Out
    <2>2. Using = {} BY Zenon DEF Init, Using
    <2>3. Cardinality(Out) = 0 /\ Cardinality(Using) = 0 BY <2>1, <2>2, FS_EmptySet, Zenon
    <2>4. st.pc # "resolving" /\ users = 0 /\ pings = 0 BY <1>4, Zenon DEF Init
    <2>5. UsersSum BY <2>3, <2>4 DEF UsersSum, B
    <2>6. PingsSum BY <1>1, <1>2, <1>3, <2>4, Zenon DEF PingsSum, B
    <2>7. QED BY <2>5, <2>6, Halves, Zenon
  <1>7. st.pc = "off" /\ st.g = 0 /\ gen = 0 BY <1>4, Zenon DEF Init
  <1>8. Mutexes BY <1>1, <1>2, <1>3, <1>7, Others, Zenon DEF Init, Mutexes, Holding, Retested
  <1>9. Places BY <1>7 DEF Init, Places, AtSection, Scanning
  <1>10. Booted BY <1>7, Zenon DEF Init, Booted
  <1>11. InterruptSpent BY Zenon DEF Init, InterruptSpent
  <1>12. QED BY <1>5, <1>6, <1>8, <1>9, <1>10, <1>11, Zenon DEF Inv

LEMMA OthersKeep == ASSUME Inv, Next, ~StatusThread PROVE Kept /\ StKept
  <1>1. boot # "crashed" BY Zenon DEF Next
  <1>2. CASE BootCreate \/ BootCreateFails \/ BootSetId \/ UndefinedCrash BY <1>2, BootKeeps, Zenon
  <1>3. CASE Control
    <2>1. CASE \E i \in DOMAIN servers, up \in {-1, 0, 1}, ok \in BOOLEAN :
                   mark_servers({i}, up, ok) \/ mark_servers(DOMAIN servers, up, ok)
      BY <2>1, MarkServersKeeps, Zenon
    <2>2. CASE \E i \in DOMAIN servers, as \in Addresses, up \in {-1, 0, 1}, ok \in BOOLEAN :
                   change_servers(i, as, up, ok)
      BY <2>2, ChangeServersKeeps, Zenon
    <2>3. CASE \E tb \in Tables, ok \in BOOLEAN : reload_config_file(tb, ok) BY <2>3, ReloadKeeps, Zenon
    <2>4. CASE CtlTimeout BY <1>1, <2>4, CtlTimeoutKeeps, Zenon
    <2>5. QED BY <1>3, <2>1, <2>2, <2>3, <2>4, Zenon DEF Control
  <1>4. CASE ControlDone BY <1>1, <1>4, ChangeDoneKeeps, ReloadDoneKeeps, Zenon DEF ControlDone
  <1>5. CASE \E t \in T : Uptests(t) BY <1>5, UptestBeginKeeps, UptestEndKeeps, Zenon DEF Uptests
  <1>6. ASSUME NEW t \in Q,
               \/ OnQuery(t) \/ test_onquery(t) \/ lock_server_data(t) \/ unlock_server_data(t)
               \/ \E a \in Reported, up \in {-1, 0, 1} : sched_server_test(t, a, up)
        PROVE  Kept /\ StKept
    <2>1. CASE OnQuery(t) BY <1>1, <2>1, OnQuerySectionKeeps, OnQueryEndKeeps, Zenon DEF OnQuery
    <2>2. CASE test_onquery(t) BY <2>2, TestOnqueryKeeps, Zenon
    <2>3. CASE lock_server_data(t) BY <2>3, LockServerDataKeeps, Zenon
    <2>4. CASE unlock_server_data(t) BY <1>1, <2>4, UnlockServerDataKeeps, Zenon
    <2>5. CASE \E a \in Reported, up \in {-1, 0, 1} : sched_server_test(t, a, up) BY <2>5, SchedKeeps, Zenon
    <2>6. QED BY <1>6, <2>1, <2>2, <2>3, <2>4, <2>5, Zenon
  <1>7. QED BY <1>2, <1>3, <1>4, <1>5, <1>6, Zenon DEF Next

LEMMA StepKeeps == ASSUME Inv, [Next]_vars PROVE Kept \/ UNCHANGED vars
  <1>1. CASE Next
    <2>1. boot # "crashed" BY <1>1, Zenon DEF Next
    <2>2. QED BY <1>1, <2>1, StatusThreadKeeps, OthersKeep, Zenon
  <1>2. QED BY <1>1, Zenon

LEMMA Resting == ASSUME Inv, UNCHANGED vars PROVE Inv'
  <1>1. Types' BY Zenon DEF Inv, Types, vars
  <1>2. UsersExact' /\ InterruptSpent' BY Zenon DEF Inv, UsersExact, InterruptSpent, vars
  <1>3. Mutexes' /\ Places' BY Zenon DEF Inv, Mutexes, Places, vars
  <1>4. Booted' BY Zenon DEF Inv, Booted, vars
  <1>5. QED BY <1>1, <1>2, <1>3, <1>4, Zenon DEF Inv

LEMMA Invariant == Spec => []Inv
  <1>1. Inv /\ [Next]_vars => Inv' BY StepKeeps, Resting, Zenon DEF Kept
  <1>2. QED BY <1>1, Starting, PTL DEF Spec

(* However commands, queries and the status thread interleave, the number of users
   is the number of threads that rely on the table without the mutex, the number
   of pings is that of the ping that may be interrupted, and no interrupt is left
   over for a later round. (servers.c: server_data_users, server_status_ping,
   signal_interrupt) *)
THEOREM AccessExactHolds == Spec => []AccessExact
  <1>1. Inv => AccessExact
    <2>1. Types => TypeOK BY Zenon DEF Types, TypeOK, Threads, PCs, Controls, Queries
    <2>2. QED BY <2>1, Zenon DEF Inv, AccessExact
  <1>2. QED BY <1>1, Invariant, PTL

(* While anybody counts as a user neither a reload, nor change_servers, nor root
   server discovery replaces the table, a section's addresses or its kind.
   (servers.c: lock_server_data, exclusive_lock_server_data) *)
THEOREM TableStableHolds == Spec => TableStable
  <1>1. ASSUME Inv, Kept, users > 0 PROVE Shape' = Shape
    <2>1. gen' = gen /\ SameTable(servers, servers') BY <1>1, MovedType, Zenon DEF Kept, Inv
    <2>2. DOMAIN servers' = DOMAIN servers BY <2>1, Zenon DEF SameTable
    <2> DEFINE e(s, i) == <<s[i].root, [j \in DOMAIN s[i].at |-> s[i].at[j].a]>>
    <2>3. ASSUME NEW i \in DOMAIN servers PROVE e(servers', i) = e(servers, i)
      BY <2>1, Zenon DEF SameTable, SameSection, SameAts
    <2>4. Shape = <<gen, [i \in DOMAIN servers |-> e(servers, i)]>> BY Zenon DEF Shape
    <2>5. Shape' = <<gen', [i \in DOMAIN servers' |-> e(servers', i)]>> BY Zenon DEF Shape
    <2> HIDE DEF e
    <2>6. QED BY <2>1, <2>2, <2>3, <2>4, <2>5, Zenon
  <1>2. UNCHANGED vars => Shape' = Shape BY Zenon DEF vars, Shape
  <1>3. Inv /\ [Next]_vars => [users > 0 => Shape' = Shape]_vars BY <1>1, <1>2, StepKeeps, Zenon
  <1>4. QED BY <1>3, Invariant, PTL DEF Spec, TableStable

(* Nobody starts a status thread while there is one, although its id is stored
   after it was created and cleared before it ends. (servstat_thrid) *)
THEOREM OneThreadHolds == Spec => OneThread
  <1>1. Inv /\ [Next]_vars => [st'.pc = "lock" /\ st.pc # "lock" => st.pc = "off"]_vars
    BY StepKeeps, Zenon DEF Kept
  <1>2. QED BY <1>1, Invariant, PTL DEF Spec, OneThread

------------------------------------------------------------------------------
(* The status thread ends only when no section needs it. *)

(* When the thread ends, the scan has reached the end of the table. *)
LEMMA EndsPassed ==
    ASSUME Inv, Scan, Next, st.pc # "off", st'.pc = "off", boot # "hurt"
    PROVE  \A k \in DOMAIN servers : Passed(servers[k])
  <1>1. st \in Threads /\ servers \in Seq(servparm_t) /\ st.i \in Nat /\ st.n \in Nat
    BY Zenon DEF Inv, Types, Threads
  <1>2. boot # "crashed" BY Zenon DEF Next
  <1>3. StatusThread BY OthersKeep, Zenon DEF StKept
  <1>4. {"section", "each", "tests", "resolve", "resolving", "retested", "await", "awaiting", "pass", "sleep"} \subseteq PCs
    BY Zenon DEF PCs, Scanning
  <1>5. StScanned
    <2>1. CASE StLock \/ StWake \/ StResolve \/ StAwait
      <3>1. PICK p \in {"pass", "resolving", "awaiting"} : st' = [st EXCEPT !.pc = p]
        BY <2>1, Zenon DEF StLock, StWake, StResolve, StAwait
      <3>2. p \in PCs BY <1>4, Zenon
      <3>3. st'.pc = p BY <1>1, <3>1, <3>2, PcIs, Zenon
      <3>4. QED BY <3>3, Zenon
    <2>2. CASE StPass
      <3>1. st'.pc = "section" BY <1>1, <2>2, Zenon DEF StPass, Threads
      <3>2. QED BY <3>1, Zenon
    <2>3. CASE ~StLock /\ ~StWake /\ ~StResolve /\ ~StAwait /\ ~StPass /\ ~StScanned
      <3>1. Kept BY <1>2, <1>3, StatusThreadKeeps, Zenon
      <3>2. mutex' = "st"
        BY <1>3, <2>3, Zenon DEF StatusThread, StSection, StRetested, StResolved, StAwake, StStaleRoot, StEach, StNoMemory, StBeyond,
            StTests, StSetRoot, InSt
      <3>3. st'.pc \in Holding BY <3>1, <3>2 DEF Kept, Inv, Mutexes
      <3>4. QED BY <3>3 DEF Holding
    <2>4. QED BY <2>1, <2>2, <2>3
  <1>6. st.pc = "section" /\ st.i > st.n BY <1>5 DEF StScanned, InSt
  <1>7. ~st.keep
    <2>1. st' # [st EXCEPT !.pc = "pass"] /\ st' # [st EXCEPT !.pc = "sleep"] BY <1>1, <1>4, PcIs, Zenon
    <2>2. QED BY <1>5, <2>1 DEF StScanned
  <1>8. Leaving BY <1>2, <1>6, <1>7 DEF Leaving, Scanning
  <1>9. st.n = Len(servers) /\ \A k \in DOMAIN servers : k < st.i => Passed(servers[k]) BY <1>8 DEF Scan
  <1>10. QED BY <1>1, <1>6, <1>9

LEMMA ScanInvariant == Spec => [](Inv /\ Scan)
  <1>1. Init => Inv /\ Scan
    <2>1. Init => Inv BY Starting
    <2>2. ASSUME Init PROVE Scan
      <3>1. servers = Table0 /\ st.pc = "off" BY <2>2 DEF Init, Off
      <3>2. One => OneUndiscovered(servers) BY <3>1 DEF One
      <3>3. QED BY <3>1, <3>2 DEF Scan, Leaving, Scanning
    <2>3. QED BY <2>1, <2>2
  <1>2. ASSUME Inv, Scan, Next PROVE Inv' /\ Scan'
    <2>1. boot # "crashed" BY <1>2 DEF Next
    <2>2. CASE StatusThread BY <1>2, <2>1, <2>2, StatusThreadKeeps, StatusScan DEF Kept
    <2>3. CASE ~StatusThread BY <1>2, <2>1, <2>3, OthersKeep, OthersScan DEF Kept
    <2>4. QED BY <2>2, <2>3
  <1>3. ASSUME Inv, Scan, UNCHANGED vars PROVE Inv' /\ Scan'
    BY <1>3, Resting DEF Scan, Leaving, One, OneUndiscovered, Passed, vars
  <1>4. Inv /\ Scan /\ [Next]_vars => Inv' /\ Scan' BY <1>2, <1>3
  <1>5. QED BY <1>1, <1>4, PTL DEF Spec

(* There is never a second status thread, and the one there is ends only when no
   section has to be tested at intervals and, as long as a table has at most one
   section to be discovered, no usual section needs it: whatever marks, changes and
   reloads happen while it scans, tests, discovers or waits. (servers.c:
   servstatthread) *)
THEOREM ThreadAsNeededHolds == Spec => ThreadAsNeeded
  <1>1. ASSUME Inv, Scan, Next, st.pc # "off", st'.pc = "off", boot # "hurt"
        PROVE  \A i \in DOMAIN servers :
                 /\ ~needs_intermittent_testing(servers[i])
                 /\ (\A tb \in Tables \union {Table0} : OneUndiscovered(tb)) /\ servers[i].root = 1
                      => ~needs_testing(servers[i])
    <2>1. \A k \in DOMAIN servers : Passed(servers[k]) BY <1>1, EndsPassed
    <2>2. QED BY <2>1 DEF Passed, One
  <1>2. Inv /\ Scan /\ [Next]_vars =>
          [st.pc # "off" /\ st'.pc = "off" /\ boot # "hurt"
           => \A i \in DOMAIN servers :
                /\ ~needs_intermittent_testing(servers[i])
                /\ (\A tb \in Tables \union {Table0} : OneUndiscovered(tb)) /\ servers[i].root = 1
                     => ~needs_testing(servers[i])]_vars
    BY <1>1
  <1>3. Spec => NeededThread BY <1>2, ScanInvariant, PTL DEF Spec, NeededThread
  <1>4. QED BY <1>3, OneThreadHolds DEF ThreadAsNeeded

==============================================================================
