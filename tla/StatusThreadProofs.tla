-------------------------- MODULE StatusThreadProofs --------------------------
(***************************************************************************)
(* The inductive invariant of ServerStatus, the lemmas on its table and    *)
(* its counters, the steps of the status thread, and what its scan of the  *)
(* table has found.  ServerStatusProofs adds the tests of servers, the     *)
(* other threads and the theorems.                                         *)
(***************************************************************************)
EXTENDS ServerStatus, FiniteSetTheorems, TLAPS

Runs == [on : BOOLEAN, out : BOOLEAN, counted : BOOLEAN, i : Nat, j : Nat, last : Nat]
PCs  == Scanning \union {"off", "lock", "sleep"}

Threads == [pc : PCs, i : Nat, n : Nat, j : Nat, keep : BOOLEAN, g : Nat, freed : BOOLEAN]
Queries == [pc : {"idle", "using", "scan"}, i : Nat \ {0}, sig : BOOLEAN]
Controls == [pc : {"idle", "change", "reload"}, n : Nat, i : Nat, as : Seq(Hosts),
             up : {-1, 0, 1}, table : Tables \union {<< >>}]

Types ==
    /\ servers \in Seq(servparm_t) /\ gen \in Nat
    /\ mutex \in T \union {"free"}
    /\ users \in Nat /\ pings \in Nat /\ intr \in BOOLEAN /\ flag \in BOOLEAN
    /\ thrid \in {"main", "stt"}
    /\ st \in Threads
    /\ run \in [T -> Runs]
    /\ q \in [Q -> Queries]
    /\ ctl \in Controls
    /\ boot \in {"create", "setid", "up", "hurt", "crashed"}

(* Where the status thread has the mutex, or is in uptest; where it may have
   begun a call of retest; and where it looks at section i. *)
Holding  == {"pass", "section", "retested", "resolve", "await", "tests", "each"}
Retested == {"section", "retested", "each"}
AtSection == {"retested", "resolve", "resolving", "tests", "each"}

(* A thread in uptest has called retest and does not have the mutex; a thread
   that has called retest is there or has the mutex, and its section is in the
   table.  The mutex is held only where the code says so. *)
Mutexes ==
    /\ \A t \in T : run[t].out => run[t].on /\ mutex # t
    /\ \A t \in T : run[t].on => (mutex = t \/ run[t].out) /\ run[t].i \in DOMAIN servers
    /\ \A t \in Q : run[t].on \/ mutex = t => q[t].pc = "scan"
    /\ \A t \in Q : ~run[t].counted
    /\ run["st"].on => st.pc \in Retested
    /\ st.pc \in Holding <=> mutex = "st" \/ run["st"].out

(* The section that the status thread looks at is in the table, unless the table
   was replaced while it waited for its users; so is the one to be changed. *)
Places ==
    /\ st.pc \in Scanning \ {"pass"} => st.i >= 1
    /\ st.pc \in AtSection => st.i \in DOMAIN servers
    /\ st.pc \in {"await", "awaiting"} /\ st.g = gen => st.i \in DOMAIN servers
    /\ st.pc \in {"resolve", "resolving"} => servers[st.i].at # << >>
    /\ st.g <= gen
    /\ ctl.pc = "change" => ctl.i \in DOMAIN servers

(* Until main has stored the id of the thread there are no queries and no
   commands; afterwards an id of main means that there is no thread. *)
Booted ==
    /\ boot = "create" => st.pc = "off"
    /\ boot \in {"create", "setid"} =>
         gen = 0 /\ ctl.pc = "idle" /\ \A t \in Q : q[t].pc = "idle"
    /\ boot \in {"up", "hurt"} /\ thrid = "main" => st.pc = "off"

Inv == Types /\ UsersExact /\ Mutexes /\ Places /\ Booted /\ InterruptSpent

------------------------------------------------------------------------------
(* The table.  Tests and marks change the status of addresses and nothing else. *)

SameParms(a, b) == a.uptest = b.uptest /\ a.interval = b.interval /\ a.scheme = b.scheme
SameAts(a, b) == DOMAIN a = DOMAIN b /\ \A j \in DOMAIN a : a[j].a = b[j].a
SameSection(a, b) == SameParms(a, b) /\ a.root = b.root /\ SameAts(a.at, b.at)
SameTable(s, u) ==
    /\ u \in Seq(servparm_t) /\ DOMAIN u = DOMAIN s
    /\ \A k \in DOMAIN s : SameSection(s[k], u[k])

LEMMA SameRefl == ASSUME NEW s \in Seq(servparm_t) PROVE SameTable(s, s)
  BY Zenon DEF SameTable, SameSection, SameParms, SameAts

(* Another status for the addresses of one section. *)
LEMMA SetAt ==
    ASSUME NEW s \in Seq(servparm_t), NEW i \in DOMAIN s, NEW f \in Seq(atup_t),
           SameAts(s[i].at, f)
    PROVE  SameTable(s, [s EXCEPT ![i].at = f])
  <1> DEFINE u == [s EXCEPT ![i].at = f]
  <1>1. s[i] \in servparm_t OBVIOUS
  <1>2. u = [s EXCEPT ![i] = [s[i] EXCEPT !.at = f]] BY Zenon
  <1>3. [s[i] EXCEPT !.at = f] \in servparm_t /\ SameSection(s[i], [s[i] EXCEPT !.at = f])
    BY <1>1, Zenon DEF servparm_t, SameSection, SameParms
  <1>4. u \in Seq(servparm_t) /\ DOMAIN u = DOMAIN s BY <1>2, <1>3
  <1>5. \A k \in DOMAIN s : u[k] = IF k = i THEN [s[i] EXCEPT !.at = f] ELSE s[k] BY <1>2, Zenon
  <1> HIDE DEF u
  <1>6. \A k \in DOMAIN s : SameSection(s[k], u[k])
    BY <1>3, <1>5, Zenon DEF SameSection, SameParms, SameAts
  <1>7. QED BY <1>4, <1>6, Zenon DEF SameTable, u

LEMMA AtType == ASSUME NEW s \in Seq(servparm_t), NEW i \in DOMAIN s
                PROVE  s[i] \in servparm_t /\ s[i].at \in Seq(atup_t)
  <1>1. s[i] \in servparm_t OBVIOUS
  <1>2. QED BY <1>1, Zenon DEF servparm_t

(* A function on the positions of a sequence of addresses that keeps each address
   is another sequence with the same addresses. *)
LEMMA Rewrite ==
    ASSUME NEW at \in Seq(atup_t), NEW f, f = [j \in DOMAIN at |-> f[j]],
           \A j \in DOMAIN at : f[j] \in atup_t /\ f[j].a = at[j].a
    PROVE  f \in Seq(atup_t) /\ SameAts(at, f)
  <1>1. DOMAIN f = 1..Len(at) /\ Len(at) \in Nat BY DOMAIN f = DOMAIN at
  <1>2. f \in [1..Len(at) -> atup_t] BY <1>1, Zenon
  <1>3. QED BY <1>1, <1>2 DEF SameAts

LEMMA MarkAt ==
    ASSUME NEW at \in Seq(atup_t), NEW J, NEW up \in BOOLEAN, NEW due \in BOOLEAN
    PROVE  Mark(at, J, up, due) \in Seq(atup_t) /\ SameAts(at, Mark(at, J, up, due))
  <1> DEFINE f == Mark(at, J, up, due)
  <1>1. f = [j \in DOMAIN at |-> f[j]] BY Zenon DEF Mark
  <1>2. ASSUME NEW j \in DOMAIN at PROVE f[j] \in atup_t /\ f[j].a = at[j].a
    <2>1. at[j] \in atup_t OBVIOUS
    <2>2. QED BY <2>1, Zenon DEF Mark, atup_t
  <1>3. QED BY <1>1, <1>2, Rewrite, Zenon

LEMMA SetDueAt ==
    ASSUME NEW at \in Seq(atup_t), NEW J, NEW due \in BOOLEAN
    PROVE  SetDue(at, J, due) \in Seq(atup_t) /\ SameAts(at, SetDue(at, J, due))
  <1> DEFINE f == SetDue(at, J, due)
  <1>1. f = [j \in DOMAIN at |-> f[j]] BY Zenon DEF SetDue
  <1>2. ASSUME NEW j \in DOMAIN at PROVE f[j] \in atup_t /\ f[j].a = at[j].a
    <2>1. at[j] \in atup_t OBVIOUS
    <2>2. QED BY <2>1, Zenon DEF SetDue, atup_t
  <1>3. QED BY <1>1, <1>2, Rewrite, Zenon

LEMMA MarkedAt ==
    ASSUME NEW at \in Seq(atup_t), NEW up \in {-1, 0, 1}
    PROVE  Marked(at, up) \in Seq(atup_t) /\ SameAts(at, Marked(at, up))
  <1> DEFINE f == Marked(at, up)
  <1>1. f = [j \in DOMAIN at |-> f[j]] BY Zenon DEF Marked
  <1>2. ASSUME NEW j \in DOMAIN at PROVE f[j] \in atup_t /\ f[j].a = at[j].a
    <2>1. at[j] \in atup_t OBVIOUS
    <2>2. QED BY <2>1, Zenon DEF Marked, atup_t
  <1>3. QED BY <1>1, <1>2, Rewrite, Zenon

(* Addresses with the same status for each. *)
LEMMA FreshAt ==
    ASSUME NEW hs \in Seq(Hosts), NEW up \in BOOLEAN, NEW due \in BOOLEAN
    PROVE  [j \in DOMAIN hs |-> [a |-> hs[j], up |-> up, due |-> due]] \in Seq(atup_t)
  <1> DEFINE e(j) == [a |-> hs[j], up |-> up, due |-> due]
  <1> HIDE DEF e
  <1>1. DOMAIN hs = 1..Len(hs) /\ Len(hs) \in Nat OBVIOUS
  <1>2. ASSUME NEW j \in DOMAIN hs PROVE e(j) \in atup_t
    <2>1. hs[j] \in Hosts OBVIOUS
    <2>2. QED BY <2>1, Zenon DEF atup_t, e
  <1>3. [j \in 1..Len(hs) |-> e(j)] \in Seq(atup_t) BY <1>1, <1>2
  <1>4. QED BY <1>1, <1>3, Zenon DEF e

(* Statuses set in several sections at once. *)
LEMMA SetAts ==
    ASSUME NEW s \in Seq(servparm_t), NEW F, F = [i \in DOMAIN s |-> F[i]],
           \A i \in DOMAIN s : F[i] \in Seq(atup_t) /\ SameAts(s[i].at, F[i])
    PROVE  SameTable(s, [i \in DOMAIN s |-> [s[i] EXCEPT !.at = F[i]]])
  <1> DEFINE u == [i \in DOMAIN s |-> [s[i] EXCEPT !.at = F[i]]]
  <1>1. ASSUME NEW i \in DOMAIN s
        PROVE  u[i] \in servparm_t /\ SameSection(s[i], u[i])
    <2>1. s[i] \in servparm_t OBVIOUS
    <2>2. F[i] \in Seq(atup_t) /\ SameAts(s[i].at, F[i]) BY Zenon
    <2>3. QED BY <2>1, <2>2, Zenon DEF servparm_t, SameSection, SameParms
  <1>2. DOMAIN s = 1..Len(s) /\ Len(s) \in Nat /\ DOMAIN u = DOMAIN s OBVIOUS
  <1>3. u = [i \in 1..Len(s) |-> u[i]] BY <1>2, Zenon
  <1> HIDE DEF u
  <1>4. u \in Seq(servparm_t) BY <1>1, <1>2, <1>3
  <1>5. QED BY <1>1, <1>2, <1>4, Zenon DEF SameTable, u

(* Whatever retest does before the first test. *)
Started(t, r) ==
    r = run \/ \E i \in DOMAIN servers, f, l \in Nat : r = [run EXCEPT ![t] = Running(i, f, l)]

LEMMA RetestEffect ==
    ASSUME Types, NEW t \in T, NEW i \in DOMAIN servers, NEW j \in Nat, Retest(t, i, j)
    PROVE  SameTable(servers, servers') /\ Started(t, run')
  <1> DEFINE at == servers[i].at
             from == IF j = 0 THEN 1 ELSE j
             last == IF j = 0 THEN Len(at) ELSE j
             J == from..last
  <1>1. servers \in Seq(servparm_t) BY Zenon DEF Types
  <1>2. at \in Seq(atup_t) BY <1>1, AtType, Zenon
  <1>3. from \in Nat /\ last \in Nat BY <1>2
  <1>4. CASE UNCHANGED <<servers, run>> BY <1>1, <1>4, SameRefl, Zenon DEF Started
  <1>5. CASE servers' = [servers EXCEPT ![i].at = Mark(@, J, FALSE, FALSE)] /\ UNCHANGED run
    <2> DEFINE f == Mark(at, J, FALSE, FALSE)
    <2>1. servers' = [servers EXCEPT ![i].at = f] BY <1>5, Zenon
    <2>2. f \in Seq(atup_t) /\ SameAts(at, f) BY <1>2, MarkAt, Zenon
    <2> HIDE DEF f
    <2>3. SameTable(servers, [servers EXCEPT ![i].at = f]) BY <1>1, <2>2, SetAt, Zenon
    <2>4. QED BY <1>5, <2>1, <2>3, Zenon DEF Started
  <1>6. CASE servers' = [servers EXCEPT ![i].at = SetDue(@, J, FALSE)] /\ UNCHANGED run
    <2> DEFINE f == SetDue(at, J, FALSE)
    <2>1. servers' = [servers EXCEPT ![i].at = f] BY <1>6, Zenon
    <2>2. f \in Seq(atup_t) /\ SameAts(at, f) BY <1>2, SetDueAt, Zenon
    <2> HIDE DEF f
    <2>3. SameTable(servers, [servers EXCEPT ![i].at = f]) BY <1>1, <2>2, SetAt, Zenon
    <2>4. QED BY <1>6, <2>1, <2>3, Zenon DEF Started
  <1>7. CASE run' = [run EXCEPT ![t] = Running(i, from, last)] /\ UNCHANGED servers
    <2> HIDE DEF from, last
    <2>1. QED BY <1>1, <1>3, <1>7, SameRefl, Zenon DEF Started
  <1>8. QED BY <1>4, <1>5, <1>6, <1>7, Zenon DEF Retest

(* What may happen to the table: statuses; or, with no user, the addresses of one
   section, by the status thread that discovered them or by change_servers; or,
   with no user, all of it. *)
OneChanged(i, sp) ==
    /\ servers' = [servers EXCEPT ![i] = sp] /\ SameParms(servers[i], sp) /\ sp.root = 1
    /\ mutex = "free" \/ (mutex = "st" /\ st.pc = "await" /\ i = st.i)
TableMoves ==
    \/ gen' = gen /\ SameTable(servers, servers')
    \/ gen' = gen /\ users = 0 /\ \E i \in DOMAIN servers, sp \in servparm_t : OneChanged(i, sp)
    \/ gen' = gen + 1 /\ users = 0 /\ mutex = "free" /\ servers' \in Tables \union {<< >>}

(* However the table moves it is a table, and with a user its sections stay
   where they are. *)
LEMMA MovedType ==
    ASSUME Types, TableMoves
    PROVE  /\ servers' \in Seq(servparm_t) /\ gen' \in Nat /\ gen <= gen'
           /\ gen' = gen => DOMAIN servers' = DOMAIN servers
           /\ gen' # gen => users = 0 /\ mutex = "free"
           /\ users > 0 => gen' = gen /\ SameTable(servers, servers')
  <1>1. servers \in Seq(servparm_t) /\ gen \in Nat /\ users \in Nat BY Zenon DEF Types
  <1>2. CASE gen' = gen /\ SameTable(servers, servers') BY <1>1, <1>2 DEF SameTable
  <1>3. CASE gen' = gen /\ users = 0 /\ \E i \in DOMAIN servers, sp \in servparm_t : OneChanged(i, sp)
    <2>1. PICK i \in DOMAIN servers, sp \in servparm_t : servers' = [servers EXCEPT ![i] = sp]
      BY <1>3, Zenon DEF OneChanged
    <2>2. servers' \in Seq(servparm_t) /\ DOMAIN servers' = DOMAIN servers BY <1>1, <2>1
    <2>3. QED BY <1>1, <1>3, <2>2
  <1>4. CASE gen' = gen + 1 /\ users = 0 /\ mutex = "free" /\ servers' \in Tables \union {<< >>}
    <2>1. << >> \in Seq(servparm_t) OBVIOUS
    <2>2. servers' \in Seq(servparm_t) BY <1>4, <2>1, TablesAssumption, Zenon
    <2>3. QED BY <1>1, <1>4, <2>2
  <1>5. QED BY <1>2, <1>3, <1>4, Zenon DEF TableMoves

------------------------------------------------------------------------------
(* The counters.  UsersSum and PingsSum are the two halves of UsersExact. *)

Out   == {t \in T : run[t].out}
Using == {t \in Q : q[t].pc = "using"}
UsersSum == users = Cardinality(Out) + B(st.pc = "resolving") + Cardinality(Using)
PingsSum == pings = B(run["st"].out /\ run["st"].counted)

LEMMA Halves == UsersExact <=> UsersSum /\ PingsSum
  BY Zenon DEF UsersExact, UsersSum, PingsSum, Out, Using

LEMMA FiniteThreads ==
    /\ IsFiniteSet(Out) /\ IsFiniteSet(Using)
    /\ Cardinality(Out) \in Nat /\ Cardinality(Using) \in Nat
  <1>1. IsFiniteSet(T) BY ThreadsAssumption, FS_Singleton, FS_Union, Zenon DEF T
  <1>2. Out \subseteq T /\ Using \subseteq Q BY Zenon DEF Out, Using
  <1>3. QED BY <1>1, <1>2, ThreadsAssumption, FS_Subset, FS_CardinalityType, Zenon

SameOut   == \A t \in T : run'[t].out = run[t].out
SameUsing == \A t \in Q : q'[t].pc = "using" <=> q[t].pc = "using"
SameResolving == st'.pc = "resolving" <=> st.pc = "resolving"

(* The three terms of the sum, and how each of them moves. *)
LEMMA SumMoves ==
    ASSUME UsersSum, NEW o \in Int, NEW r \in Int, NEW u \in Int,
           Cardinality(Out)' = Cardinality(Out) + o,
           B(st.pc = "resolving")' = B(st.pc = "resolving") + r,
           Cardinality(Using)' = Cardinality(Using) + u,
           users' = users + o + r + u
    PROVE  UsersSum'
  <1>1. B(st.pc = "resolving") \in Int BY DEF B
  <1>2. users = Cardinality(Out) + B(st.pc = "resolving") + Cardinality(Using) BY Zenon DEF UsersSum
  <1>3. QED BY <1>1, <1>2, FiniteThreads DEF UsersSum

LEMMA OutMoves ==
    /\ SameOut => Cardinality(Out)' = Cardinality(Out) + 0
    /\ \A t \in T : ~run[t].out /\ (\A x \in T : run'[x].out <=> run[x].out \/ x = t)
         => Cardinality(Out)' = Cardinality(Out) + 1
    /\ \A t \in T : run[t].out /\ (\A x \in T : run'[x].out <=> run[x].out /\ x # t)
         => Cardinality(Out)' = Cardinality(Out) + (-1)
  <1>1. SameOut => Out' = Out BY Zenon DEF Out, SameOut
  <1>2. ASSUME NEW t \in T, ~run[t].out, \A x \in T : run'[x].out <=> run[x].out \/ x = t
        PROVE  Cardinality(Out)' = Cardinality(Out) + 1
    <2>1. Out' = Out \union {t} /\ t \notin Out BY <1>2, Zenon DEF Out
    <2>2. QED BY <2>1, FiniteThreads, FS_AddElement, Zenon
  <1>3. ASSUME NEW t \in T, run[t].out, \A x \in T : run'[x].out <=> run[x].out /\ x # t
        PROVE  Cardinality(Out)' = Cardinality(Out) + (-1)
    <2>1. Out' = Out \ {t} /\ t \in Out BY <1>3, Zenon DEF Out
    <2>2. QED BY <2>1, FiniteThreads, FS_RemoveElement, Zenon
  <1>4. QED BY <1>1, <1>2, <1>3, FiniteThreads

LEMMA UsingMoves ==
    /\ SameUsing => Cardinality(Using)' = Cardinality(Using) + 0
    /\ \A t \in Q : /\ q[t].pc # "using"
                    /\ \A x \in Q : q'[x].pc = "using" <=> q[x].pc = "using" \/ x = t
         => Cardinality(Using)' = Cardinality(Using) + 1
    /\ \A t \in Q : /\ q[t].pc = "using"
                    /\ \A x \in Q : q'[x].pc = "using" <=> q[x].pc = "using" /\ x # t
         => Cardinality(Using)' = Cardinality(Using) + (-1)
  <1>1. SameUsing => Using' = Using BY Zenon DEF Using, SameUsing
  <1>2. ASSUME NEW t \in Q, q[t].pc # "using",
               \A x \in Q : q'[x].pc = "using" <=> q[x].pc = "using" \/ x = t
        PROVE  Cardinality(Using)' = Cardinality(Using) + 1
    <2>1. Using' = Using \union {t} /\ t \notin Using BY <1>2, Zenon DEF Using
    <2>2. QED BY <2>1, FiniteThreads, FS_AddElement, Zenon
  <1>3. ASSUME NEW t \in Q, q[t].pc = "using",
               \A x \in Q : q'[x].pc = "using" <=> q[x].pc = "using" /\ x # t
        PROVE  Cardinality(Using)' = Cardinality(Using) + (-1)
    <2>1. Using' = Using \ {t} /\ t \in Using BY <1>3, Zenon DEF Using
    <2>2. QED BY <2>1, FiniteThreads, FS_RemoveElement, Zenon
  <1>4. QED BY <1>1, <1>2, <1>3, FiniteThreads

LEMMA ResolvingMoves ==
    /\ SameResolving => B(st.pc = "resolving")' = B(st.pc = "resolving") + 0
    /\ st.pc # "resolving" /\ st'.pc = "resolving"
         => B(st.pc = "resolving")' = B(st.pc = "resolving") + 1
    /\ st.pc = "resolving" /\ st'.pc # "resolving"
         => B(st.pc = "resolving")' = B(st.pc = "resolving") + (-1)
  BY DEF B, SameResolving

LEMMA SumSame ==
    ASSUME Types, UsersSum, SameOut, SameUsing, SameResolving, users' = users
    PROVE  UsersSum'
  <1>1. users' = users + 0 + 0 + 0 BY DEF Types
  <1>2. Cardinality(Out)' = Cardinality(Out) + 0 BY OutMoves, Zenon
  <1>3. B(st.pc = "resolving")' = B(st.pc = "resolving") + 0 BY ResolvingMoves, Zenon
  <1>4. Cardinality(Using)' = Cardinality(Using) + 0 BY UsingMoves, Zenon
  <1>5. QED BY <1>1, <1>2, <1>3, <1>4, SumMoves

(* A user counted is a user: the count can go down where the code takes one off. *)
LEMMA UserCounted ==
    ASSUME Types, UsersSum
    PROVE  /\ \A t \in T : run[t].out => users > 0
           /\ st.pc = "resolving" => users > 0
           /\ \A t \in Q : q[t].pc = "using" => users > 0
  <1>1. Out # {} => Cardinality(Out) # 0 BY FiniteThreads, FS_EmptySet, Zenon
  <1>2. Using # {} => Cardinality(Using) # 0 BY FiniteThreads, FS_EmptySet, Zenon
  <1>3. (st.pc = "resolving" => B(st.pc = "resolving") = 1)
        /\ (st.pc # "resolving" => B(st.pc = "resolving") = 0) BY Zenon DEF B
  <1>4. users = Cardinality(Out) + B(st.pc = "resolving") + Cardinality(Using) BY Zenon DEF UsersSum
  <1>5. Cardinality(Out) # 0 \/ Cardinality(Using) # 0 \/ st.pc = "resolving" => users > 0
    BY <1>3, <1>4, FiniteThreads
  <1>6. QED BY <1>1, <1>2, <1>5, Zenon DEF Out, Using

------------------------------------------------------------------------------
(* Steps of the status thread with the mutex *)

(* The call of retest, if there is one, is of the thread itself. *)
LEMMA StartedRuns ==
    ASSUME Types, NEW t \in T, Started(t, run')
    PROVE  /\ run' \in [T -> Runs]
           /\ \A x \in T \ {t} : run'[x] = run[x]
           /\ run' # run => run'[t].on /\ ~run'[t].out /\ ~run'[t].counted /\ run'[t].i \in DOMAIN servers
  <1>1. run \in [T -> Runs] /\ servers \in Seq(servparm_t) BY Zenon DEF Types
  <1>2. CASE run' = run BY <1>1, <1>2, Zenon
  <1>3. CASE run' # run
    <2>1. PICK i \in DOMAIN servers, f \in Nat, l \in Nat : run' = [run EXCEPT ![t] = Running(i, f, l)]
      BY <1>3, Zenon DEF Started
    <2>2. i \in Nat BY <1>1
    <2>3. Running(i, f, l) \in Runs BY <2>2, Zenon DEF Running, Runs
    <2>4. Running(i, f, l).on = TRUE /\ Running(i, f, l).out = FALSE
          /\ Running(i, f, l).counted = FALSE /\ Running(i, f, l).i = i BY Zenon DEF Running
    <2>5. QED BY <1>1, <2>1, <2>3, <2>4, Zenon
  <1>4. QED BY <1>2, <1>3, Zenon

(* What every step is shown to do: it keeps the invariant, the table moves as it
   may, a thread is begun where there is none, and harm done is not undone. *)
Kept ==
    /\ Inv' /\ TableMoves
    /\ st'.pc = "lock" => st.pc \in {"off", "lock"}
    /\ boot = "hurt" => boot' \in {"hurt", "crashed"}

(* A step of another thread leaves the status thread alone or starts it. *)
StKept == st' \in Threads /\ (st' = st \/ (st.pc = "off" /\ st'.pc = "lock" /\ st'.g = 0))

Hurting == boot' = boot \/ (boot \in {"up", "hurt"} /\ boot' = "hurt")

LEMMA InStStep ==
    ASSUME Inv, mutex = "st", ~run["st"].on, UNCHANGED <<mutex, users, pings, intr, thrid, q, ctl, gen>>,
           flag' \in BOOLEAN, TableMoves, Started("st", run'), Hurting,
           st' \in Threads, st'.pc \in Holding, run' # run => st'.pc \in Retested, Places'
    PROVE  Kept
  <1>1. Types /\ UsersExact /\ Mutexes /\ Places /\ Booted /\ InterruptSpent BY Zenon DEF Inv
  <1>2. "st" \in T /\ Q \subseteq T BY Zenon DEF T
  <1>3. /\ run' \in [T -> Runs] /\ \A x \in T \ {"st"} : run'[x] = run[x]
        /\ run' # run => run'["st"].on /\ ~run'["st"].out /\ ~run'["st"].counted
                          /\ run'["st"].i \in DOMAIN servers
    BY <1>1, <1>2, StartedRuns, Zenon
  <1>4. servers' \in Seq(servparm_t) /\ DOMAIN servers' = DOMAIN servers BY <1>1, MovedType, Zenon
  <1>5. Types' BY <1>1, <1>3, <1>4, Zenon DEF Types, Hurting
  <1>6. ~run["st"].out /\ ~run'["st"].out BY <1>1, <1>2, <1>3, Zenon DEF Mutexes
  <1>7. SameOut
    <2>1. run \in [T -> Runs] BY <1>1, Zenon DEF Types
    <2>2. run["st"].out \in BOOLEAN /\ run'["st"].out \in BOOLEAN BY <1>2, <1>3, <2>1, Zenon DEF Runs
    <2>3. QED BY <1>3, <1>6, <2>2, Zenon DEF SameOut
  <1>8. st.pc \in Holding BY <1>1, Zenon DEF Mutexes
  <1>9. UsersExact'
    <2>1. SameResolving BY <1>8, Zenon DEF SameResolving, Holding
    <2>2. SameUsing BY Zenon DEF SameUsing
    <2>3. UsersSum' BY <1>1, <1>7, <2>1, <2>2, SumSame, Halves, Zenon
    <2>4. PingsSum'
      <3>1. pings = B(FALSE) BY <1>1, <1>6, Zenon DEF UsersExact, B
      <3>2. QED BY <1>6, <3>1, Zenon DEF PingsSum, B
    <2>5. QED BY <2>3, <2>4, Zenon DEF UsersExact, UsersSum, PingsSum, Out, Using
  <1>10. Mutexes'
    <2>1. \A t \in Q : t # "st" /\ run'[t] = run[t] BY <1>2, <1>3, ThreadsAssumption, Zenon
    <2>2. \A t \in T : run'[t].out => run'[t].on /\ mutex' # t
      BY <1>1, <1>3, <1>6, Zenon DEF Mutexes
    <2>3. \A t \in T : run'[t].on => (mutex' = t \/ run'[t].out) /\ run'[t].i \in DOMAIN servers'
      BY <1>1, <1>3, <1>4, Zenon DEF Mutexes
    <2>4. \A t \in Q : (run'[t].on \/ mutex' = t => q'[t].pc = "scan") /\ ~run'[t].counted
      BY <1>1, <2>1, Zenon DEF Mutexes
    <2>5. run'["st"].on => st'.pc \in Retested BY <1>3, Zenon
    <2>6. QED BY <2>2, <2>3, <2>4, <2>5, Zenon DEF Mutexes
  <1>11. Booted' BY <1>1, <1>8, Zenon DEF Booted, Hurting, Holding
  <1>12. InterruptSpent' BY Zenon DEF InterruptSpent, Holding, Scanning
  <1>13. st'.pc # "lock" /\ (boot = "hurt" => boot' = "hurt") BY Zenon DEF Holding, Hurting
  <1>14. QED BY <1>5, <1>9, <1>10, <1>11, <1>12, <1>13, Zenon DEF Inv, Kept

(* The next values of the thread's own variables. *)
LEMMA KeepIs ==
    ASSUME st \in Threads, NEW b \in BOOLEAN
    PROVE  /\ Keep(b) \in Threads /\ Keep(b).pc = st.pc /\ Keep(b).i = st.i /\ Keep(b).g = st.g
           /\ Keep(b).n = st.n /\ Keep(b).keep = (st.keep \/ b)
  <1> DEFINE e == st.keep \/ b
  <1>1. st.keep \in BOOLEAN BY Zenon DEF Threads
  <1>2. e \in BOOLEAN BY <1>1, Zenon
  <1>3. Keep(b) = [st EXCEPT !.keep = e] BY Zenon DEF Keep
  <1> HIDE DEF e
  <1>4. /\ Keep(b) \in Threads /\ Keep(b).pc = st.pc /\ Keep(b).i = st.i /\ Keep(b).g = st.g
        /\ Keep(b).n = st.n /\ Keep(b).keep = e
    BY <1>2, <1>3, Zenon DEF Threads
  <1>5. QED BY <1>4, Zenon DEF e

LEMMA NextSectionIs ==
    ASSUME st \in Threads, NEW b \in BOOLEAN
    PROVE  LET s == NextSection(Keep(b))
           IN  /\ s \in Threads /\ s.pc = "section" /\ s.i = st.i + 1 /\ s.g = st.g /\ s.n = st.n
               /\ s.keep = (st.keep \/ b)
  <1> DEFINE k == Keep(b)  s == NextSection(k)
  <1>1. k \in Threads /\ k.i = st.i /\ k.g = st.g /\ k.n = st.n /\ k.keep = (st.keep \/ b) BY KeepIs, Zenon
  <1> HIDE DEF k
  <1>2. k.i + 1 \in Nat /\ "section" \in PCs BY <1>1 DEF Threads, PCs, Scanning
  <1>3. s = [k EXCEPT !.pc = "section", !.i = k.i + 1] BY Zenon DEF NextSection
  <1>4. s \in Threads /\ s.pc = "section" /\ s.i = k.i + 1 /\ s.g = k.g /\ s.n = k.n /\ s.keep = k.keep
    BY <1>1, <1>2, <1>3, Zenon DEF Threads
  <1>5. QED BY <1>1, <1>4, Zenon DEF k

LEMMA NextIs ==
    ASSUME st \in Threads
    PROVE  /\ NextSection(st) \in Threads /\ NextSection(st).pc = "section"
           /\ NextSection(st).i = st.i + 1 /\ NextSection(st).g = st.g /\ NextSection(st).n = st.n
           /\ NextSection(st).keep = st.keep
  <1>1. st.i + 1 \in Nat /\ "section" \in PCs BY DEF Threads, PCs, Scanning
  <1>2. NextSection(st) = [st EXCEPT !.pc = "section", !.i = st.i + 1] BY Zenon DEF NextSection
  <1>3. QED BY <1>1, <1>2, Zenon DEF Threads

(* On to the next section. *)
LEMMA Advances ==
    ASSUME Inv, mutex = "st", ~run["st"].on, UNCHANGED <<mutex, users, pings, intr, flag, thrid, q, ctl, gen>>,
           TableMoves, Started("st", run'), Hurting,
           st' \in Threads, st'.pc = "section", st'.i = st.i + 1, st'.g = st.g
    PROVE  Kept
  <1>1. Types /\ Places BY Zenon DEF Inv
  <1>2. DOMAIN servers' = DOMAIN servers BY <1>1, MovedType, Zenon
  <1>3. st.i \in Nat BY <1>1, Zenon DEF Types, Threads
  <1>4. Places' BY <1>1, <1>2, <1>3 DEF Places, AtSection
  <1>5. st'.pc \in Holding /\ st'.pc \in Retested BY Zenon DEF Holding, Retested
  <1>6. flag' \in BOOLEAN BY <1>1, Zenon DEF Types
  <1>7. QED BY <1>4, <1>5, <1>6, InStStep, Zenon

(* The thread stays at a section of the table. *)
LEMMA Stays ==
    ASSUME Inv, mutex = "st", ~run["st"].on, UNCHANGED <<mutex, users, pings, intr, flag, thrid, q, ctl, gen>>,
           SameTable(servers, servers'), Started("st", run'), Hurting, run' # run => st'.pc \in Retested,
           st' \in Threads, st'.pc \in Holding \ {"pass"}, st'.i = st.i, st'.g = st.g \/ st'.g = gen,
           st.i \in DOMAIN servers, st'.pc = "resolve" => servers[st.i].at # << >>
    PROVE  Kept
  <1>1. Types /\ Places BY Zenon DEF Inv
  <1>2. TableMoves BY Zenon DEF TableMoves
  <1>3. DOMAIN servers' = DOMAIN servers BY <1>1, <1>2, MovedType, Zenon
  <1>4. st.i \in Nat /\ st.i >= 1 /\ st.g \in Nat /\ gen \in Nat BY <1>1 DEF Types, Threads
  <1>5. st'.pc = "resolve" => servers'[st'.i].at # << >>
    <2>1. servers \in Seq(servparm_t) /\ servers' \in Seq(servparm_t) BY <1>1, Zenon DEF Types, SameTable
    <2>2. servers[st.i].at \in Seq(atup_t) /\ servers'[st.i].at \in Seq(atup_t)
      BY <1>3, <2>1, AtType, Zenon
    <2>3. DOMAIN servers[st.i].at = DOMAIN servers'[st.i].at BY Zenon DEF SameTable, SameSection, SameAts
    <2>4. QED BY <2>2, <2>3
  <1>6. Places'
    BY <1>1, <1>3, <1>4, <1>5 DEF Places, AtSection, Holding
  <1>7. flag' \in BOOLEAN BY <1>1, Zenon DEF Types
  <1>8. QED BY <1>2, <1>6, <1>7, InStStep, Zenon

LEMMA PcIs ==
    ASSUME st \in Threads, NEW p \in PCs
    PROVE  LET s == [st EXCEPT !.pc = p]
           IN  /\ s \in Threads /\ s.pc = p /\ s.i = st.i /\ s.g = st.g /\ s.n = st.n /\ s.j = st.j
               /\ s.keep = st.keep
  BY Zenon DEF Threads

LEMMA EachIs ==
    ASSUME st \in Threads, NEW b \in BOOLEAN
    PROVE  LET s == [Keep(b) EXCEPT !.pc = "each", !.j = 1]
           IN  /\ s \in Threads /\ s.pc = "each" /\ s.i = st.i /\ s.g = st.g /\ s.n = st.n
               /\ s.keep = (st.keep \/ b)
  <1> DEFINE k == Keep(b)
  <1>1. k \in Threads /\ k.i = st.i /\ k.g = st.g /\ k.n = st.n /\ k.keep = (st.keep \/ b)
    BY KeepIs, Zenon
  <1> HIDE DEF k
  <1>2. 1 \in Nat /\ "each" \in PCs BY Zenon DEF PCs, Scanning
  <1>3. LET s == [k EXCEPT !.pc = "each", !.j = 1]
        IN  s \in Threads /\ s.pc = "each" /\ s.i = k.i /\ s.g = k.g /\ s.n = k.n /\ s.keep = k.keep
    BY <1>1, <1>2, Zenon DEF Threads
  <1>4. QED BY <1>1, <1>3 DEF k

LEMMA SectionIs ==
    ASSUME st \in Threads, NEW p \in PCs, gen \in Nat
    PROVE  LET s == [[st EXCEPT !.g = gen, !.freed = FALSE] EXCEPT !.pc = p]
           IN  /\ s \in Threads /\ s.pc = p /\ s.i = st.i /\ s.g = gen /\ s.n = st.n
               /\ s.keep = st.keep
  <1> DEFINE m == [st EXCEPT !.g = gen, !.freed = FALSE]
  <1>1. FALSE \in BOOLEAN BY Zenon
  <1>2. m \in Threads /\ m.i = st.i /\ m.g = gen /\ m.n = st.n /\ m.keep = st.keep
    BY <1>1, Zenon DEF Threads
  <1> HIDE DEF m
  <1>3. LET s == [m EXCEPT !.pc = p]
        IN  s \in Threads /\ s.pc = p /\ s.i = m.i /\ s.g = m.g /\ s.n = m.n /\ s.keep = m.keep
    BY <1>2, Zenon DEF Threads
  <1>4. QED BY <1>2, <1>3, Zenon DEF m

LEMMA SetsDue ==
    ASSUME Types, NEW i \in DOMAIN servers, NEW J, NEW due \in BOOLEAN,
           servers' = [servers EXCEPT ![i].at = SetDue(@, J, due)]
    PROVE  SameTable(servers, servers')
  <1> DEFINE f == SetDue(servers[i].at, J, due)
  <1>1. servers \in Seq(servparm_t) BY Zenon DEF Types
  <1>2. f \in Seq(atup_t) /\ SameAts(servers[i].at, f) BY <1>1, AtType, SetDueAt, Zenon
  <1>3. servers' = [servers EXCEPT ![i].at = f] BY Zenon
  <1> HIDE DEF f
  <1>4. SameTable(servers, [servers EXCEPT ![i].at = f]) BY <1>1, <1>2, SetAt, Zenon
  <1>5. QED BY <1>3, <1>4, Zenon

LEMMA SameMoves ==
    ASSUME Types
    PROVE  /\ SameTable(servers, servers') /\ gen' = gen => TableMoves
           /\ servers' = servers => SameTable(servers, servers')
           /\ run' = run => Started("st", run')
           /\ boot' = boot => Hurting
  BY SameRefl, Zenon DEF Types, TableMoves, Started, Hurting

LEMMA StPassKeeps == ASSUME Inv, StPass PROVE Kept
  <1>1. Types /\ Places BY Zenon DEF Inv
  <1>2. st \in Threads /\ servers \in Seq(servparm_t) BY <1>1, Zenon DEF Types
  <1>3. st' \in Threads /\ st'.pc = "section" /\ st'.i = 1 /\ st'.g = st.g
    <2>1. st' = [st EXCEPT !.pc = "section", !.keep = FALSE, !.i = 1, !.n = Len(servers)] BY Zenon DEF StPass
    <2>2. Len(servers) \in Nat /\ 1 \in Nat /\ FALSE \in BOOLEAN /\ "section" \in PCs
      BY <1>2 DEF PCs, Scanning
    <2>3. QED BY <1>2, <2>1, <2>2, Zenon DEF Threads
  <1>4. /\ mutex = "st" /\ ~run["st"].on
        /\ UNCHANGED <<servers, run, boot, mutex, users, pings, intr, thrid, q, ctl, gen>>
        /\ flag' \in BOOLEAN
    BY Zenon DEF StPass, InSt
  <1>5. TableMoves /\ Started("st", run') /\ Hurting BY <1>1, <1>4, SameMoves, Zenon
  <1>6. Places' BY <1>1, <1>3, <1>4 DEF Places, AtSection
  <1>7. st'.pc \in Holding BY <1>3, Zenon DEF Holding
  <1>8. QED BY <1>3, <1>4, <1>5, <1>6, <1>7, InStStep, Zenon

LEMMA StSectionKeeps == ASSUME Inv, StSection PROVE Kept
  <1>1. Types /\ Places BY Zenon DEF Inv
  <1>2. st \in Threads /\ servers \in Seq(servparm_t) /\ gen \in Nat BY <1>1, Zenon DEF Types
  <1>3. /\ mutex = "st" /\ ~run["st"].on /\ st.pc = "section"
        /\ UNCHANGED <<boot, mutex, users, pings, intr, flag, thrid, q, ctl, gen>>
    BY Zenon DEF StSection, InSt
  <1>4. st.i \in DOMAIN servers
    <2>1. st.i >= 1 BY <1>1, <1>3, Zenon DEF Places, Scanning
    <2>2. QED BY <1>2, <2>1 DEF StSection, Threads
  <1>5. Sp.at \in Seq(atup_t) BY <1>2, <1>4, AtType, Zenon DEF Sp
  <1>6. {"tests", "resolve", "retested"} \subseteq PCs \cap (Holding \ {"pass"}) BY Zenon DEF PCs, Scanning, Holding
  <1>7. Hurting BY <1>1, <1>3, SameMoves, Zenon
  <1> DEFINE to(p) == [[st EXCEPT !.g = gen, !.freed = FALSE] EXCEPT !.pc = p]
  <1>8. \A p \in {"tests", "resolve", "retested"} :
          to(p) \in Threads /\ to(p).pc = p /\ to(p).i = st.i /\ to(p).g = gen
    BY <1>2, <1>6, SectionIs, Zenon
  <1> HIDE DEF to
  <1>9. CASE st' = to("tests") /\ UNCHANGED <<servers, run>>
    <2>1. SameTable(servers, servers') /\ Started("st", run') BY <1>1, <1>9, SameMoves, Zenon
    <2>2. QED BY <1>3, <1>4, <1>6, <1>7, <1>8, <1>9, <2>1, Stays, Zenon
  <1> DEFINE nit == needs_intermittent_testing(Sp)
  <1>10. nit \in BOOLEAN BY Zenon DEF needs_intermittent_testing
  <1> HIDE DEF nit
  <1>11. ASSUME st' = NextSection(Keep(nit)), UNCHANGED run, SameTable(servers, servers') PROVE Kept
    <2>1. TableMoves /\ Started("st", run') BY <1>1, <1>3, <1>11, SameMoves, Zenon
    <2>2. st' \in Threads /\ st'.pc = "section" /\ st'.i = st.i + 1 /\ st'.g = st.g
      BY <1>2, <1>10, <1>11, NextSectionIs, Zenon
    <2>3. QED BY <1>3, <1>7, <1>11, <2>1, <2>2, Advances, Zenon
  <1>12. CASE servers' = [servers EXCEPT ![st.i].at = SetDue(@, DOMAIN Sp.at, FALSE)]
              /\ st' = NextSection(Keep(nit)) /\ UNCHANGED run
    BY <1>1, <1>4, <1>11, <1>12, SetsDue, Zenon
  <1>13. ASSUME servers' = (IF Sp.interval > 0 THEN servers
                            ELSE [servers EXCEPT ![st.i].at = SetDue(@, DOMAIN Sp.at, FALSE)]),
                (st' = to("resolve") /\ DOMAIN Sp.at # {}) \/ st' = NextSection(Keep(nit)),
                UNCHANGED run
         PROVE  Kept
    <2>1. SameTable(servers, servers') BY <1>1, <1>4, <1>13, SetsDue, SameMoves, Zenon
    <2>2. CASE st' = NextSection(Keep(nit)) BY <1>11, <1>13, <2>1, <2>2, Zenon
    <2>3. CASE st' = to("resolve") /\ DOMAIN Sp.at # {}
      <3>1. servers[st.i].at # << >> BY <1>5, <2>3 DEF Sp
      <3>2. Started("st", run') BY <1>1, <1>13, SameMoves, Zenon
      <3>3. QED BY <1>3, <1>4, <1>6, <1>7, <1>8, <1>13, <2>1, <2>3, <3>1, <3>2, Stays, Zenon
    <2>4. QED BY <1>13, <2>2, <2>3, Zenon
  <1>14. CASE Retest("st", st.i, 0) /\ st' = to("retested")
    <2>1. SameTable(servers, servers') /\ Started("st", run')
      BY <1>1, <1>4, <1>14, RetestEffect, Zenon DEF T
    <2>2. "retested" \in Retested BY Zenon DEF Retested
    <2>3. QED BY <1>3, <1>4, <1>6, <1>7, <1>8, <1>14, <2>1, <2>2, Stays, Zenon
  <1>15. QED
    <2> DEFINE some == IF Sp.interval > 0 THEN DOMAIN Sp.at # {}
                       ELSE \E j \in DOMAIN Sp.at : Sp.at[j].up \/ Sp.at[j].due
    <2>1. some => DOMAIN Sp.at # {} BY Zenon
    <2>2. \/ st' = to("tests") /\ UNCHANGED <<servers, run>>
          \/ /\ servers' = [servers EXCEPT ![st.i].at = SetDue(@, DOMAIN Sp.at, FALSE)]
             /\ st' = NextSection(Keep(nit)) /\ UNCHANGED run
          \/ /\ servers' = IF Sp.interval > 0 THEN servers
                           ELSE [servers EXCEPT ![st.i].at = SetDue(@, DOMAIN Sp.at, FALSE)]
             /\ st' = IF some THEN to("resolve") ELSE NextSection(Keep(nit))
             /\ UNCHANGED run
          \/ Retest("st", st.i, 0) /\ st' = to("retested")
      BY Zenon DEF StSection, to, nit
    <2> HIDE DEF some
    <2>3. QED BY <1>9, <1>12, <1>13, <1>14, <2>1, <2>2, Zenon

LEMMA StRetestedKeeps == ASSUME Inv, StRetested PROVE Kept
  <1>1. Types /\ Places BY Zenon DEF Inv
  <1>2. st \in Threads /\ servers \in Seq(servparm_t) BY <1>1, Zenon DEF Types
  <1>3. /\ mutex = "st" /\ ~run["st"].on /\ st.pc = "retested"
        /\ UNCHANGED <<servers, run, boot, mutex, users, pings, intr, flag, thrid, q, ctl, gen>>
    BY Zenon DEF StRetested, InSt
  <1>4. st.i \in DOMAIN servers BY <1>1, <1>3, Zenon DEF Places, AtSection
  <1>5. SameTable(servers, servers') /\ TableMoves /\ Started("st", run') /\ Hurting
    BY <1>1, <1>3, SameMoves, Zenon
  <1> DEFINE nit == needs_intermittent_testing(Sp)
  <1>6. nit \in BOOLEAN BY Zenon DEF needs_intermittent_testing
  <1>7. (st' = [st EXCEPT !.pc = "resolve"] /\ DOMAIN Sp.at # {}) \/ st' = NextSection(Keep(nit))
    BY Zenon DEF StRetested
  <1> HIDE DEF nit
  <1>8. CASE st' = [st EXCEPT !.pc = "resolve"] /\ DOMAIN Sp.at # {}
    <2>1. "resolve" \in PCs /\ "resolve" \in Holding \ {"pass"} BY Zenon DEF PCs, Scanning, Holding
    <2>2. st' \in Threads /\ st'.pc = "resolve" /\ st'.i = st.i /\ st'.g = st.g BY <1>2, <1>8, <2>1, PcIs, Zenon
    <2>3. servers[st.i].at # << >> BY <1>2, <1>4, <1>8, AtType DEF Sp
    <2>4. QED BY <1>3, <1>4, <1>5, <2>1, <2>2, <2>3, Stays, Zenon
  <1>9. CASE st' = NextSection(Keep(nit))
    <2>1. st' \in Threads /\ st'.pc = "section" /\ st'.i = st.i + 1 /\ st'.g = st.g
      BY <1>2, <1>6, <1>9, NextSectionIs, Zenon
    <2>2. QED BY <1>3, <1>5, <2>1, Advances, Zenon
  <1>10. QED BY <1>7, <1>8, <1>9, Zenon

LEMMA StNoMemoryKeeps == ASSUME Inv, StNoMemory PROVE Kept
  <1>1. Types BY Zenon DEF Inv
  <1>2. st \in Threads BY <1>1, Zenon DEF Types
  <1>3. /\ mutex = "st" /\ ~run["st"].on
        /\ UNCHANGED <<servers, run, boot, mutex, users, pings, intr, flag, thrid, q, ctl, gen>>
    BY Zenon DEF StNoMemory, InSt
  <1>4. TableMoves /\ Started("st", run') /\ Hurting BY <1>1, <1>3, SameMoves, Zenon
  <1>5. st' \in Threads /\ st'.pc = "section" /\ st'.i = st.i + 1 /\ st'.g = st.g
    BY <1>2, NextSectionIs, Zenon DEF StNoMemory
  <1>6. QED BY <1>3, <1>4, <1>5, Advances, Zenon

LEMMA StBeyondKeeps == ASSUME Inv, StBeyond PROVE Kept
  <1>1. Types BY Zenon DEF Inv
  <1>2. st \in Threads BY <1>1, Zenon DEF Types
  <1>3. /\ mutex = "st" /\ ~run["st"].on
        /\ UNCHANGED <<servers, run, boot, mutex, users, pings, intr, flag, thrid, q, ctl, gen>>
    BY Zenon DEF StBeyond, InSt
  <1>4. TableMoves /\ Started("st", run') /\ Hurting BY <1>1, <1>3, SameMoves, Zenon
  <1>5. st' \in Threads /\ st'.pc = "section" /\ st'.i = st.i + 1 /\ st'.g = st.g
    BY <1>2, NextIs, Zenon DEF StBeyond
  <1>6. QED BY <1>3, <1>4, <1>5, Advances, Zenon

LEMMA StStaleRootKeeps == ASSUME Inv, NEW keep \in BOOLEAN, boot # "crashed", StStaleRoot(keep) PROVE Kept
  <1>1. Types /\ Places /\ Booted BY Zenon DEF Inv
  <1>2. st \in Threads /\ servers \in Seq(servparm_t) /\ gen \in Nat
        /\ boot \in {"create", "setid", "up", "hurt", "crashed"} BY <1>1, Zenon DEF Types
  <1>3. /\ mutex = "st" /\ ~run["st"].on /\ st.pc = "await" /\ st.g # gen /\ boot' = "hurt"
        /\ UNCHANGED <<mutex, users, pings, intr, flag, thrid, q, ctl, gen>>
    BY Zenon DEF StStaleRoot, InSt
  <1>4. Hurting
    <2>1. gen # 0 BY <1>1, <1>2, <1>3 DEF Places, Threads
    <2>2. QED BY <1>1, <1>2, <1>3, <2>1, Zenon DEF Booted, Hurting
  <1>5. SameTable(servers, servers') /\ Started("st", run')
    <2>1. CASE st.i <= Len(servers) /\ Retest("st", st.i, 0)
      <3>1. st.i >= 1 BY <1>1, <1>3, Zenon DEF Places, Scanning
      <3>2. st.i \in DOMAIN servers BY <1>2, <2>1, <3>1 DEF Threads
      <3>3. QED BY <1>1, <2>1, <3>2, RetestEffect, Zenon DEF T
    <2>2. CASE UNCHANGED <<servers, run>> BY <1>1, <2>2, SameMoves, Zenon
    <2>3. QED BY <2>1, <2>2, Zenon DEF StStaleRoot
  <1>6. TableMoves BY <1>1, <1>3, <1>5, SameMoves, Zenon
  <1>7. st' \in Threads /\ st'.pc = "section" /\ st'.i = st.i + 1 /\ st'.g = st.g
    BY <1>2, NextSectionIs, Zenon DEF StStaleRoot
  <1>8. QED BY <1>3, <1>4, <1>5, <1>6, <1>7, Advances, Zenon

LEMMA StTestsKeeps == ASSUME Inv, StTests PROVE Kept
  <1>1. Types /\ Places BY Zenon DEF Inv
  <1>2. st \in Threads /\ servers \in Seq(servparm_t) BY <1>1, Zenon DEF Types
  <1>3. /\ mutex = "st" /\ ~run["st"].on /\ st.pc = "tests"
        /\ UNCHANGED <<boot, mutex, users, pings, intr, flag, thrid, q, ctl, gen>>
    BY Zenon DEF StTests, InSt
  <1>4. st.i \in DOMAIN servers BY <1>1, <1>3, Zenon DEF Places, AtSection
  <1>5. Hurting BY <1>1, <1>3, SameMoves, Zenon
  <1> DEFINE nt == needs_testing(Sp)
  <1>6. nt \in BOOLEAN BY Zenon DEF needs_testing
  <1>7. \/ st' = [Keep(nt) EXCEPT !.pc = "each", !.j = 1] /\ UNCHANGED <<servers, run>>
        \/ st' = NextSection(Keep(nt)) /\ (UNCHANGED <<servers, run>> \/ Retest("st", st.i, 0))
    BY Zenon DEF StTests
  <1> HIDE DEF nt
  <1>8. CASE st' = [Keep(nt) EXCEPT !.pc = "each", !.j = 1] /\ UNCHANGED <<servers, run>>
    <2>1. st' \in Threads /\ st'.pc = "each" /\ st'.i = st.i /\ st'.g = st.g BY <1>2, <1>6, <1>8, EachIs, Zenon
    <2>2. "each" \in Holding \ {"pass"} /\ "each" # "resolve" BY Zenon DEF Holding
    <2>3. SameTable(servers, servers') /\ Started("st", run') BY <1>1, <1>8, SameMoves, Zenon
    <2>4. QED BY <1>3, <1>4, <1>5, <1>8, <2>1, <2>2, <2>3, Stays, Zenon
  <1>9. CASE st' = NextSection(Keep(nt)) /\ (UNCHANGED <<servers, run>> \/ Retest("st", st.i, 0))
    <2>1. SameTable(servers, servers') /\ Started("st", run')
      BY <1>1, <1>4, <1>9, RetestEffect, SameMoves, Zenon DEF T
    <2>2. TableMoves BY <1>1, <1>3, <2>1, SameMoves, Zenon
    <2>3. st' \in Threads /\ st'.pc = "section" /\ st'.i = st.i + 1 /\ st'.g = st.g
      BY <1>2, <1>6, <1>9, NextSectionIs, Zenon
    <2>4. QED BY <1>3, <1>5, <2>1, <2>2, <2>3, Advances, Zenon
  <1>10. QED BY <1>7, <1>8, <1>9, Zenon

LEMMA StEachKeeps == ASSUME Inv, NEW elapsed \in BOOLEAN, StEach(elapsed) PROVE Kept
  <1>1. Types /\ Places BY Zenon DEF Inv
  <1>2. st \in Threads /\ servers \in Seq(servparm_t) /\ st.j \in Nat BY <1>1, Zenon DEF Types, Threads
  <1>3. /\ mutex = "st" /\ ~run["st"].on /\ st.pc = "each"
        /\ UNCHANGED <<boot, mutex, users, pings, intr, flag, thrid, q, ctl, gen>>
    BY Zenon DEF StEach, InSt
  <1>4. st.i \in DOMAIN servers BY <1>1, <1>3, Zenon DEF Places, AtSection
  <1>5. Hurting BY <1>1, <1>3, SameMoves, Zenon
  <1>6. \/ st' = NextSection(st) /\ UNCHANGED <<servers, run>>
        \/ /\ st' = [st EXCEPT !.j = @ + 1]
           /\ Retest("st", st.i, st.j) \/ UNCHANGED <<servers, run>>
    BY Zenon DEF StEach
  <1>7. CASE st' = NextSection(st) /\ UNCHANGED <<servers, run>>
    <2>1. TableMoves /\ Started("st", run') BY <1>1, <1>3, <1>7, SameMoves, Zenon
    <2>2. st' \in Threads /\ st'.pc = "section" /\ st'.i = st.i + 1 /\ st'.g = st.g
      BY <1>2, <1>7, NextIs, Zenon
    <2>3. QED BY <1>3, <1>5, <2>1, <2>2, Advances, Zenon
  <1>8. CASE /\ st' = [st EXCEPT !.j = @ + 1]
             /\ Retest("st", st.i, st.j) \/ UNCHANGED <<servers, run>>
    <2>1. st' \in Threads /\ st'.pc = "each" /\ st'.i = st.i /\ st'.g = st.g
      <3>1. st' = [st EXCEPT !.j = st.j + 1] /\ st.j + 1 \in Nat BY <1>2, <1>8
      <3>2. QED BY <1>2, <1>3, <3>1, Zenon DEF Threads
    <2>2. SameTable(servers, servers') /\ Started("st", run')
      BY <1>1, <1>2, <1>4, <1>8, RetestEffect, SameMoves, Zenon DEF T
    <2>3. "each" \in Holding \ {"pass"} /\ "each" \in Retested /\ "each" # "resolve" BY Zenon DEF Holding, Retested
    <2>4. QED BY <1>3, <1>4, <1>5, <2>1, <2>2, <2>3, Stays, Zenon
  <1>9. QED BY <1>6, <1>7, <1>8, Zenon

LEMMA StSetRootKeeps ==
    ASSUME Inv, NEW hs \in Addresses \union {RootAddresses}, StSetRoot(hs)
    PROVE  Kept
  <1>1. Types /\ Places BY Zenon DEF Inv
  <1>2. st \in Threads /\ servers \in Seq(servparm_t) /\ flag \in BOOLEAN /\ hs \in Seq(Hosts)
    BY <1>1, TablesAssumption, Zenon DEF Types
  <1>3. /\ mutex = "st" /\ ~run["st"].on /\ st.pc = "await" /\ st.g = gen /\ users = 0
        /\ UNCHANGED <<boot, run, mutex, users, pings, intr, flag, thrid, q, ctl, gen>>
    BY Zenon DEF StSetRoot, InSt
  <1>4. st.i \in DOMAIN servers BY <1>1, <1>3, Zenon DEF Places
  <1> DEFINE sp == Discovered(servers[st.i], hs)
  <1>5. sp \in servparm_t /\ SameParms(servers[st.i], sp) /\ sp.root = 1
    <2> DEFINE at == [j \in DOMAIN hs |-> [a |-> hs[j], up |-> servers[st.i].preset,
                                          due |-> servers[st.i].interval >= 0]]
    <2>1. servers[st.i] \in servparm_t BY <1>2, <1>4
    <2>2. at \in Seq(atup_t)
      <3>1. servers[st.i].preset \in BOOLEAN /\ (servers[st.i].interval >= 0) \in BOOLEAN
        BY <2>1 DEF servparm_t
      <3>2. QED BY <1>2, <3>1, FreshAt, Zenon
    <2>3. sp = [servers[st.i] EXCEPT !.root = 1, !.at = at] BY Zenon DEF Discovered
    <2> HIDE DEF at, sp
    <2>4. QED BY <2>1, <2>2, <2>3, Zenon DEF servparm_t, SameParms
  <1>6. servers' = [servers EXCEPT ![st.i] = sp] BY Zenon DEF StSetRoot
  <1> HIDE DEF sp
  <1>7. TableMoves BY <1>3, <1>4, <1>5, <1>6, Zenon DEF TableMoves, OneChanged
  <1>8. DOMAIN servers' = DOMAIN servers BY <1>1, <1>3, <1>7, MovedType, Zenon
  <1>9. st' \in Threads /\ st'.pc = "tests" /\ st'.i = st.i /\ st'.g = st.g
    BY <1>2, PcIs, Zenon DEF StSetRoot, PCs, Scanning
  <1>10. Places' BY <1>1, <1>3, <1>4, <1>8, <1>9, Zenon DEF Places, AtSection, Scanning
  <1>11. Started("st", run') /\ Hurting BY <1>1, <1>3, SameMoves, Zenon
  <1>12. st'.pc \in Holding BY <1>9, Zenon DEF Holding
  <1>13. QED BY <1>2, <1>3, <1>7, <1>9, <1>10, <1>11, <1>12, InStStep, Zenon

------------------------------------------------------------------------------
(* The status thread takes or frees the mutex between two of its steps. *)

LEMMA HandStep ==
    ASSUME Inv, ~run["st"].on, mutex \in {"st", "free"}, mutex' \in {"st", "free"},
           mutex' = "st" <=> st'.pc \in Holding, st'.pc # "lock",
           UNCHANGED <<servers, gen, pings, flag, run, q, ctl, boot>>,
           st' \in Threads, thrid' \in {"main", "stt"}, intr' \in BOOLEAN, users' \in Nat, UsersSum',
           Places', Booted', InterruptSpent'
    PROVE  Kept
  <1>1. Types /\ UsersExact /\ Mutexes BY Zenon DEF Inv
  <1>2. "st" \in T /\ Q \subseteq T BY Zenon DEF T
  <1>3. Types' BY <1>1, <1>2, Zenon DEF Types
  <1>4. PingsSum' BY <1>1, Zenon DEF PingsSum, UsersExact
  <1>5. UsersExact' BY <1>4, Zenon DEF UsersExact, UsersSum, PingsSum, Out, Using
  <1>6. Mutexes'
    <2>1. ~run["st"].out BY <1>1, <1>2, Zenon DEF Mutexes
    <2>2. \A t \in Q : t # "st" /\ t # "free" BY ThreadsAssumption, Zenon
    <2>3. \A t \in T : run[t].on => t \in Q BY Zenon DEF T
    <2>4. QED BY <1>1, <1>2, <2>1, <2>2, <2>3, Zenon DEF Mutexes
  <1>7. TableMoves BY <1>1, SameMoves, Zenon
  <1>8. QED BY <1>3, <1>5, <1>6, <1>7, Zenon DEF Inv, Kept

(* The thread is not in a call of retest where it waits or begins. *)
LEMMA NoCall ==
    ASSUME Inv, st.pc \notin Retested
    PROVE  ~run["st"].on /\ ~run["st"].out
  BY Zenon DEF Inv, Mutexes, T

LEMMA SumKept ==
    ASSUME Inv, UNCHANGED <<users, run, q>>, st.pc # "resolving", st'.pc # "resolving"
    PROVE  users' \in Nat /\ UsersSum'
  <1>1. Types /\ UsersSum BY Halves, Zenon DEF Inv
  <1>2. SameOut /\ SameUsing /\ SameResolving BY Zenon DEF SameOut, SameUsing, SameResolving
  <1>3. QED BY <1>1, <1>2, SumSame, Zenon DEF Types

LEMMA StLockKeeps == ASSUME Inv, StLock PROVE Kept
  <1>1. Types /\ Places /\ Booted /\ InterruptSpent BY Zenon DEF Inv
  <1>2. st \in Threads /\ thrid \in {"main", "stt"} BY <1>1, Zenon DEF Types
  <1>3. /\ st.pc = "lock" /\ mutex = "free" /\ mutex' = "st" /\ intr' = FALSE
        /\ UNCHANGED <<servers, gen, users, pings, flag, thrid, run, q, ctl, boot>>
    BY Zenon DEF StLock
  <1>4. st' \in Threads /\ st'.pc = "pass" /\ st'.i = st.i /\ st'.g = st.g
    BY <1>2, PcIs, Zenon DEF StLock, PCs, Scanning
  <1>5. ~run["st"].on BY <1>3, NoCall, Zenon DEF Retested
  <1>6. users' \in Nat /\ UsersSum' BY <1>3, <1>4, SumKept, Zenon
  <1>7. Places' BY <1>1, <1>3, <1>4, Zenon DEF Places, AtSection
  <1>8. Booted' BY <1>1, <1>3, <1>4, Zenon DEF Booted
  <1>9. InterruptSpent' BY <1>3, Zenon DEF InterruptSpent
  <1>10. QED BY <1>2, <1>3, <1>4, <1>5, <1>6, <1>7, <1>8, <1>9, HandStep, Zenon DEF Holding

LEMMA StWakeKeeps == ASSUME Inv, StWake PROVE Kept
  <1>1. Types /\ Places /\ Booted /\ InterruptSpent BY Zenon DEF Inv
  <1>2. st \in Threads /\ thrid \in {"main", "stt"} /\ intr \in BOOLEAN BY <1>1, Zenon DEF Types
  <1>3. /\ st.pc = "sleep" /\ mutex = "free" /\ mutex' = "st"
        /\ UNCHANGED <<servers, gen, users, pings, intr, flag, thrid, run, q, ctl, boot>>
    BY Zenon DEF StWake
  <1>4. st' \in Threads /\ st'.pc = "pass" /\ st'.i = st.i /\ st'.g = st.g
    BY <1>2, PcIs, Zenon DEF StWake, PCs, Scanning
  <1>5. ~run["st"].on BY <1>3, NoCall, Zenon DEF Retested
  <1>6. users' \in Nat /\ UsersSum' BY <1>3, <1>4, SumKept, Zenon
  <1>7. Places' BY <1>1, <1>3, <1>4, Zenon DEF Places, AtSection
  <1>8. Booted' BY <1>1, <1>3, <1>4, Zenon DEF Booted
  <1>9. InterruptSpent' BY <1>1, <1>3, <1>4, Zenon DEF InterruptSpent, Scanning
  <1>10. QED BY <1>2, <1>3, <1>4, <1>5, <1>6, <1>7, <1>8, <1>9, HandStep, Zenon DEF Holding

LEMMA StAwaitKeeps == ASSUME Inv, StAwait PROVE Kept
  <1>1. Types /\ Places /\ Booted /\ InterruptSpent BY Zenon DEF Inv
  <1>2. st \in Threads /\ thrid \in {"main", "stt"} /\ intr \in BOOLEAN BY <1>1, Zenon DEF Types
  <1>3. /\ st.pc = "await" /\ mutex = "st" /\ ~run["st"].on /\ mutex' = "free"
        /\ UNCHANGED <<servers, gen, users, pings, intr, flag, thrid, run, q, ctl, boot>>
    BY Zenon DEF StAwait, InSt
  <1>4. st' \in Threads /\ st'.pc = "awaiting" /\ st'.i = st.i /\ st'.g = st.g
    BY <1>2, PcIs, Zenon DEF StAwait, PCs, Scanning
  <1>5. users' \in Nat /\ UsersSum' BY <1>3, <1>4, SumKept, Zenon
  <1>6. Places' BY <1>1, <1>3, <1>4, Zenon DEF Places, AtSection, Scanning
  <1>7. Booted' BY <1>1, <1>3, <1>4, Zenon DEF Booted
  <1>8. InterruptSpent' BY <1>1, <1>3, <1>4, Zenon DEF InterruptSpent, Scanning
  <1>9. QED BY <1>2, <1>3, <1>4, <1>5, <1>6, <1>7, <1>8, HandStep, Zenon DEF Holding

LEMMA StAwakeKeeps == ASSUME Inv, NEW timedout \in BOOLEAN, StAwake(timedout) PROVE Kept
  <1>1. Types /\ Places /\ Booted /\ InterruptSpent BY Zenon DEF Inv
  <1>2. st \in Threads /\ thrid \in {"main", "stt"} /\ intr \in BOOLEAN BY <1>1, Zenon DEF Types
  <1>3. /\ st.pc = "awaiting" /\ mutex = "free" /\ mutex' = "st"
        /\ UNCHANGED <<servers, gen, users, pings, intr, flag, thrid, run, q, ctl, boot>>
    BY Zenon DEF StAwake
  <1>4. st' \in Threads /\ st'.pc = "await" /\ st'.i = st.i /\ st'.g = st.g
    <2>1. st' = [st EXCEPT !.pc = "await", !.freed = TRUE, !.keep = TRUE] \/ st' = [st EXCEPT !.pc = "await"]
      BY Zenon DEF StAwake
    <2>2. "await" \in PCs /\ TRUE \in BOOLEAN BY Zenon DEF PCs, Scanning
    <2>3. QED BY <1>2, <2>1, <2>2, Zenon DEF Threads
  <1>5. ~run["st"].on BY <1>3, NoCall, Zenon DEF Retested
  <1>6. users' \in Nat /\ UsersSum' BY <1>3, <1>4, SumKept, Zenon
  <1>7. Places' BY <1>1, <1>3, <1>4, Zenon DEF Places, AtSection, Scanning
  <1>8. Booted' BY <1>1, <1>3, <1>4, Zenon DEF Booted
  <1>9. InterruptSpent' BY <1>1, <1>3, <1>4, Zenon DEF InterruptSpent, Scanning
  <1>10. QED BY <1>2, <1>3, <1>4, <1>5, <1>6, <1>7, <1>8, <1>9, HandStep, Zenon DEF Holding

LEMMA StResolveKeeps == ASSUME Inv, StResolve PROVE Kept
  <1>1. Types /\ UsersSum /\ Places /\ Booted /\ InterruptSpent BY Halves, Zenon DEF Inv
  <1>2. st \in Threads /\ thrid \in {"main", "stt"} /\ intr \in BOOLEAN /\ users \in Nat BY <1>1, Zenon DEF Types
  <1>3. /\ st.pc = "resolve" /\ mutex = "st" /\ ~run["st"].on /\ mutex' = "free" /\ users' = users + 1
        /\ UNCHANGED <<servers, gen, pings, intr, flag, thrid, run, q, ctl, boot>>
    BY Zenon DEF StResolve, InSt
  <1>4. st' \in Threads /\ st'.pc = "resolving" /\ st'.i = st.i /\ st'.g = st.g
    BY <1>2, PcIs, Zenon DEF StResolve, PCs, Scanning
  <1>5. UsersSum'
    <2>1. SameOut /\ SameUsing BY <1>3, Zenon DEF SameOut, SameUsing
    <2>2. users' = users + 0 + 1 + 0 BY <1>2, <1>3
    <2>3. Cardinality(Out)' = Cardinality(Out) + 0 BY <2>1, OutMoves, Zenon
    <2>4. B(st.pc = "resolving")' = B(st.pc = "resolving") + 1 BY <1>3, <1>4, ResolvingMoves, Zenon
    <2>5. Cardinality(Using)' = Cardinality(Using) + 0 BY <2>1, UsingMoves, Zenon
    <2>6. QED BY <1>1, <2>2, <2>3, <2>4, <2>5, SumMoves
  <1>6. users' \in Nat BY <1>2, <1>3
  <1>7. Places' BY <1>1, <1>3, <1>4, Zenon DEF Places, AtSection, Scanning
  <1>8. Booted' BY <1>1, <1>3, <1>4, Zenon DEF Booted
  <1>9. InterruptSpent' BY <1>1, <1>3, <1>4, Zenon DEF InterruptSpent, Scanning
  <1>10. QED BY <1>2, <1>3, <1>4, <1>5, <1>6, <1>7, <1>8, <1>9, HandStep, Zenon DEF Holding

LEMMA StResolvedKeeps == ASSUME Inv, NEW found \in BOOLEAN, StResolved(found) PROVE Kept
  <1>1. Types /\ UsersSum /\ Places /\ Booted /\ InterruptSpent BY Halves, Zenon DEF Inv
  <1>2. st \in Threads /\ thrid \in {"main", "stt"} /\ intr \in BOOLEAN /\ users \in Nat BY <1>1, Zenon DEF Types
  <1>3. /\ st.pc = "resolving" /\ mutex = "free" /\ mutex' = "st" /\ users' = users - 1
        /\ UNCHANGED <<servers, gen, pings, intr, flag, thrid, run, q, ctl, boot>>
    BY Zenon DEF StResolved
  <1>4. st' \in Threads /\ st'.g = st.g /\ ((st'.pc = "await" /\ st'.i = st.i) \/ (st'.pc = "section" /\ st'.i = st.i + 1))
    <2>1. (Sp.at # << >>) \in BOOLEAN BY Zenon
    <2>2. "await" \in PCs BY Zenon DEF PCs, Scanning
    <2>3. CASE st' = [st EXCEPT !.pc = "await"]
      <3>1. st' \in Threads /\ st'.pc = "await" /\ st'.i = st.i /\ st'.g = st.g BY <1>2, <2>2, <2>3, PcIs, Zenon
      <3>2. QED BY <3>1, Zenon
    <2>4. CASE st' = NextSection(Keep(Sp.at # << >>)) BY <1>2, <2>1, <2>4, NextSectionIs, Zenon
    <2>5. QED BY <2>3, <2>4, Zenon DEF StResolved
  <1>5. ~run["st"].on BY <1>3, NoCall, Zenon DEF Retested
  <1>6. UsersSum'
    <2>1. SameOut /\ SameUsing BY <1>3, Zenon DEF SameOut, SameUsing
    <2>2. users' = users + 0 + (-1) + 0 BY <1>2, <1>3
    <2>3. st'.pc # "resolving" BY <1>4, Zenon
    <2>4. Cardinality(Out)' = Cardinality(Out) + 0 BY <2>1, OutMoves, Zenon
    <2>5. B(st.pc = "resolving")' = B(st.pc = "resolving") + (-1) BY <1>3, <2>3, ResolvingMoves, Zenon
    <2>6. Cardinality(Using)' = Cardinality(Using) + 0 BY <2>1, UsingMoves, Zenon
    <2>7. QED BY <1>1, <2>2, <2>4, <2>5, <2>6, SumMoves
  <1>7. users' \in Nat
    <2>1. users > 0 BY <1>1, <1>3, UserCounted, Zenon
    <2>2. QED BY <1>2, <1>3, <2>1
  <1>8. Places'
    <2>1. st.i \in DOMAIN servers /\ st.i >= 1 /\ st.i \in Nat
      BY <1>1, <1>2, <1>3, Zenon DEF Places, AtSection, Scanning, Threads
    <2>2. st'.i >= 1 /\ st'.pc \notin AtSection /\ (st'.pc = "await" => st'.i \in DOMAIN servers')
      BY <1>3, <1>4, <2>1 DEF AtSection
    <2>3. st'.g <= gen' /\ (ctl'.pc = "change" => ctl'.i \in DOMAIN servers')
      BY <1>1, <1>3, <1>4, Zenon DEF Places
    <2>4. st'.pc \in {"await", "section"} BY <1>4, Zenon
    <2>5. QED BY <2>2, <2>3, <2>4, Zenon DEF Places
  <1>9. Booted' BY <1>1, <1>3, <1>4, Zenon DEF Booted
  <1>10. InterruptSpent' BY <1>1, <1>3, <1>4, Zenon DEF InterruptSpent, Scanning
  <1>11. QED BY <1>2, <1>3, <1>4, <1>5, <1>6, <1>7, <1>8, <1>9, <1>10, HandStep, Zenon DEF Holding

LEMMA StScannedKeeps == ASSUME Inv, StScanned PROVE Kept
  <1>1. Types /\ Places /\ Booted /\ InterruptSpent BY Zenon DEF Inv
  <1>2. st \in Threads /\ thrid \in {"main", "stt"} /\ intr \in BOOLEAN /\ gen \in Nat BY <1>1, Zenon DEF Types
  <1>3. /\ st.pc = "section" /\ mutex = "st" /\ ~run["st"].on
        /\ UNCHANGED <<servers, gen, users, pings, flag, run, q, ctl, boot>>
    BY Zenon DEF StScanned, InSt
  <1>4. \/ /\ st' = [st EXCEPT !.pc = "pass"] /\ UNCHANGED <<mutex, intr, thrid>>
        \/ /\ intr' = FALSE /\ mutex' = "free"
           /\ \/ st' = [st EXCEPT !.pc = "sleep"] /\ thrid' = thrid
              \/ st' = Off /\ thrid' = "main"
    BY Zenon DEF StScanned
  <1>5. st' \in Threads /\ (st'.g = st.g \/ st'.g = 0)
        /\ \/ st'.pc = "pass" /\ UNCHANGED <<mutex, intr, thrid>>
           \/ st'.pc = "sleep" /\ intr' = FALSE /\ mutex' = "free" /\ thrid' = thrid
           \/ st'.pc = "off" /\ intr' = FALSE /\ mutex' = "free" /\ thrid' = "main"
    <2>1. {"pass", "sleep", "off"} \subseteq PCs BY Zenon DEF PCs, Scanning
    <2>2. CASE st' = [st EXCEPT !.pc = "pass"] /\ UNCHANGED <<mutex, intr, thrid>>
      <3>1. st' \in Threads /\ st'.pc = "pass" /\ st'.g = st.g BY <1>2, <2>1, <2>2, PcIs, Zenon
      <3>2. QED BY <2>2, <3>1, Zenon
    <2>3. CASE intr' = FALSE /\ mutex' = "free" /\ st' = [st EXCEPT !.pc = "sleep"] /\ thrid' = thrid
      <3>1. st' \in Threads /\ st'.pc = "sleep" /\ st'.g = st.g BY <1>2, <2>1, <2>3, PcIs, Zenon
      <3>2. QED BY <2>3, <3>1, Zenon
    <2>4. CASE intr' = FALSE /\ mutex' = "free" /\ st' = Off /\ thrid' = "main"
      <3>1. st' \in Threads BY <2>1, <2>4, Zenon DEF Off, Threads
      <3>2. st'.pc = "off" /\ st'.g = 0 BY <2>4, Zenon DEF Off
      <3>3. QED BY <2>4, <3>1, <3>2, Zenon
    <2>5. QED BY <1>4, <2>2, <2>3, <2>4, Zenon
  <1>6. users' \in Nat /\ UsersSum' BY <1>3, <1>5, SumKept, Zenon
  <1>7. Places' BY <1>1, <1>2, <1>3, <1>5 DEF Places, AtSection, Scanning
  <1>8. Booted' BY <1>1, <1>3, <1>5, Zenon DEF Booted
  <1>9. InterruptSpent' BY <1>1, <1>3, <1>5, Zenon DEF InterruptSpent, Scanning
  <1>10. thrid' \in {"main", "stt"} /\ intr' \in BOOLEAN /\ mutex' \in {"st", "free"}
         /\ (mutex' = "st" <=> st'.pc \in Holding)
    BY <1>2, <1>3, <1>5, Zenon DEF Holding
  <1>11. QED BY <1>3, <1>5, <1>6, <1>7, <1>8, <1>9, <1>10, HandStep, Zenon

LEMMA Others == "st" \in T /\ Q \subseteq T /\ "free" \notin T /\ "st" # "free" /\ \A t \in Q : t # "st"
  BY ThreadsAssumption, Zenon DEF T

LEMMA StatusThreadKeeps == ASSUME Inv, boot # "crashed", StatusThread PROVE Kept
  <1>1. CASE StLock BY <1>1, StLockKeeps, Zenon
  <1>2. CASE StPass BY <1>2, StPassKeeps, Zenon
  <1>3. CASE StSection BY <1>3, StSectionKeeps, Zenon
  <1>4. CASE StRetested BY <1>4, StRetestedKeeps, Zenon
  <1>5. CASE StResolve BY <1>5, StResolveKeeps, Zenon
  <1>6. CASE \E b \in BOOLEAN : StResolved(b) \/ StAwake(b) \/ StStaleRoot(b) \/ StEach(b)
    BY <1>6, StResolvedKeeps, StAwakeKeeps, StStaleRootKeeps, StEachKeeps, Zenon
  <1>7. CASE StAwait BY <1>7, StAwaitKeeps, Zenon
  <1>8. CASE StNoMemory BY <1>8, StNoMemoryKeeps, Zenon
  <1>9. CASE StBeyond BY <1>9, StBeyondKeeps, Zenon
  <1>10. CASE StTests BY <1>10, StTestsKeeps, Zenon
  <1>11. CASE StScanned BY <1>11, StScannedKeeps, Zenon
  <1>12. CASE StWake BY <1>12, StWakeKeeps, Zenon
  <1>13. CASE \E as \in Addresses \union {RootAddresses} : StSetRoot(as) BY <1>13, StSetRootKeeps, Zenon
  <1>14. QED
    BY <1>1, <1>2, <1>3, <1>4, <1>5, <1>6, <1>7, <1>8, <1>9, <1>10, <1>11, <1>12, <1>13, Zenon DEF StatusThread

------------------------------------------------------------------------------
(* The scan of the status thread: it ends only when no section needs it. *)

(* Every table of the configuration has at most one undiscovered section. *)
One == \A tb \in Tables \union {Table0} : OneUndiscovered(tb)

(* A section that is no reason to keep the thread. *)
Passed(sp) == ~needs_intermittent_testing(sp) /\ (One /\ sp.root = 1 => ~needs_testing(sp))

(* The thread has not decided to stay, and its table was not replaced while it
   waited for the users of it.  If it was, the thread goes on with freed memory or
   decides to stay. *)
Leaving ==
    /\ boot \notin {"hurt", "crashed"} /\ st.pc \in Scanning \ {"pass"} /\ ~st.keep
    /\ st.pc \in {"await", "awaiting"} => st.g = gen

(* Where the section at hand is, or was, one to be discovered. *)
Discovering == {"retested", "resolve", "resolving", "await", "awaiting"}

(* As long as the thread may leave, it has counted the sections of the table that
   it scans, and none of those behind it is a reason to stay. *)
Scan ==
    /\ One => OneUndiscovered(servers)
    /\ Leaving =>
         /\ st.n = Len(servers)
         /\ \A k \in DOMAIN servers : k < st.i \/ (k = st.i /\ st.pc = "each") => Passed(servers[k])
         /\ One /\ st.pc \in Discovering => \A k \in DOMAIN servers \ {st.i} : servers[k].root = 1
         /\ st.pc = "retested" => servers[st.i].root = 2

------------------------------------------------------------------------------
(* The table *)

LEMMA OneKept ==
    ASSUME Inv, One, OneUndiscovered(servers), TableMoves
    PROVE  OneUndiscovered(servers')
  <1>1. CASE SameTable(servers, servers')
    BY <1>1, Zenon DEF OneUndiscovered, SameTable, SameSection
  <1>2. CASE \E i \in DOMAIN servers, sp \in servparm_t : OneChanged(i, sp)
    <2>1. PICK i \in DOMAIN servers, sp \in servparm_t : servers' = [servers EXCEPT ![i] = sp] /\ sp.root = 1
      BY <1>2, Zenon DEF OneChanged
    <2>2. servers \in Seq(servparm_t) BY Zenon DEF Inv, Types
    <2>3. DOMAIN servers' = DOMAIN servers /\ servers'[i] = sp
          /\ \A k \in DOMAIN servers : k # i => servers'[k] = servers[k] BY <2>1, <2>2, Zenon
    <2>4. QED BY <2>1, <2>3 DEF OneUndiscovered
  <1>3. CASE servers' \in Tables \union {<< >>}
    <2>1. OneUndiscovered(<< >>) BY DEF OneUndiscovered
    <2>2. QED BY <1>3, <2>1, Zenon DEF One
  <1>4. QED BY <1>1, <1>2, <1>3, Zenon DEF TableMoves

(* What the parser set decides whether a section needs testing. *)
LEMMA SameNeeds ==
    ASSUME NEW a, NEW b, SameParms(a, b), Passed(a), a.root = b.root \/ (One => a.root = 1)
    PROVE  Passed(b)
  BY Zenon DEF SameParms, Passed, needs_testing, needs_intermittent_testing, Tested

(* While the thread scans, another thread can change the addresses of a section,
   and with them its kind, only as long as the thread waits for the users. *)
LEMMA ChangedWaiting ==
    ASSUME Inv, Leaving, users = 0, mutex = "free"
    PROVE  st.pc = "awaiting"
  <1>1. Types /\ UsersSum /\ Mutexes BY Halves, Zenon DEF Inv
  <1>2. st.pc # "resolving" BY <1>1, UserCounted
  <1>3. st.pc \notin Holding
    <2>1. users > 0 => FALSE BY <1>1 DEF Types
    <2>2. QED BY <1>1, <2>1, UserCounted, Others, Zenon DEF Mutexes
  <1>4. QED BY <1>2, <1>3, Zenon DEF Leaving, Scanning, Holding

LEMMA TablePassed ==
    ASSUME Inv, Scan, Leaving, TableMoves, gen' = gen, NEW k \in DOMAIN servers, Passed(servers[k]),
           k # st.i \/ SameTable(servers, servers')
    PROVE  Passed(servers'[k])
  <1>1. CASE SameTable(servers, servers')
    <2>1. SameParms(servers[k], servers'[k]) /\ servers[k].root = servers'[k].root
      BY <1>1, Zenon DEF SameTable, SameSection
    <2>2. QED BY <2>1, SameNeeds, Zenon
  <1>2. CASE ~SameTable(servers, servers')
    <2>1. gen \in Nat /\ servers \in Seq(servparm_t) BY Zenon DEF Inv, Types
    <2>2. PICK i \in DOMAIN servers, sp \in servparm_t : OneChanged(i, sp) /\ users = 0
      BY <1>2, <2>1 DEF TableMoves
    <2>3. servers' = [servers EXCEPT ![i] = sp] /\ SameParms(servers[i], sp) /\ sp.root = 1
          /\ (mutex = "free" \/ i = st.i) BY <2>2, Zenon DEF OneChanged
    <2>4. CASE i # k
      <3>1. servers'[k] = servers[k] BY <2>1, <2>3, <2>4, Zenon
      <3>2. QED BY <3>1, Zenon
    <2>5. CASE i = k
      <3>1. servers'[k] = sp /\ SameParms(servers[k], sp) BY <2>1, <2>3, <2>5, Zenon
      <3>2. mutex = "free" /\ k # st.i BY <1>2, <2>3, <2>5, Zenon
      <3>3. st.pc = "awaiting" BY <2>2, <3>2, ChangedWaiting, Zenon
      <3>4. One => servers[k].root = 1 BY <3>2, <3>3, Zenon DEF Scan, Discovering
      <3>5. QED BY <3>1, <3>4, SameNeeds, Zenon
    <2>6. QED BY <2>4, <2>5, Zenon
  <1>3. QED BY <1>1, <1>2, Zenon

LEMMA RootsKept ==
    ASSUME Inv, TableMoves, gen' = gen, NEW k \in DOMAIN servers, servers[k].root = 1
    PROVE  servers'[k].root = 1
  <1>1. gen \in Nat /\ servers \in Seq(servparm_t) BY Zenon DEF Inv, Types
  <1>2. CASE SameTable(servers, servers') BY <1>2, Zenon DEF SameTable, SameSection
  <1>3. CASE \E i \in DOMAIN servers, sp \in servparm_t : OneChanged(i, sp)
    <2>1. PICK i \in DOMAIN servers, sp \in servparm_t : servers' = [servers EXCEPT ![i] = sp] /\ sp.root = 1
      BY <1>3, Zenon DEF OneChanged
    <2>2. QED BY <1>1, <2>1, Zenon
  <1>4. QED BY <1>1, <1>2, <1>3 DEF TableMoves

(* Another thread's step. *)
LEMMA OthersScan == ASSUME Inv, Scan, Kept, StKept, boot # "crashed" PROVE Scan'
  <1>1. Types /\ UsersSum /\ Mutexes /\ Places /\ TableMoves BY Halves, Zenon DEF Inv, Kept
  <1>2. (One => OneUndiscovered(servers))' BY <1>1, OneKept, Zenon DEF Scan, One, OneUndiscovered
  <1>3. CASE ~Leaving' BY <1>2, <1>3, Zenon DEF Scan
  <1>4. CASE Leaving'
    <2>1. st' = st BY <1>4, Zenon DEF Leaving, StKept, Scanning
    <2>2. /\ servers' \in Seq(servparm_t) /\ gen' \in Nat /\ gen <= gen'
          /\ gen' = gen => DOMAIN servers' = DOMAIN servers
          /\ gen' # gen => users = 0 /\ mutex = "free"
      BY <1>1, MovedType, Zenon
    <2>3. gen \in Nat /\ st.g \in Nat /\ servers \in Seq(servparm_t) BY <1>1, Zenon DEF Types, Threads
    <2>4. st.g <= gen BY <1>1, Zenon DEF Places
    <2>5. Leaving BY <1>4, <2>1, <2>2, <2>3, <2>4 DEF Leaving, Kept
    <2>6. gen' = gen
      <3>1. ASSUME gen' # gen PROVE FALSE
        <4>1. st.pc = "awaiting" BY <2>2, <2>5, <3>1, ChangedWaiting, Zenon
        <4>2. QED BY <1>4, <2>1, <2>2, <2>3, <2>4, <3>1, <4>1 DEF Leaving
      <3>2. QED BY <3>1, Zenon
    <2>7. DOMAIN servers' = DOMAIN servers /\ Len(servers') = Len(servers) BY <2>2, <2>3, <2>6
    <2>8. st.pc \in {"each", "retested"} => SameTable(servers, servers')
      <3>1. st.pc # "awaiting" => (mutex = "free" => users # 0) BY <2>5, ChangedWaiting, Zenon
      <3>2. QED BY <1>1, <2>3, <2>6, <3>1, Zenon DEF TableMoves, OneChanged
    <2>9. ASSUME NEW k \in DOMAIN servers, k < st.i \/ (k = st.i /\ st.pc = "each")
          PROVE  Passed(servers'[k])
      <3>1. Passed(servers[k]) BY <2>5, <2>9, Zenon DEF Scan
      <3>2. k # st.i \/ SameTable(servers, servers')
        <4>1. st.i \in Nat /\ k \in Nat BY <1>1, <2>3 DEF Types, Threads
        <4>2. QED BY <2>8, <2>9, <4>1
      <3>3. QED BY <1>1, <2>5, <2>6, <3>1, <3>2, TablePassed, Zenon
    <2>10. ASSUME One, st.pc \in Discovering, NEW k \in DOMAIN servers \ {st.i} PROVE servers'[k].root = 1
      BY <1>1, <2>5, <2>6, <2>10, RootsKept, Zenon DEF Scan
    <2>11. st.n = Len(servers) BY <2>5, Zenon DEF Scan
    <2>12. st.pc = "retested" => servers'[st.i].root = 2
      BY <1>1, <2>5, <2>8, Zenon DEF Scan, SameTable, SameSection, Places, AtSection
    <2>13. QED BY <1>2, <2>1, <2>7, <2>9, <2>10, <2>11, <2>12, Zenon DEF Scan, One, Passed
  <1>5. QED BY <1>3, <1>4, Zenon

------------------------------------------------------------------------------
(* The status thread *)

(* A step of the scan stays at its section, or goes on from one that is no reason
   to keep the thread. *)
LEMMA ScanStep ==
    ASSUME Inv, Scan, Kept, gen' = gen,
           Leaving' => Leaving /\ st'.n = st.n /\ st'.i \in {st.i, st.i + 1},
           Leaving' /\ (st'.i = st.i + 1 \/ st'.pc = "each") =>
               SameTable(servers, servers') /\ (st.i \in DOMAIN servers => Passed(servers[st.i])),
           st'.i = st.i + 1 => st'.pc = "section",
           Leaving' /\ st'.pc \in Discovering =>
               st.pc \in Discovering \/ (st.i \in DOMAIN servers /\ servers[st.i].root = 2),
           st'.pc = "retested" => SameTable(servers, servers') /\ st.i \in DOMAIN servers /\ servers[st.i].root = 2
    PROVE  Scan'
  <1>1. Types /\ TableMoves BY Zenon DEF Inv, Kept
  <1>2. (One => OneUndiscovered(servers))' BY <1>1, OneKept, Zenon DEF Scan, One, OneUndiscovered
  <1>3. CASE ~Leaving' BY <1>2, <1>3, Zenon DEF Scan
  <1>4. CASE Leaving'
    <2>1. Leaving /\ st'.n = st.n /\ st'.i \in {st.i, st.i + 1} BY <1>4, Zenon
    <2>2. gen \in Nat /\ st.i \in Nat /\ servers \in Seq(servparm_t) BY <1>1, Zenon DEF Types, Threads
    <2>3. DOMAIN servers' = DOMAIN servers /\ servers' \in Seq(servparm_t) BY <1>1, MovedType, Zenon
    <2>4. Len(servers') = Len(servers) BY <2>2, <2>3
    <2>5. ASSUME NEW k \in DOMAIN servers, k < st'.i \/ (k = st'.i /\ st'.pc = "each")
          PROVE  Passed(servers'[k])
      <3>1. k \in Nat BY <2>2
      <3>2. CASE k < st.i
        <4>1. Passed(servers[k]) BY <2>1, <3>2, Zenon DEF Scan
        <4>2. QED BY <1>1, <2>1, <2>2, <3>1, <3>2, <4>1, TablePassed
      <3>3. CASE k >= st.i
        <4>1. k = st.i /\ (st'.i = st.i + 1 \/ st'.pc = "each") BY <2>1, <2>2, <2>5, <3>1, <3>3
        <4>2. SameTable(servers, servers') /\ Passed(servers[k]) BY <1>4, <4>1, Zenon
        <4>3. QED BY <1>1, <2>1, <4>2, TablePassed, Zenon
      <3>4. QED BY <2>2, <3>1, <3>2, <3>3
    <2>6. ASSUME One, st'.pc \in Discovering, NEW k \in DOMAIN servers \ {st'.i} PROVE servers'[k].root = 1
      <3>1. st'.i = st.i BY <2>1, <2>6, Zenon DEF Discovering
      <3>2. servers[k].root = 1
        <4>1. CASE st.pc \in Discovering BY <2>1, <2>6, <3>1, <4>1, Zenon DEF Scan
        <4>2. CASE st.i \in DOMAIN servers /\ servers[st.i].root = 2
          <5>1. servers[k] \in servparm_t BY <2>2
          <5>2. servers[k].root \in {1, 2} BY <5>1, Zenon DEF servparm_t
          <5>3. OneUndiscovered(servers) BY <2>6, Zenon DEF Scan
          <5>4. QED BY <2>6, <3>1, <4>2, <5>2, <5>3, Zenon DEF OneUndiscovered
        <4>3. QED BY <1>4, <2>6, <4>1, <4>2, Zenon
      <3>3. QED BY <1>1, <3>2, RootsKept, Zenon
    <2>7. st.n = Len(servers) BY <2>1, Zenon DEF Scan
    <2>8. st'.pc = "retested" => servers'[st'.i].root = 2 BY <2>1, <2>2 DEF SameTable, SameSection
    <2>9. QED BY <1>2, <2>1, <2>3, <2>4, <2>5, <2>6, <2>7, <2>8, Zenon DEF Scan, One, Passed
  <1>5. QED BY <1>3, <1>4, Zenon

(* A step after which the thread does not leave, or not yet. *)
LEMMA NoScan == ASSUME Inv, Scan, Kept, ~Leaving' PROVE Scan'
  <1>1. TableMoves BY Zenon DEF Kept
  <1>2. QED BY <1>1, OneKept, Zenon DEF Scan, One, OneUndiscovered

LEMMA Leaves ==
    ASSUME Kept, boot # "crashed", Leaving', st.pc \in Scanning \ {"pass"}, st.keep => st'.keep,
           st.pc \in {"await", "awaiting"} => st.g = gen
    PROVE  Leaving
  BY Zenon DEF Kept, Leaving

LEMMA StPassScan == ASSUME Inv, Scan, Kept, StPass PROVE Scan'
  <1>1. Types /\ TableMoves BY Zenon DEF Inv, Kept
  <1>2. (One => OneUndiscovered(servers))' BY <1>1, OneKept, Zenon DEF Scan, One, OneUndiscovered
  <1>3. st \in Threads /\ servers \in Seq(servparm_t) BY <1>1, Zenon DEF Types
  <1>4. st'.pc = "section" /\ st'.i = 1 /\ st'.n = Len(servers) /\ UNCHANGED servers
    BY <1>3, Zenon DEF StPass, Threads
  <1>5. \A k \in DOMAIN servers : ~(k < 1) BY <1>3
  <1>6. QED BY <1>2, <1>4, <1>5, Zenon DEF Scan, Discovering

(* Going on to the next section, or to the servers of this one, after it was found
   that the section is no reason to stay. *)
LEMMA ScanOn ==
    ASSUME Inv, Scan, Kept, gen' = gen, st.i \in Nat, st'.n = st.n, SameTable(servers, servers'),
           Leaving' => Leaving, Leaving' => Passed(servers[st.i]),
           \/ st'.pc = "section" /\ st'.i = st.i + 1
           \/ st'.pc = "each" /\ st'.i = st.i
    PROVE  Scan'
  <1>1. st'.pc \notin Discovering /\ st'.pc # "retested" BY Zenon DEF Discovering
  <1>2. Leaving' => Leaving /\ st'.n = st.n /\ st'.i \in {st.i, st.i + 1} BY Zenon
  <1>3. st'.i = st.i + 1 => st'.pc = "section" OBVIOUS
  <1>4. Leaving' => SameTable(servers, servers') /\ (st.i \in DOMAIN servers => Passed(servers[st.i])) BY Zenon
  <1>5. QED BY <1>1, <1>2, <1>3, <1>4, ScanStep, Zenon

LEMMA StSectionScan == ASSUME Inv, Scan, Kept, boot # "crashed", StSection PROVE Scan'
  <1>1. Types /\ Places BY Zenon DEF Inv
  <1>2. st \in Threads /\ gen \in Nat /\ servers \in Seq(servparm_t) BY <1>1, Zenon DEF Types
  <1>3. st.pc = "section" /\ gen' = gen BY Zenon DEF StSection, InSt
  <1>4. st.i \in Nat /\ st.i \in DOMAIN servers
    <2>1. st.i >= 1 /\ st.i \in Nat BY <1>1, <1>2, <1>3, Zenon DEF Places, Scanning, Threads
    <2>2. QED BY <1>2, <2>1 DEF StSection
  <1>5. "section" \in Scanning \ {"pass"} BY Zenon DEF Scanning
  <1>6. {"tests", "resolve", "retested"} \subseteq PCs BY Zenon DEF PCs, Scanning
  <1> DEFINE to(p) == [[st EXCEPT !.g = gen, !.freed = FALSE] EXCEPT !.pc = p]
             nit == needs_intermittent_testing(Sp)
  <1>7. \A p \in {"tests", "resolve", "retested"} :
          to(p).pc = p /\ to(p).i = st.i /\ to(p).n = st.n /\ to(p).keep = st.keep
    BY <1>2, <1>6, SectionIs, Zenon
  <1>8. nit \in BOOLEAN BY Zenon DEF needs_intermittent_testing
  <1>9. \/ st' = to("tests")
        \/ Sp.root = 2 /\ (st' = to("resolve") \/ (st' = to("retested") /\ Retest("st", st.i, 0)))
        \/ /\ Sp.root = 2 /\ st' = NextSection(Keep(nit))
           /\ \/ servers' = servers
              \/ servers' = [servers EXCEPT ![st.i].at = SetDue(@, DOMAIN Sp.at, FALSE)]
    BY Zenon DEF StSection
  <1> HIDE DEF to, nit
  <1>10. CASE \/ st' = to("tests")
              \/ Sp.root = 2 /\ (st' = to("resolve") \/ (st' = to("retested") /\ Retest("st", st.i, 0)))
    <2>1. /\ st'.i = st.i /\ st'.n = st.n /\ st'.keep = st.keep
          /\ st'.pc = "tests" \/ (servers[st.i].root = 2 /\ st'.pc \in {"resolve", "retested"})
          /\ st'.pc = "retested" => Retest("st", st.i, 0)
      BY <1>7, <1>10, Zenon DEF Sp
    <2>2. Leaving' => Leaving BY <1>3, <1>5, <2>1, Leaves, Zenon
    <2>3. st'.pc = "retested" => SameTable(servers, servers') BY <1>1, <1>4, <2>1, RetestEffect, Others, Zenon
    <2>4. st'.i # st.i + 1 /\ st'.pc # "each" BY <1>4, <2>1
    <2>5. Leaving' /\ st'.pc \in Discovering => st.i \in DOMAIN servers /\ servers[st.i].root = 2
      BY <1>4, <2>1, Zenon DEF Discovering
    <2>6. st'.pc = "retested" => SameTable(servers, servers') /\ st.i \in DOMAIN servers /\ servers[st.i].root = 2
      BY <1>4, <2>1, <2>3, Zenon
    <2>7. Leaving' => Leaving /\ st'.n = st.n /\ st'.i \in {st.i, st.i + 1} BY <2>1, <2>2, Zenon
    <2>8. QED BY <1>3, <2>4, <2>5, <2>6, <2>7, ScanStep, Zenon
  <1>11. CASE /\ Sp.root = 2 /\ st' = NextSection(Keep(nit))
              /\ \/ servers' = servers
                 \/ servers' = [servers EXCEPT ![st.i].at = SetDue(@, DOMAIN Sp.at, FALSE)]
    <2>1. st'.pc = "section" /\ st'.i = st.i + 1 /\ st'.n = st.n /\ st'.keep = (st.keep \/ nit)
      BY <1>2, <1>8, <1>11, NextSectionIs, Zenon
    <2>2. SameTable(servers, servers') BY <1>1, <1>4, <1>11, SetsDue, SameMoves, Zenon
    <2>3. Leaving' => Leaving /\ ~nit
      <3>1. Leaving' => ~st'.keep BY Zenon DEF Leaving
      <3>2. QED BY <1>3, <1>5, <1>8, <2>1, <3>1, Leaves, Zenon
    <2>4. ~nit => Passed(servers[st.i]) BY <1>11 DEF nit, Passed, Sp
    <2>5. QED BY <1>3, <1>4, <2>1, <2>2, <2>3, <2>4, ScanOn, Zenon
  <1>12. QED BY <1>9, <1>10, <1>11, Zenon

LEMMA StRetestedScan == ASSUME Inv, Scan, Kept, boot # "crashed", StRetested PROVE Scan'
  <1>1. Types /\ Places BY Zenon DEF Inv
  <1>2. st \in Threads BY <1>1, Zenon DEF Types
  <1>3. st.pc = "retested" /\ gen' = gen /\ servers' = servers BY Zenon DEF StRetested, InSt
  <1>4. st.i \in Nat /\ st.i \in DOMAIN servers BY <1>1, <1>2, <1>3, Zenon DEF Places, AtSection, Threads
  <1>5. "retested" \in Scanning \ {"pass"} /\ "resolve" \in PCs BY Zenon DEF Scanning, PCs
  <1> DEFINE nit == needs_intermittent_testing(Sp)
  <1>6. nit \in BOOLEAN BY Zenon DEF needs_intermittent_testing
  <1>7. st' = [st EXCEPT !.pc = "resolve"] \/ st' = NextSection(Keep(nit)) BY Zenon DEF StRetested
  <1> HIDE DEF nit
  <1>8. CASE st' = [st EXCEPT !.pc = "resolve"]
    <2>1. st'.pc = "resolve" /\ st'.i = st.i /\ st'.n = st.n /\ st'.keep = st.keep BY <1>2, <1>5, <1>8, PcIs, Zenon
    <2>2. Leaving' => Leaving BY <1>3, <1>5, <2>1, Leaves, Zenon
    <2>3. st.pc \in Discovering /\ st'.i # st.i + 1 /\ st'.pc # "each" /\ st'.pc # "retested"
      BY <1>3, <1>4, <2>1 DEF Discovering
    <2>4. Leaving' => Leaving /\ st'.n = st.n /\ st'.i \in {st.i, st.i + 1} BY <2>1, <2>2, Zenon
    <2>5. QED BY <1>3, <2>3, <2>4, ScanStep, Zenon
  <1>9. CASE st' = NextSection(Keep(nit))
    <2>1. st'.pc = "section" /\ st'.i = st.i + 1 /\ st'.n = st.n /\ st'.keep = (st.keep \/ nit)
      BY <1>2, <1>6, <1>9, NextSectionIs, Zenon
    <2>2. SameTable(servers, servers') BY <1>1, <1>3, SameMoves, Zenon
    <2>3. Leaving' => Leaving /\ ~nit
      <3>1. Leaving' => ~st'.keep BY Zenon DEF Leaving
      <3>2. QED BY <1>3, <1>5, <1>6, <2>1, <3>1, Leaves, Zenon
    <2>4. Leaving /\ ~nit => Passed(servers[st.i])
      <3>1. Leaving => servers[st.i].root = 2 BY <1>3, Zenon DEF Scan
      <3>2. QED BY <3>1 DEF nit, Passed, Sp
    <2>5. QED BY <1>3, <1>4, <2>1, <2>2, <2>3, <2>4, ScanOn, Zenon
  <1>10. QED BY <1>7, <1>8, <1>9, Zenon

LEMMA StTestsScan == ASSUME Inv, Scan, Kept, boot # "crashed", StTests PROVE Scan'
  <1>1. Types /\ Places BY Zenon DEF Inv
  <1>2. st \in Threads BY <1>1, Zenon DEF Types
  <1>3. st.pc = "tests" /\ gen' = gen BY Zenon DEF StTests, InSt
  <1>4. st.i \in Nat /\ st.i \in DOMAIN servers BY <1>1, <1>2, <1>3, Zenon DEF Places, AtSection, Threads
  <1>5. "tests" \in Scanning \ {"pass"} BY Zenon DEF Scanning
  <1> DEFINE nt == needs_testing(Sp)
  <1>6. nt \in BOOLEAN BY Zenon DEF needs_testing
  <1>7. \/ st' = [Keep(nt) EXCEPT !.pc = "each", !.j = 1] /\ UNCHANGED <<servers, run>>
        \/ st' = NextSection(Keep(nt)) /\ (UNCHANGED <<servers, run>> \/ Retest("st", st.i, 0))
    BY Zenon DEF StTests
  <1> HIDE DEF nt
  <1>8. SameTable(servers, servers') BY <1>1, <1>4, <1>7, RetestEffect, SameMoves, Others, Zenon
  <1>9. /\ st'.n = st.n /\ st'.keep = (st.keep \/ nt)
        /\ (st'.pc = "each" /\ st'.i = st.i) \/ (st'.pc = "section" /\ st'.i = st.i + 1)
    <2>1. CASE st' = [Keep(nt) EXCEPT !.pc = "each", !.j = 1] BY <1>2, <1>6, <2>1, EachIs, Zenon
    <2>2. CASE st' = NextSection(Keep(nt)) BY <1>2, <1>6, <2>2, NextSectionIs, Zenon
    <2>3. QED BY <1>7, <2>1, <2>2, Zenon
  <1>10. Leaving' => Leaving /\ ~nt
    <2>1. Leaving' => ~st'.keep BY Zenon DEF Leaving
    <2>2. QED BY <1>3, <1>5, <1>6, <1>9, <2>1, Leaves, Zenon
  <1>11. ~nt => Passed(servers[st.i])
    BY Zenon DEF nt, Passed, Sp, needs_testing, needs_intermittent_testing
  <1>12. QED BY <1>3, <1>4, <1>8, <1>9, <1>10, <1>11, ScanOn, Zenon

LEMMA StEachScan == ASSUME Inv, Scan, Kept, boot # "crashed", NEW elapsed \in BOOLEAN, StEach(elapsed) PROVE Scan'
  <1>1. Types /\ Places BY Zenon DEF Inv
  <1>2. st \in Threads /\ st.j \in Nat BY <1>1, Zenon DEF Types, Threads
  <1>3. st.pc = "each" /\ gen' = gen BY Zenon DEF StEach, InSt
  <1>4. st.i \in Nat /\ st.i \in DOMAIN servers BY <1>1, <1>2, <1>3, Zenon DEF Places, AtSection, Threads
  <1>5. "each" \in Scanning \ {"pass"} BY Zenon DEF Scanning
  <1>6. \/ st' = NextSection(st) /\ UNCHANGED <<servers, run>>
        \/ /\ st' = [st EXCEPT !.j = @ + 1]
           /\ Retest("st", st.i, st.j) \/ UNCHANGED <<servers, run>>
    BY Zenon DEF StEach
  <1>7. SameTable(servers, servers') BY <1>1, <1>2, <1>4, <1>6, RetestEffect, SameMoves, Others, Zenon
  <1>8. /\ st'.n = st.n /\ st'.keep = st.keep
        /\ (st'.pc = "each" /\ st'.i = st.i) \/ (st'.pc = "section" /\ st'.i = st.i + 1)
    <2>1. CASE st' = NextSection(st) BY <1>2, <2>1, NextIs, Zenon
    <2>2. CASE st' = [st EXCEPT !.j = @ + 1]
      <3>1. st'.n = st.n /\ st'.keep = st.keep /\ st'.pc = st.pc /\ st'.i = st.i BY <1>2, <2>2, Zenon DEF Threads
      <3>2. QED BY <1>3, <3>1, Zenon
    <2>3. QED BY <1>6, <2>1, <2>2, Zenon
  <1>9. Leaving' => Leaving BY <1>3, <1>5, <1>8, Leaves, Zenon
  <1>10. Leaving => Passed(servers[st.i]) BY <1>3, <1>4, Zenon DEF Scan
  <1>11. QED BY <1>3, <1>4, <1>7, <1>8, <1>9, <1>10, ScanOn, Zenon

(* Steps that change the place of the thread in its section and nothing else that
   the scan depends on. *)
LEMMA PlaceScan ==
    ASSUME Inv, Scan, Kept, boot # "crashed", gen' = gen, NEW p \in Scanning \ {"pass", "each", "retested"},
           st.pc \in Scanning \ {"pass"}, st' = [st EXCEPT !.pc = p], p \in Discovering => st.pc \in Discovering,
           st.pc \in {"await", "awaiting"} => st.g = gen \/ p \in {"await", "awaiting"}
    PROVE  Scan'
  <1>1. Types BY Zenon DEF Inv
  <1>2. st \in Threads /\ st.i \in Nat /\ p \in PCs BY <1>1, Zenon DEF Types, Threads, PCs
  <1>3. st'.pc = p /\ st'.i = st.i /\ st'.n = st.n /\ st'.keep = st.keep /\ st'.g = st.g BY <1>2, PcIs, Zenon
  <1>4. Leaving' => Leaving
    <2>1. Leaving' /\ st.pc \in {"await", "awaiting"} => st.g = gen BY <1>3, Zenon DEF Leaving
    <2>2. QED BY <1>3, <2>1, Leaves, Zenon
  <1>5. Leaving' => Leaving /\ st'.n = st.n /\ st'.i \in {st.i, st.i + 1} BY <1>3, <1>4, Zenon
  <1>6. st'.i # st.i + 1 /\ st'.pc # "each" /\ st'.pc # "retested" BY <1>2, <1>3
  <1>7. st'.pc \in Discovering => st.pc \in Discovering BY <1>3, Zenon
  <1>8. QED BY <1>5, <1>6, <1>7, ScanStep, Zenon

LEMMA WaitScan ==
    ASSUME Inv, Scan, Kept, boot # "crashed",
           \/ StResolve \/ StAwait \/ (\E b \in BOOLEAN : StAwake(b) \/ StResolved(b))
           \/ \E hs \in Addresses \union {RootAddresses} : StSetRoot(hs)
    PROVE  Scan'
  <1>1. Types /\ Places BY Zenon DEF Inv
  <1>2. st \in Threads BY <1>1, Zenon DEF Types
  <1>3. gen' = gen BY Zenon DEF StResolve, StAwait, StAwake, StResolved, StSetRoot
  <1>4. {"resolve", "resolving", "await", "awaiting", "tests"} \subseteq Scanning \ {"pass", "each", "retested"}
    BY Zenon DEF Scanning
  <1>5. {"resolve", "resolving", "await", "awaiting"} \subseteq Discovering /\ "tests" \notin Discovering
    BY Zenon DEF Discovering
  <1>6. CASE StResolve
    <2>1. st.pc = "resolve" /\ st' = [st EXCEPT !.pc = "resolving"] BY <1>6, Zenon DEF StResolve, InSt
    <2>2. QED BY <1>3, <1>4, <1>5, <2>1, PlaceScan, Zenon
  <1>7. CASE StAwait
    <2>1. st.pc = "await" /\ st' = [st EXCEPT !.pc = "awaiting"] BY <1>7, Zenon DEF StAwait, InSt
    <2>2. QED BY <1>3, <1>4, <1>5, <2>1, PlaceScan, Zenon
  <1>8. CASE \E hs \in Addresses \union {RootAddresses} : StSetRoot(hs)
    <2>1. st.pc = "await" /\ st.g = gen /\ st' = [st EXCEPT !.pc = "tests"] BY <1>8, Zenon DEF StSetRoot, InSt
    <2>2. QED BY <1>3, <1>4, <1>5, <2>1, PlaceScan, Zenon
  <1>9. ASSUME NEW b \in BOOLEAN, StAwake(b) PROVE Scan'
    <2>1. CASE ~b
      <3>1. st.pc = "awaiting" /\ st' = [st EXCEPT !.pc = "await"] BY <1>9, <2>1, Zenon DEF StAwake
      <3>2. QED BY <1>3, <1>4, <1>5, <3>1, PlaceScan, Zenon
    <2>2. CASE b
      <3>1. st' = [st EXCEPT !.pc = "await", !.freed = TRUE, !.keep = TRUE] BY <1>9, <2>2, Zenon DEF StAwake
      <3>2. st'.keep = TRUE BY <1>2, <3>1, Zenon DEF Threads
      <3>3. ~Leaving' BY <3>2, Zenon DEF Leaving
      <3>4. QED BY <3>3, NoScan, Zenon
    <2>3. QED BY <2>1, <2>2, Zenon
  <1>10. ASSUME NEW b \in BOOLEAN, StResolved(b) PROVE Scan'
    <2>1. st.pc = "resolving" BY <1>10, Zenon DEF StResolved
    <2>2. CASE b
      <3>1. st' = [st EXCEPT !.pc = "await"] BY <1>10, <2>2, Zenon DEF StResolved
      <3>2. QED BY <1>3, <1>4, <1>5, <2>1, <3>1, PlaceScan, Zenon
    <2>3. CASE ~b
      <3>1. Sp.at # << >> BY <1>1, <2>1, Zenon DEF Places, Sp
      <3>2. st' = NextSection(Keep(TRUE)) BY <1>10, <2>3, <3>1, Zenon DEF StResolved
      <3>3. st'.keep = (st.keep \/ TRUE) BY <1>2, <3>2, NextSectionIs, Zenon
      <3>4. ~Leaving' BY <3>3, Zenon DEF Leaving
      <3>5. QED BY <3>4, NoScan, Zenon
    <2>4. QED BY <2>2, <2>3, Zenon
  <1>11. QED BY <1>6, <1>7, <1>8, <1>9, <1>10, Zenon

(* Steps after which the thread does not leave, or begins a scan. *)
LEMMA StayScan ==
    ASSUME Inv, Scan, Kept,
           StLock \/ StWake \/ StScanned \/ StNoMemory \/ \E b \in BOOLEAN : StStaleRoot(b)
    PROVE  Scan'
  <1>1. st \in Threads BY Zenon DEF Inv, Types
  <1>2. "pass" \in PCs /\ "sleep" \in PCs BY Zenon DEF PCs, Scanning
  <1>3. ~Leaving'
    <2>1. CASE StLock \/ StWake
      <3>1. st' = [st EXCEPT !.pc = "pass"] BY <2>1, Zenon DEF StLock, StWake
      <3>2. st'.pc = "pass" BY <1>1, <1>2, <3>1, PcIs, Zenon
      <3>3. QED BY <3>2, Zenon DEF Leaving
    <2>2. CASE StScanned
      <3>1. st' = [st EXCEPT !.pc = "pass"] \/ st' = [st EXCEPT !.pc = "sleep"] \/ st' = Off
        BY <2>2, Zenon DEF StScanned
      <3>2. Off.pc = "off" BY Zenon DEF Off
      <3>3. st'.pc \in {"pass", "sleep", "off"} BY <1>1, <1>2, <3>1, <3>2, PcIs, Zenon
      <3>4. QED BY <3>3, Zenon DEF Leaving, Scanning
    <2>3. CASE StNoMemory
      <3>1. st'.keep = (st.keep \/ TRUE) BY <1>1, <2>3, NextSectionIs, Zenon DEF StNoMemory
      <3>2. QED BY <3>1, Zenon DEF Leaving
    <2>4. CASE \E b \in BOOLEAN : StStaleRoot(b) BY <2>4, Zenon DEF StStaleRoot, Leaving
    <2>5. QED BY <2>1, <2>2, <2>3, <2>4, Zenon
  <1>4. QED BY <1>3, NoScan, Zenon

(* Sections counted in a table that was replaced: the thread has decided to stay. *)
LEMMA StBeyondScan == ASSUME Inv, Scan, Kept, boot # "crashed", StBeyond PROVE Scan'
  <1>1. Types BY Zenon DEF Inv
  <1>2. st \in Threads /\ st.n \in Nat /\ st.i \in Nat /\ servers \in Seq(servparm_t) BY <1>1, Zenon DEF Types, Threads
  <1>3. st.pc = "section" /\ st.i <= st.n /\ st.i > Len(servers) /\ st' = NextSection(st)
    BY Zenon DEF StBeyond, InSt
  <1>4. st'.keep = st.keep BY <1>2, <1>3, NextIs, Zenon
  <1>5. "section" \in Scanning \ {"pass"} BY Zenon DEF Scanning
  <1>6. ~Leaving BY <1>2, <1>3 DEF Scan
  <1>7. ~Leaving' BY <1>3, <1>4, <1>5, <1>6, Leaves, Zenon
  <1>8. QED BY <1>7, NoScan, Zenon

LEMMA StatusScan == ASSUME Inv, Scan, boot # "crashed", StatusThread PROVE Scan'
  <1>1. Kept BY StatusThreadKeeps, Zenon
  <1>2. CASE StPass BY <1>1, <1>2, StPassScan, Zenon
  <1>3. CASE StSection BY <1>1, <1>3, StSectionScan, Zenon
  <1>4. CASE StRetested BY <1>1, <1>4, StRetestedScan, Zenon
  <1>5. CASE StTests BY <1>1, <1>5, StTestsScan, Zenon
  <1>6. CASE \E b \in BOOLEAN : StEach(b) BY <1>1, <1>6, StEachScan, Zenon
  <1>7. CASE \/ StResolve \/ StAwait \/ (\E b \in BOOLEAN : StAwake(b) \/ StResolved(b))
             \/ \E hs \in Addresses \union {RootAddresses} : StSetRoot(hs)
    BY <1>1, <1>7, WaitScan, Zenon
  <1>8. CASE StLock \/ StWake \/ StScanned \/ StNoMemory \/ \E b \in BOOLEAN : StStaleRoot(b)
    BY <1>1, <1>8, StayScan, Zenon
  <1>9. CASE StBeyond BY <1>1, <1>9, StBeyondScan, Zenon
  <1>10. QED BY <1>2, <1>3, <1>4, <1>5, <1>6, <1>7, <1>8, <1>9, Zenon DEF StatusThread

==============================================================================
