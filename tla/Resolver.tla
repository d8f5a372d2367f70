------------------------------ MODULE Resolver ------------------------------
(***************************************************************************)
(* How one query thread resolves names (dns_query.c): the calls of         *)
(* p_dns_cached_resolve, p_dns_resolve, p_recursive_query, auth_ok and     *)
(* simple_dns_cached_resolve nest, and the variable stack holds them.  A   *)
(* frame is one call of p_dns_cached_resolve with the p_recursive_query it *)
(* makes:                                                                  *)
(*   kind    client, ns (auth_ok looks up a name server), again (ask the   *)
(*           listed servers), roots (dns_rootserver_resolv), simple        *)
(*   d       its place in the stack                                        *)
(*   name, t, hops      what is looked up                                  *)
(*   q       the servers to ask, each new, done or canceled                *)
(*   rv      the return code so far                                        *)
(*   old     the cached entry that is stale, or nothing                    *)
(*   cur     the answer in hand, its server and reply; todo and serv are   *)
(*           what is left of its list of name servers and what became of it*)
(*   save    the best unsatisfactory answer so far                         *)
(* Which servers answer, what they answer, and in which order, are choices;*)
(* module ParallelQuery has the mechanics of that.  The cache is a         *)
(* function from names to entries; module Cache has what is abstracted     *)
(* here to fresh, and module ServerStatus the changes of up.               *)
(***************************************************************************)
EXTENDS ReplyOps, TLC

CONSTANTS
    Table,          \* the server sections; root is 2 for servers to ask for root servers
    Replies(_, _, _),   \* what address a may reply about name n, type t
    Local0,         \* the entries of the local zones
    Known,          \* sequences of entries that earlier queries may have left
    LocalAddrs,     \* own addresses (is_local_addr)
    Paranoids,      \* values of global.paranoid
    LndownKluge,    \* global.lndown_kluge
    Questions,      \* <<name, type>> of a client
    MaxHops, MaxCalls, MaxEvents   \* bounds

VARIABLES
    paranoid, \* global.paranoid
    cache,
    up,       \* configured addresses that are up
    stack,
    answer,   \* the last answer to a client
    roots,    \* the last result of dns_rootserver_resolv
    spent     \* calls, and changes of up or expiries, so far

vars == <<paranoid, cache, up, stack, answer, roots, spent>>
rest == <<paranoid, up, answer, roots, spent>>

AllAddrs == UNION {ToSet(Table[i].at) : i \in DOMAIN Table}
Nothing == << >>
NoSave == [has |-> FALSE, val |-> 0]
Frame(kind, d, name, t, hops, q) ==
    [kind |-> kind, d |-> d, pc |-> "look", name |-> name, t |-> t, hops |-> hops, q |-> q,
     rv |-> "SERVFAIL", old |-> Nothing, cur |-> Nothing, todo |-> << >>,
     serv |-> << >>, save |-> NoSave]

Top == stack[Len(stack)]
Below(f) == SubSeq(stack, 1, f.d - 1)
Set(f) == stack' = Append(Below(f), f)
Call(f, kind, name, t, hops, q) ==
    stack' = Below(f) \o <<f, Frame(kind, f.d + 1, name, t, hops, q)>>

------------------------------------------------------------------------------
(* The cache *)

HasSet(e, t) == t \in DOMAIN e.sets
HasRr(e, t) == HasSet(e, t) /\ e.sets[t].rrs # {}
IsLocal(e) == "LOCAL" \in e.fl
HasLocalSet(e) == \E t \in DOMAIN e.sets : "LOCAL" \in e.sets[t].fl

(* add_cache for one entry: expired sets of the name go, then its sets come
   in one by one, unless what is there has precedence. *)
Precedes(old, new) ==
    \/ "LOCAL" \in old.fl
    \/ /\ "ADD" \in new.fl /\ old.fresh
       /\ "ADD" \notin old.fl \/ ("ROOT" \notin new.fl /\ "ROOT" \in old.fl)
Kept(e) == {t \in DOMAIN e.sets : e.sets[t].fresh \/ e.sets[t].fl \intersect {"LOCAL", "NOPURGE"} # {}}
Held(s) == [s EXCEPT !.fl = @ \ {"NOCACHE"}, !.brief = "NOCACHE" \in s.fl]
Merge(old, new) ==
    LET in == {t \in DOMAIN new.sets :
                  /\ ~IsLocal(old) \/ "NEG" \in new.sets[t].fl
                  /\ t \in Kept(old) => ~Precedes(old.sets[t], new.sets[t])}
    IN  [old EXCEPT !.sets = [t \in Kept(old) \union in |->
                                IF t \in in THEN Held(new.sets[t]) ELSE old.sets[t]],
                    !.neg = @ /\ in = {},
                    !.fl = @ \union (new.fl \intersect {"AUTH"})]

add_cache(c, e) ==
    IF e.n \in DOMAIN c /\ ~e.neg THEN [c EXCEPT ![e.n] = Merge(@, e)]
    ELSE IF e.n \in DOMAIN c /\ HasLocalSet(c[e.n]) THEN c
    ELSE IF ~e.neg /\ e.sets = << >> THEN c
    ELSE (e.n :> [Held(e) EXCEPT !.sets = [t \in DOMAIN @ |-> Held(@[t])]]) @@ c

(* Mutant: enclosing entries are not regarded. *)
mut_exact_only(name) ==
    IF name \in DOMAIN cache THEN [at |-> name, locnerr |-> FALSE] ELSE Nothing

(* lookup_cache: the name itself, or what an enclosing entry says of it. *)
Above(name) ==
    SelectSeq([i \in 1..(Len(name) - 1) |-> LastSegs(name, Len(name) - i)],
              LAMBDA n : n \in DOMAIN cache)
lookup_cache(name) ==
    LET up1 == Above(name)
    IN  IF name \in DOMAIN cache THEN [at |-> name, locnerr |-> FALSE]
        ELSE IF up1 # << >> /\ (cache[up1[1]].neg \/ IsLocal(cache[up1[1]]))
        THEN [at |-> up1[1], locnerr |-> ~cache[up1[1]].neg]
        ELSE Nothing

(* The sets that decide about a new query, and lookup_cache_status. *)
Deciding(e, t) ==
    IF t = "ALL" THEN DOMAIN e.sets
    ELSE IF HasSet(e, "CNAME") /\ "NEG" \notin e.sets["CNAME"].fl THEN {"CNAME"}
    ELSE DOMAIN e.sets \intersect {t}
FlagsOf(e, t) == UNION {e.sets[u].fl : u \in Deciding(e, t)}
Current(e, t) == Deciding(e, t) # {} /\ \A u \in Deciding(e, t) : e.sets[u].fresh

lookup_cache_status(name, t) ==
    LET l == lookup_cache(name)
        e == cache[l.at]
    IN  IF l = Nothing THEN "NOTCACHED"
        ELSE IF IsLocal(e) THEN IF e.neg \/ l.locnerr THEN "NAMEERR" ELSE "OK"
        ELSE IF e.neg THEN IF e.fresh THEN "CACHED" ELSE "STALE"
        ELSE IF "LOCAL" \in FlagsOf(e, t) THEN "CACHED"
        ELSE IF Current(e, t) /\ (t = "ALL" => "AUTH" \in e.fl) THEN "CACHED" ELSE "STALE"

------------------------------------------------------------------------------
(* The servers to ask *)

use_server(sp, name) ==
    LET hits == SelectSeq(sp.alist, LAMBDA l : Within(name, l.dom) /\ (l.exact => name = l.dom))
    IN  IF hits # << >> THEN hits[1].incl
        ELSE CASE sp.policy = "simple" -> Len(name) <= 1
               [] sp.policy = "fqdn" -> Len(name) > 1
               [] OTHER -> sp.policy = "include"

add_qserv(a, dom, auth, trusted, sp, fl, nocache, reject) ==
    [a |-> a, dom |-> dom, auth |-> auth, trusted |-> trusted, lean |-> sp.lean,
     fl |-> fl, nocache |-> nocache, reject |-> reject, sec |-> sp.sec,
     state |-> "new"]

(* Flags and reject list that the servers found through st inherit. *)
Inherited(st) == st.fl \ {"AUTH", "ADD", "ROOT"}
InheritedList(r) == IF r # NoList /\ r.inherit THEN r ELSE NoList

(* The addresses of the servers that root servers named for a domain: all of
   the names must have current addresses. *)
lookup_ns(dom) ==
    LET ok == /\ dom \in DOMAIN cache /\ HasSet(cache[dom], "NS")
              /\ "ROOT" \in cache[dom].sets["NS"].fl /\ cache[dom].sets["NS"].fresh
        ns == cache[dom].sets["NS"].rrs
        has(n) == n \in DOMAIN cache /\ HasRr(cache[n], "A") /\ cache[n].sets["A"].fresh
    IN  IF ok /\ \A n \in ns : has(n) THEN UNION {cache[n].sets["A"].rrs : n \in ns} ELSE {}

(* The top domain of a name whose servers are cached, looked for from three
   labels down in arpa, else from one. *)
TopDomain(name) ==
    LET most == IF Len(name) >= 2 /\ Within(name, <<"arpa">>) THEN 3 ELSE 1
        m    == IF Len(name) <= most THEN Len(name) - 1 ELSE most
        hits == {k \in 1..m : lookup_ns(LastSegs(name, k)) # {}}
    IN  IF hits = {} THEN Nothing
        ELSE <<LastSegs(name, CHOOSE k \in hits : \A j \in hits : j <= k)>>

(* Mutant: servers found in the cache escape the reject list. *)
mut_cached_unlisted(name, sp) ==
    LET top == TopDomain(name)
        as  == SetToSeq(lookup_ns(top[1]))
    IN  [i \in DOMAIN as |-> add_qserv(as[i], top[1], 2, ~paranoid, sp, Inherited(sp),
                                       sp.nocache, NoList)]

CachedServers(name, sp) ==
    LET top == TopDomain(name)
        as  == SetToSeq(lookup_ns(top[1]))
    IN  [i \in DOMAIN as |-> add_qserv(as[i], top[1], 2, ~paranoid, sp, Inherited(sp),
                                       sp.nocache, InheritedList(sp.reject))]

(* The walk of p_dns_resolve over the table; seen is seenrootserv. *)
AddSection(acc, sp, name) ==
    LET ups == SelectSeq(sp.at, LAMBDA a : a \in up)
        all == [i \in DOMAIN ups |->
                  add_qserv(ups[i], Anywhere, IF sp.root = 1 THEN 3 ELSE IF sp.proxy THEN 0 ELSE 1,
                         TRUE, sp, sp.fl, sp.nocache, sp.reject)]
    IN  IF sp.root = 2 \/ ~use_server(sp, name) \/ ups = << >> THEN acc
        ELSE IF sp.root = 1 /\ acc.seen = 0 /\ TopDomain(name) # Nothing
        THEN [q |-> acc.q \o CachedServers(name, sp), seen |-> 2]
        ELSE IF sp.root = 1 /\ acc.seen = 2 THEN acc
        ELSE [q |-> acc.q \o all, seen |-> IF sp.root = 1 THEN 1 ELSE acc.seen]
ServersFor(name) ==
    FoldLeft(LAMBDA acc, sp : AddSection(acc, sp, name), [q |-> << >>, seen |-> 0], Table).q

------------------------------------------------------------------------------
(* p_dns_cached_resolve up to the query *)

(* A call returns: its frame is left with the code and the entry, for the
   action that continues the caller. *)
Return(f, rv, e) == Set([f EXCEPT !.pc = "ret", !.rv = rv, !.cur = e, !.todo = << >>,
                                  !.serv = << >>, !.save = NoSave, !.q = << >>, !.old = Nothing])

LinkDown == LndownKluge /\ \A i \in DOMAIN Table :
                Table[i].root <= 1 => ToSet(Table[i].at) \intersect up = {}

(* A query failed: an old entry with CF_NOPURGE is better than nothing. *)
GiveUp(f, rv) ==
    IF /\ rv = "SERVFAIL" /\ f.old # Nothing /\ f.kind # "simple"
       /\ "NOPURGE" \in FlagsOf(f.old, f.t)
    THEN Return(f, "STALE", f.old) ELSE Return(f, rv, Nothing)

Look ==
    /\ stack # << >> /\ Top.pc = "look"
    /\ LET f  == Top
           rc == lookup_cache_status(f.name, f.t)
           e  == IF rc = "NOTCACHED" THEN Nothing ELSE cache[lookup_cache(f.name).at]
           q  == IF f.kind \in {"again", "simple"} THEN f.q ELSE ServersFor(f.name)
           g  == [f EXCEPT !.old = IF rc = "STALE" THEN e ELSE Nothing, !.pc = "ask", !.q = q]
       IN  IF rc = "OK" THEN Return(f, "CACHED", e)
           ELSE IF rc = "NAMEERR" THEN Return(f, "NAMEERR", Nothing)
           ELSE IF LinkDown /\ f.kind # "simple" /\ (e = Nothing \/ "LOCAL" \notin FlagsOf(e, f.t))
           THEN Return(f, "SERVFAIL", Nothing)
           ELSE IF rc = "CACHED" THEN Return(f, "CACHED", e)
           ELSE IF q = << >> THEN GiveUp(g, "SERVFAIL")
           ELSE Set(g)
    /\ UNCHANGED <<cache, rest>>

------------------------------------------------------------------------------
(* p_recursive_query *)

With(f, i, state) == [f EXCEPT !.q[i].state = state]
Put(es) == FoldLeft(add_cache, cache, es)

(* The end of p_dns_resolve and simple_dns_cached_resolve: an answer goes to
   the cache, which may know more about the name. *)
Resolved(f, ent, nocache) ==
    LET c == add_cache(cache, ent)
    IN  IF f.kind = "again" \/ nocache
        THEN Return(f, "OK", ent) /\ UNCHANGED cache
        ELSE /\ Return(f, "OK", IF f.name \in DOMAIN c THEN c[f.name] ELSE ent)
             /\ cache' = c

(* The answer s is taken: ask the servers it led to, or be content. *)
Take(f, s) ==
    IF s.serv # << >>
    THEN /\ Call([f EXCEPT !.pc = "wait", !.save = s, !.cur = Nothing],
                 "again", f.name, f.t, f.hops - 1, s.serv)
         /\ UNCHANGED cache
    ELSE Resolved(f, s.ent, s.nocache)

(* save_query_result *)
GoodQual == 8 + 3 * 2
Quality(c, authok) == (IF authok THEN 8 ELSE 0) + (3 - c.r.failed) * 2 + (IF c.r.tc THEN 0 ELSE 1)
Result(f, authok) ==
    [has |-> TRUE, val |-> Quality(f.cur, authok), ent |-> f.cur.ent, serv |-> f.serv,
     claims |-> Claims(f.cur.r) \/ f.cur.r.ra, nocache |-> f.q[f.cur.i].nocache]
Doubtful(s) ==
    [s EXCEPT !.ent = IF s.val >= GoodQual THEN @
                      ELSE IF @.neg THEN [@ EXCEPT !.fl = @ \union {"NOCACHE"}]
                      ELSE [@ EXCEPT !.sets = [t \in DOMAIN @ |->
                                [@[t] EXCEPT !.fl = @ \union {"NOCACHE"}]]]]

Settle(f, authok) ==
    LET s == Result(f, authok)
        g == [f EXCEPT !.pc = "ask", !.cur = Nothing, !.todo = << >>, !.serv = << >>]
    IN  IF authok /\ f.cur.r.failed = 0 THEN Take(g, s)
        ELSE /\ Set([g EXCEPT !.save = IF @.has /\ s.val <= @.val THEN @ ELSE s])
             /\ UNCHANGED cache

(* A server does not answer in time, or with an error code only. *)
Unanswered ==
    /\ stack # << >> /\ Top.pc = "ask"
    /\ \E i \in DOMAIN Top.q :
         /\ Top.q[i].state = "new"
         /\ \/ Set([With(Top, i, "canceled") EXCEPT !.rv = "SERVFAIL"])
            \/ \E rv \in {"SERVFAIL", "REFUSED"} : Set([With(Top, i, "done") EXCEPT !.rv = rv])
    /\ UNCHANGED <<cache, rest>>

Answered ==
    /\ stack # << >> /\ Top.pc = "ask"
    /\ \E i \in DOMAIN Top.q :
       \E r \in Replies(Top.q[i].a, Top.name, Top.t) :
         LET f == With(Top, i, "done")
             x == p_exec_query(f.name, f.t, f.q[i], r)
         IN  /\ Top.q[i].state = "new"
             /\ cache' = Put(x.add)
             /\ CASE x.rv = "OK" -> Set([f EXCEPT !.pc = "judge",
                                        !.cur = [i |-> i, r |-> r, ent |-> x.ent, ns |-> x.ns]])
                  [] x.rv = "NAMEERR" -> Return(f, "NAMEERR", Nothing)
                  [] OTHER -> Set([f EXCEPT !.rv = x.rv])
    /\ UNCHANGED rest

(* No query is left. *)
AllAsked ==
    /\ stack # << >> /\ Top.pc = "ask" /\ \A i \in DOMAIN Top.q : Top.q[i].state # "new"
    /\ IF Top.save.has THEN Take(Top, Doubtful(Top.save))
       ELSE GiveUp(Top, Top.rv) /\ UNCHANGED cache
    /\ UNCHANGED rest

(* Back from the listed servers: their answer counts, else what was saved. *)
AgainReturns ==
    /\ stack # << >> /\ Top.kind = "again" /\ Top.pc = "ret"
    /\ LET f == stack[Top.d - 1]
           s == f.save
       IN  CASE Top.rv = "OK" -> Resolved(f, Top.cur, s.nocache)
             [] Top.rv = "CACHED" \/ (Top.rv = "STALE" /\ ~s.claims) ->
                    Return(f, Top.rv, Top.cur) /\ UNCHANGED cache
             [] Top.rv = "NAMEERR" -> Return(f, "NAMEERR", Nothing) /\ UNCHANGED cache
             [] Top.rv \notin {"OK", "CACHED", "NAMEERR"} /\ s.claims ->
                    Resolved(f, s.ent, s.nocache)
             [] OTHER -> GiveUp(f, Top.rv) /\ UNCHANGED cache
    /\ UNCHANGED rest

------------------------------------------------------------------------------
(* auth_ok *)

AaNeeded(f) ==
    /\ f.q[f.cur.i].auth # 0 /\ ~f.cur.ent.neg
    /\ f.t = "ALL" \/ ~(HasRr(f.cur.ent, f.t) \/ HasRr(f.cur.ent, "CNAME"))

(* The servers listed are all closer to the name than the one that claims to
   be authoritative. *)
Delegates(f) ==
    LET dom == f.q[f.cur.i].dom
    IN  /\ dom # Anywhere /\ f.cur.ns # << >>
        /\ \A i \in DOMAIN f.cur.ns :
              LET g == f.cur.ns[i].dom
              IN  g # dom /\ Within(g, dom) /\ Within(f.name, g)

(* Mutant: servers of any domain are asked. *)
mut_any_domain(f) ==
    FoldLeft(LAMBDA acc, g : acc \o [i \in DOMAIN g.ns |-> [dom |-> g.dom, n |-> g.ns[i]]],
             << >>, f.cur.ns)

(* The name servers to look up: in paranoid mode those of domains that the
   name is in; local NS records replace the ones received. *)
ToLookUp(f) ==
    LET Local(g) == IF g.dom \in DOMAIN cache /\ HasSet(cache[g.dom], "NS")
                       /\ "LOCAL" \in cache[g.dom].sets["NS"].fl
                    THEN SetToSeq(cache[g.dom].sets["NS"].rrs) ELSE g.ns
        Pairs(g) == [i \in DOMAIN Local(g) |-> [dom |-> g.dom, n |-> Local(g)[i]]]
    IN  FoldLeft(LAMBDA acc, g : IF paranoid /\ ~Within(f.name, g.dom) THEN acc
                                 ELSE acc \o Pairs(g), << >>, f.cur.ns)

Judge ==
    /\ stack # << >> /\ Top.pc = "judge"
    /\ LET f == Top
           settled == ~AaNeeded(f) \/ (Claims(f.cur.r) /\ ~Delegates(f))
       IN  IF f.cur.r.failed > 1 THEN Settle(f, FALSE)
           ELSE IF settled THEN Settle(f, TRUE)
           ELSE IF f.hops <= 0 THEN Settle(f, FALSE)
           ELSE Set([f EXCEPT !.pc = "walk", !.todo = ToLookUp(f)]) /\ UNCHANGED cache
    /\ UNCHANGED rest

(* The next name server, unless its address is what some caller looks for. *)
Looking == {<<stack[j].name, stack[j].t>> : j \in DOMAIN stack}

Walk ==
    /\ stack # << >> /\ Top.pc = "walk"
    /\ LET f == Top
           n == Head(f.todo).n
       IN  IF f.todo = << >> THEN Settle(f, f.serv # << >>)
           ELSE /\ UNCHANGED cache
                /\ IF <<n, "A">> \in Looking THEN Set([f EXCEPT !.todo = Tail(@)])
                   ELSE Call(f, "ns", n, "A", f.hops - 1, << >>)
    /\ UNCHANGED rest

(* The addresses that answered, in this call or in those it continues. *)
DoneAbove(d) ==
    LET above == {j \in 1..d : \A k \in (j + 1)..d : stack[k].kind = "again"}
    IN  UNION {{stack[j].q[i].a : i \in {i \in DOMAIN stack[j].q :
                   stack[j].q[i].state = "done"}} : j \in above}

(* Addresses of a frame that returned, as r_dns_cached_resolve reports them. *)
Found(f) == IF f.rv \in {"OK", "CACHED", "STALE"} /\ ~f.cur.neg /\ HasRr(f.cur, "A")
            THEN f.cur.sets["A"].rrs ELSE {}

(* Mutant: a server without address is looked up again. *)
mut_retry(f, as) == [f EXCEPT !.todo = IF as = << >> THEN @ ELSE Tail(@), !.serv = @ \o as]
NextServer(f, as) == [f EXCEPT !.todo = Tail(@), !.serv = @ \o as]

NsReturns ==
    /\ stack # << >> /\ Top.kind = "ns" /\ Top.pc = "ret"
    /\ LET f   == stack[Top.d - 1]
           st  == f.q[f.cur.i]
           old == {f.serv[i].a : i \in DOMAIN f.serv} \union LocalAddrs \union DoneAbove(f.d)
           as  == SetToSeq(Found(Top) \ old)
       IN  Set(NextServer(f, [i \in DOMAIN as |->
               add_qserv(as[i], Head(f.todo).dom, 2, ~paranoid, st, Inherited(st), FALSE,
                         InheritedList(st.reject))]))
    /\ UNCHANGED <<cache, rest>>

------------------------------------------------------------------------------
(* The callers *)

Ask(name, t) ==
    /\ stack = << >> /\ spent.calls < MaxCalls
    /\ stack' = <<Frame("client", 1, name, t, MaxHops, << >>)>>
    /\ spent' = [spent EXCEPT !.calls = @ + 1]
    /\ answer' = Nothing
    /\ UNCHANGED <<paranoid, cache, up, roots>>

(* r_dns_cached_resolve *)
ClientReturns ==
    /\ stack # << >> /\ Top.kind = "client" /\ Top.pc = "ret"
    /\ LET good == Top.rv \in {"OK", "CACHED", "STALE"}
       IN  answer' = [rv |-> IF ~good THEN Top.rv ELSE IF Top.cur.neg THEN "NAMEERR" ELSE "OK",
                      t |-> Top.t, ent |-> Top.cur]
    /\ stack' = << >>
    /\ UNCHANGED <<paranoid, cache, up, roots, spent>>

(* dns_rootserver_resolv asks a section with rootserver discovery. *)
Simple(f, name, t) ==
    LET at == Table[f.sec].at
    IN  Call(f, "simple", name, t, 0,
             [i \in DOMAIN at |-> add_qserv(at[i], Anywhere, 0, TRUE,
                                   [lean |-> TRUE, sec |-> 0], {}, FALSE, NoList)])

dns_rootserver_resolv(i) ==
    /\ stack = << >> /\ spent.calls < MaxCalls /\ Table[i].root = 2
    /\ LET f == [kind |-> "roots", d |-> 1, pc |-> "names", sec |-> i, name |-> Root,
                 t |-> "roots", todo |-> << >>, res |-> {}, nfail |-> 0, n |-> 0]
       IN  Simple(f, Root, "NS")
    /\ spent' = [spent EXCEPT !.calls = @ + 1]
    /\ roots' = Nothing
    /\ UNCHANGED <<paranoid, cache, up, answer>>

RootsNext(f) ==
    IF f.todo # << >>
    THEN Simple([f EXCEPT !.todo = Tail(@)], Head(f.todo), "A") /\ UNCHANGED roots
    ELSE /\ stack' = << >>
         /\ roots' = [n |-> f.n, nfail |-> f.nfail,
                      res |-> IF f.nfail > Cardinality(f.res) THEN {} ELSE f.res]

SimpleReturns ==
    /\ stack # << >> /\ Top.kind = "simple" /\ Top.pc = "ret"
    /\ LET f     == stack[1]
           good  == Top.rv \in {"OK", "CACHED"} /\ ~Top.cur.neg
           names == IF good /\ HasSet(Top.cur, "NS") THEN Top.cur.sets["NS"].rrs ELSE {}
           as    == Found(Top)
       IN  RootsNext(IF f.pc = "names"
                     THEN [f EXCEPT !.pc = "addresses", !.todo = SetToSeq(names),
                                    !.n = Cardinality(names)]
                     ELSE [f EXCEPT !.res = @ \union as,
                                    !.nfail = IF as = {} THEN @ + 1 ELSE @])
    /\ UNCHANGED <<paranoid, cache, up, answer, spent>>

(* Tests change the status of a configured address; time passes. *)
Flip(a) ==
    /\ spent.events < MaxEvents
    /\ up' = IF a \in up THEN up \ {a} ELSE up \union {a}
    /\ spent' = [spent EXCEPT !.events = @ + 1]
    /\ UNCHANGED <<paranoid, cache, stack, answer, roots>>

Aged(x) == [x EXCEPT !.fresh = "LOCAL" \in x.fl]
Expire(n) ==
    /\ spent.events < MaxEvents /\ n \in DOMAIN cache
    /\ cache' = [cache EXCEPT ![n] =
           [Aged(@) EXCEPT !.sets = [t \in DOMAIN @ |-> Aged(@[t])]]]
    /\ cache' # cache
    /\ spent' = [spent EXCEPT !.events = @ + 1]
    /\ UNCHANGED <<paranoid, up, stack, answer, roots>>

------------------------------------------------------------------------------
Init ==
    /\ paranoid \in Paranoids
    /\ cache \in {FoldLeft(add_cache, Local0, es) : es \in Known}
    /\ up = AllAddrs /\ stack = << >>
    /\ answer = Nothing /\ roots = Nothing
    /\ spent = [calls |-> 0, events |-> 0]

Step ==
    \/ Look \/ Unanswered \/ Answered \/ AllAsked \/ AgainReturns
    \/ Judge \/ Walk \/ NsReturns \/ ClientReturns \/ SimpleReturns

Next ==
    \/ Step
    \/ \E w \in Questions : Ask(w[1], w[2])
    \/ \E i \in DOMAIN Table : dns_rootserver_resolv(i)
    \/ \E a \in AllAddrs : Flip(a)
    \/ \E n \in DOMAIN cache : Expire(n)

(* The thread goes on with a call; every wait in it has a timeout. *)
Spec == Init /\ [][Next]_vars /\ WF_vars(Step)

------------------------------------------------------------------------------
(* Properties *)

CachedSets == UNION {{<<n, cache[n].sets[t], t>> : t \in DOMAIN cache[n].sets} : n \in DOMAIN cache}

(* The stack is a chain of calls: what waits below the top waits for it, and
   the hops left decrease.  (p_dns_cached_resolve, auth_ok, p_recursive_query) *)
TypeOK ==
    /\ paranoid \in BOOLEAN /\ up \subseteq AllAddrs
    /\ \A n \in DOMAIN cache : cache[n].n = n /\ (cache[n].neg => cache[n].sets = << >>)
    /\ \A d \in DOMAIN stack : stack[d].d = d
    /\ \A d \in 2..Len(stack) :
         CASE stack[d].kind = "ns" -> stack[d - 1].pc = "walk" /\ stack[d].hops < stack[d - 1].hops
           [] stack[d].kind = "again" -> stack[d - 1].pc = "wait" /\ stack[d].hops < stack[d - 1].hops
           [] OTHER -> stack[d].kind = "simple" /\ d = 2 /\ stack[1].kind = "roots"

(* In paranoid mode nothing enters the cache from a server that a reply led
   to, unless it lies in the domain that server was listed for: not as an
   answer, through however many further queries, not as an additional record.
   (global.paranoid in p_exec_query, auth_ok and p_dns_resolve) *)
Bailiwick ==
    paranoid => /\ \A x \in CachedSets : x[2].src.auth = 2 => Within(x[1], x[2].src.dom)
                /\ \A n \in DOMAIN cache : cache[n].neg /\ cache[n].src.auth = 2
                       => Within(n, cache[n].src.dom)

(* Records of the root come only from configured servers, or as the answer to
   a question about the root from servers that configured ones named for it.
   ("Don't accept records for the root domain ...", p_exec_query) *)
RootFromConfigured ==
    \A x \in CachedSets : x[1] = Root /\ x[2].src.auth = 2 => x[2].src.dom = Root

(* No record enters the cache that its bringer may not vouch for. *)
Vouched == TypeOK /\ Bailiwick /\ RootFromConfigured

(* An address that a section rejects, also for servers found through it, is
   in no record that any of these servers brought. (inherit_rejectlist) *)
RejectedOut ==
    \A x \in CachedSets :
        LET i == x[2].src.sec
        IN  /\ x[3] = "A" /\ i # 0
            /\ Table[i].reject # NoList /\ Table[i].reject.inherit
            => x[2].rrs \intersect Table[i].reject.addrs = {}

(* What came through a section with nocache is held no longer than the cache
   latency, whoever gave the answer in the end. (mk_flag_val, CFF_NOINHERIT,
   the parameter nocache of p_recursive_query) *)
NoCacheHolds ==
    /\ \A x \in CachedSets : x[2].src.sec # 0 /\ Table[x[2].src.sec].nocache => x[2].brief
    /\ \A n \in DOMAIN cache : cache[n].neg /\ cache[n].src.sec # 0 /\ Table[cache[n].src.sec].nocache
           => cache[n].brief

(* No address is looked up while a caller further up is looking for it, so
   name servers that name each other end a search. (qhlist, auth_ok) *)
NoCircle ==
    \A d, e \in DOMAIN stack : d < e /\ stack[e].kind = "ns" =>
        <<stack[d].name, stack[d].t>> # <<stack[e].name, stack[e].t>>

(* No name of a local zone is asked for, and no client gets an answer with
   other records for it. (lookup_cache_status, add_cache) *)
LocalStays ==
    /\ \A d \in DOMAIN stack : stack[d].kind # "roots" /\ stack[d].pc \in {"ask", "judge", "walk", "wait"}
           => ~\E n \in DOMAIN Local0 : Within(stack[d].name, n) /\ n # Root /\ IsLocal(Local0[n])
    /\ \A n \in DOMAIN Local0 : \A t \in DOMAIN Local0[n].sets :
           n \in DOMAIN cache /\ HasSet(cache[n], t) /\ cache[n].sets[t] = Local0[n].sets[t]

(* A client gets expired records only if they are marked to be kept for that
   case. (CF_NOPURGE, p_dns_cached_resolve) *)
ExpiredOnlyKept ==
    answer # Nothing /\ answer.rv = "OK" =>
        \A t \in Deciding(answer.ent, answer.t) :
            answer.ent.sets[t].fresh \/ "NOPURGE" \in answer.ent.sets[t].fl

(* What the configuration says of a section binds every answer that comes through
   it, whatever servers and cached delegations lie between: the addresses it
   rejects, nocache, and the flag to keep records that expired. *)
PolicyFollows == RejectedOut /\ NoCacheHolds /\ ExpiredOnlyKept

(* Every call comes to an end, whatever servers refer to, and without asking for
   anything it is already looking for. *)
Ends == []NoCircle /\ (stack # << >> ~> stack = << >>)

==============================================================================
