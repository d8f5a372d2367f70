------------------------------ MODULE CacheOps ------------------------------
(***************************************************************************)
(* The data structures of pdnsd's cache (cache.c, hash.c) as functions.    *)
(* A cache entry ("cent") holds the RR sets of one domain name or, when it *)
(* is negative, the fact that the domain does not exist.  The cache proper *)
(* is a record                                                             *)
(*   ents  the hash: a partial function from names to entries              *)
(*   rrl   the list rrset_l, oldest first: one <<name, type>> per RR set   *)
(*         and one <<name, Whole>> per negative entry, never a local one   *)
(*   size, num   the counters cache_size and ent_num                       *)
(*   sort  the flag insert_sort                                            *)
(*   warn  "Out of cache memory" ended the last add_cache that changed it  *)
(*   now   the clock that time(NULL) reads                                 *)
(* Names are sequences of labels, most specific label first.  The payload  *)
(* of a record is a value; authority bits carry no property and are left   *)
(* out.  Every operation here runs inside one critical section of the      *)
(* cache lock (module CacheLock shows that such sections exclude others).  *)
(***************************************************************************)
EXTENDS Integers, Sequences, FiniteSets, SequencesExt, FiniteSetsExt,
        Functions, TLC

CONSTANTS
    TypeOrder,   \* RR types in the order of their index in a cache entry
    ExtTypes,    \* the types kept in the array rrext
    Excludes,    \* pairs of types that may not stand in one entry
    CACHE_LAT, MinTtl, MaxTtl, NegTtl,
    CentSz, ExtSz, SetSz, RrSz    \* sizes of the parts of an entry

Types == Range(TypeOrder)
Undef == 255                      \* cundef
Whole == "whole"                  \* a list element for a negative entry

Named(n) == Len(n) > 0
IsWild(n) == Named(n) /\ n[1] = "*"

------------------------------------------------------------------------------
(* Building an entry *)

init_cent(qname, ttl, ts, flags) ==
    LET neg == "NEG" \in flags
    IN  [qname |-> qname, fl |-> flags,
         nttl |-> IF neg THEN ttl ELSE 0, nts |-> IF neg THEN ts ELSE 0,
         sets |-> << >>, ext |-> FALSE, num |-> 0, cs |-> CentSz,
         ns |-> Undef, soa |-> Undef]

(* An empty RR set.  A negative entry stops being negative. *)
add_cent_rrset_by_index(cent, t, ttl, ts, flags) ==
    LET grow == t \in ExtTypes /\ ~cent.ext
    IN  [cent EXCEPT !.fl = @ \ {"NEG"}, !.nttl = 0, !.nts = 0,
                     !.sets = (t :> [ttl |-> ttl, ts |-> ts, fl |-> flags,
                                     rrs |-> {}]) @@ @,
                     !.ext = @ \/ grow,
                     !.num = @ + 1,
                     !.cs = @ + SetSz + (IF grow THEN ExtSz ELSE 0)]

(* One record: local entries ignore others, equal records are not repeated,
   and a set keeps the smallest ttl offered. *)
add_cent_rr(cent, t, ttl, ts, flags, data) ==
    LET c == IF t \in DOMAIN cent.sets
             THEN [cent EXCEPT !.sets[t].ttl = Min({@, ttl})]
             ELSE add_cent_rrset_by_index(cent, t, ttl, ts, flags)
    IN  IF "LOCAL" \in cent.fl /\ "LOCAL" \notin flags THEN cent
        ELSE IF data \in c.sets[t].rrs THEN c
        ELSE [c EXCEPT !.sets[t].rrs = @ \union {data}, !.cs = @ + RrSz]

del_rrset_size(s) == SetSz + RrSz * Cardinality(s.rrs)

negate_cent(cent, ttl, ts) ==
    [cent EXCEPT !.fl = @ \union {"NEG"}, !.nttl = ttl, !.nts = ts,
                 !.sets = << >>, !.ext = FALSE, !.num = 0,
                 !.cs = @ - MapThenSumSet(LAMBDA t : del_rrset_size(cent.sets[t]),
                                          DOMAIN cent.sets)
                          - (IF cent.ext THEN ExtSz ELSE 0)]

------------------------------------------------------------------------------
(* Age and the list of RR sets *)

CLAT_ADJ(ttl) == Max({ttl, CACHE_LAT})
timedout(d, s) == s.ts + CLAT_ADJ(s.ttl) < d.now
timedout_nxdom(d, e) == e.nts + CLAT_ADJ(e.nttl) < d.now

get_rrlent_ts(d, le) ==
    IF le[2] = Whole THEN d.ents[le[1]].nts ELSE d.ents[le[1]].sets[le[2]].ts

(* Mutant: always append. *)
mut_append(d, n, t) ==
    LET e == d.ents[n]
    IN  IF "LOCAL" \in e.fl \/ (t # Whole /\ "LOCAL" \in e.sets[t].fl) THEN d
        ELSE [d EXCEPT !.rrl = Append(@, <<n, t>>)]

(* insert_rrl searches back to front for the first element not younger;
   while a cache file is read it appends. *)
insert_rrl(d, n, t) ==
    LET e   == d.ents[n]
        le  == <<n, t>>
        loc == "LOCAL" \in e.fl \/ (t # Whole /\ "LOCAL" \in e.sets[t].fl)
        at  == IF ~d.sort THEN Len(d.rrl)
               ELSE Max({0} \union {i \in DOMAIN d.rrl :
                        get_rrlent_ts(d, d.rrl[i]) <= get_rrlent_ts(d, le)})
    IN  IF loc THEN d ELSE [d EXCEPT !.rrl = InsertAt(@, at + 1, le)]

(* Merge two lists sorted by increasing time stamp, the first one first. *)
RECURSIVE listmerge(_, _, _)
listmerge(d, p, q) ==
    IF p = << >> THEN q
    ELSE IF q = << >> THEN p
    ELSE IF get_rrlent_ts(d, Head(p)) <= get_rrlent_ts(d, Head(q))
         THEN <<Head(p)>> \o listmerge(d, Tail(p), q)
         ELSE <<Head(q)>> \o listmerge(d, p, Tail(q))

(* The inner loop of sort_rrl: tmp[i] is empty or a sorted list of 2^(i-1). *)
RECURSIVE SortCarry(_, _, _, _)
SortCarry(d, tmp, i, carry) ==
    IF i > Len(tmp) THEN Append(tmp, carry)
    ELSE IF tmp[i] = << >> THEN [tmp EXCEPT ![i] = carry]
    ELSE SortCarry(d, [tmp EXCEPT ![i] = << >>], i + 1,
                   listmerge(d, tmp[i], carry))

sort_rrl(d) ==
    [d EXCEPT !.rrl = FoldLeft(LAMBDA a, p : listmerge(d, p, a), << >>,
                          FoldLeft(LAMBDA a, le : SortCarry(d, a, 1, <<le>>), << >>, @)),
              !.sort = TRUE]
Sorted(d) == IF d.sort THEN d ELSE sort_rrl(d)

------------------------------------------------------------------------------
(* Deleting *)

(* del_cent_rrset_by_index for each type of T: the set leaves its entry and
   the list.  The caller accounts for cache_size. *)
del_cent_rrsets(d, n, T) ==
    LET e == d.ents[n]
        S == T \intersect DOMAIN e.sets
    IN  [d EXCEPT !.ents[n] =
            [e EXCEPT !.sets = Restrict(@, DOMAIN @ \ S),
                      !.num = @ - Cardinality(S),
                      !.cs = @ - MapThenSumSet(LAMBDA t : del_rrset_size(e.sets[t]), S)],
                  !.rrl = SelectSeq(@, LAMBDA le : ~(le[1] = n /\ le[2] \in S))]

(* The same, with the size of what was freed taken off cache_size. *)
Resized(d, n, cs) == [d EXCEPT !.size = @ - cs + d.ents[n].cs]
FreeRrsets(d, n, T) == Resized(del_cent_rrsets(d, n, T), n, d.ents[n].cs)

del_cent(d, n) ==
    [d EXCEPT !.size = @ - d.ents[n].cs, !.num = @ - 1,
              !.ents = Restrict(@, DOMAIN @ \ {n}),
              !.rrl = SelectSeq(@, LAMBDA le : le[1] # n)]

Purgeable(d, s) == s.fl \intersect {"NOPURGE", "LOCAL"} = {} /\ timedout(d, s)

(* purge_all_rrsets: drop what timed out, and the array rrext once empty. *)
Expired(d, n) == {t \in DOMAIN d.ents[n].sets : Purgeable(d, d.ents[n].sets[t])}
ExtUnused(d, n) ==
    d.ents[n].ext /\ (DOMAIN d.ents[n].sets \ Expired(d, n)) \intersect ExtTypes = {}

FreeExt(d, n) ==
    IF ExtUnused(d, n)
    THEN [d EXCEPT !.ents[n].ext = FALSE, !.ents[n].cs = @ - ExtSz, !.size = @ - ExtSz]
    ELSE d

purge_all_rrsets(d, n) == FreeExt(FreeRrsets(d, n, Expired(d, n)), n)

(* A reference c_ns or c_soa names an enclosing domain by its number of
   labels; it is stale when that domain has no live set of the type. *)
StaleRef(d, n, t, k) ==
    LET own == IF k > Len(n) THEN {} ELSE {SubSeq(n, Len(n) - k + 1, Len(n))}
    IN  k # Undef /\ ~\E m \in own \intersect DOMAIN d.ents :
            /\ t \in DOMAIN d.ents[m].sets
            /\ LET s == d.ents[m].sets[t]
               IN  s.rrs # {} /\ ("LOCAL" \in s.fl \/ ~timedout(d, s))

PurgedEmpty(d, n) ==
    LET e == d.ents[n]
    IN  /\ DOMAIN e.sets \subseteq Expired(d, n)
        /\ "NEG" \notin e.fl \/ ("LOCAL" \notin e.fl /\ timedout_nxdom(d, e))

(* purge_cent(cent,1,1): would anything be purged? *)
purge_cent_test(d, n) ==
    LET e == d.ents[n]
    IN  \/ PurgedEmpty(d, n)
        \/ Expired(d, n) # {}
        \/ ExtUnused(d, n)
        \/ "LOCAL" \notin e.fl /\ (StaleRef(d, n, "NS", e.ns)
                                   \/ StaleRef(d, n, "SOA", e.soa))

DropRefs(d, n) ==
    LET Ref(t, k) == IF StaleRef(d, n, t, k) THEN Undef ELSE k
    IN  IF "LOCAL" \in d.ents[n].fl THEN d
        ELSE [d EXCEPT !.ents[n].ns = Ref("NS", @), !.ents[n].soa = Ref("SOA", @)]

AfterPurge(d, n, delete) ==
    IF delete /\ PurgedEmpty(d, n) THEN del_cent(d, n) ELSE DropRefs(d, n)

purge_cent(d, n, delete) == AfterPurge(purge_all_rrsets(d, n), n, delete)

(* The two walks of purge_cache.  Both skip local records; a list element
   that is passed over stays. *)
DropTimedOut(d, n) ==
    LET e == d.ents[n]
    IN  IF e.num = 0 /\ ("NEG" \notin e.fl \/ timedout_nxdom(d, e)) THEN del_cent(d, n) ELSE d

PurgeTimedOut(d, le, sz, lazy) ==
    IF (lazy /\ d.size <= sz) \/ "LOCAL" \in d.ents[le[1]].fl THEN d
    ELSE DropTimedOut(FreeRrsets(d, le[1], {le[2]} \intersect Expired(d, le[1])), le[1])

DropEmpty(d, n) == IF d.ents[n].num = 0 THEN del_cent(d, n) ELSE d

PurgeOldest(d, le, sz) ==
    IF d.size <= sz \/ "LOCAL" \in d.ents[le[1]].fl THEN d
    ELSE DropEmpty(FreeRrsets(d, le[1], {le[2]}), le[1])

(* Mutant: only timed out sets are purged. *)
mut_no_second_walk(d, sz, lazy) ==
    FoldLeft(LAMBDA a, le : PurgeTimedOut(a, le, sz, lazy), d, d.rrl)

PurgeByAge(d, sz) == FoldLeft(LAMBDA a, le : PurgeOldest(a, le, sz), d, d.rrl)
StillTooLarge(d, sz) == IF d.size <= sz THEN d ELSE PurgeByAge(Sorted(d), sz)

purge_cache(d, sz, lazy) ==
    StillTooLarge(FoldLeft(LAMBDA a, le : PurgeTimedOut(a, le, sz, lazy), d, d.rrl), sz)

------------------------------------------------------------------------------
(* Adding *)

MinFor(neg) == IF neg THEN Min({NegTtl, MinTtl}) ELSE MinTtl
Clamp(ttl, neg) == IF ttl < MinFor(neg) THEN MinFor(neg) ELSE Min({ttl, MaxTtl})

adjust_ttl(s) ==
    [s EXCEPT !.fl = @ \ {"NOCACHE"},
              !.ttl = IF "NOCACHE" \in s.fl THEN 0 ELSE Clamp(@, "NEG" \in s.fl)]

adjust_dom_ttl(e) ==
    [e EXCEPT !.fl = @ \ {"NOCACHE"},
              !.nttl = IF "NOCACHE" \in e.fl THEN 0 ELSE Clamp(@, TRUE)]

(* cr_check_add: may a set of type t enter the entry n, and what has to go
   for it?  The mean remaining life of the old sets decides. *)
Conflicts(d, n, t) ==
    {u \in DOMAIN d.ents[n].sets : "NEG" \notin d.ents[n].sets[u].fl
                                   /\ (<<t, u>> \in Excludes \/ <<u, t>> \in Excludes)}

cr_check_add(d, n, t, ttl, flags) ==
    LET e    == d.ents[n]
        conf == Conflicts(d, n, t)
        life == MapThenSumSet(LAMBDA u : Max({0, e.sets[u].ttl + e.sets[u].ts - d.now}), conf)
        wins == \/ "LOCAL" \in flags
                \/ /\ "LOCAL" \notin e.fl
                   /\ \A u \in conf : "LOCAL" \notin e.sets[u].fl
                   /\ conf = {} \/ ttl > life \div Cardinality(conf)
    IN  IF "NEG" \in flags THEN [ok |-> TRUE, d |-> d]
        ELSE [ok |-> wins, d |-> IF wins THEN del_cent_rrsets(d, n, conf) ELSE d]

(* Mutant: local sets have no precedence. *)
mut_no_local_precedence(d, old, new) ==
    /\ "ADD" \in new.fl /\ ~timedout(d, old)
    /\ "ADD" \notin old.fl \/ ("ROOT" \notin new.fl /\ "ROOT" \in old.fl)

(* Local sets go before others, answers before additional records, and
   additional records of root servers before other additional ones. *)
OldPrecedes(d, old, new) ==
    \/ "LOCAL" \notin new.fl /\ "LOCAL" \in old.fl
    \/ /\ "ADD" \in new.fl /\ ~timedout(d, old)
       /\ "ADD" \notin old.fl \/ ("ROOT" \notin new.fl /\ "ROOT" \in old.fl)

(* The set, with its records, is put into the entry; *)
PutSet(d, n, t, s) ==
    LET new == add_cent_rrset_by_index(d.ents[n], t, s.ttl, s.ts, s.fl)
    IN  [d EXCEPT !.ents[n] = [new EXCEPT !.sets[t] = adjust_ttl([@ EXCEPT !.rrs = s.rrs]),
                                          !.cs = @ + RrSz * Cardinality(s.rrs)],
                  !.rrl = SelectSeq(@, LAMBDA le : le # <<n, Whole>>)]

(* and into the list.  oom says that an allocation for it fails. *)
Enlist(d, n, t, oom) ==
    IF oom THEN [del_cent_rrsets(d, n, {t}) EXCEPT !.warn = TRUE] ELSE insert_rrl(d, n, t)

IfChecked(chk, n, t, s, oom) ==
    IF chk.ok THEN Enlist(PutSet(chk.d, n, t, s), n, t, oom) ELSE chk.d

(* Put one set of cent into the entry that is already cached; a failed
   allocation ends the loop of add_cache. *)
ReplaceSet(d, cent, t, oom) ==
    LET n == cent.qname
        s == cent.sets[t]
    IN  IF d.warn \/ (t \in DOMAIN d.ents[n].sets /\ OldPrecedes(d, d.ents[n].sets[t], s)) THEN d
        ELSE IfChecked(cr_check_add(del_cent_rrsets(d, n, {t}), n, t, s.ttl, s.fl), n, t, s, oom)

Larger(old, new) == IF new # Undef /\ (old = Undef \/ old < new) THEN new ELSE old

(* The branch of add_cache for a name that has an entry: oomAt is the type
   whose allocation fails, or none. *)
MergeFlags(d, cent) ==
    IF d.warn THEN d
    ELSE [d EXCEPT !.ents[cent.qname].fl = @ \union (cent.fl \intersect {"WILD"}),
                   !.ents[cent.qname].ns = Larger(@, cent.ns),
                   !.ents[cent.qname].soa = Larger(@, cent.soa)]

MergeSets(d, cent, oomAt) ==
    Resized(FoldLeft(LAMBDA a, t : ReplaceSet(a, cent, t, t = oomAt), d,
                     SelectSeq(TypeOrder, LAMBDA t : t \in DOMAIN cent.sets)),
            cent.qname, d.ents[cent.qname].cs)

MergeEntry(d, cent, oomAt) ==
    MergeFlags(MergeSets(purge_cent(d, cent.qname, FALSE), cent, oomAt), cent)

(* The branch for a new name: a copy of cent enters the hash and the list. *)
NewEntry(d, cent) ==
    LET n    == cent.qname
        e    == IF "NEG" \in cent.fl THEN adjust_dom_ttl(cent)
                ELSE [cent EXCEPT !.sets = [t \in DOMAIN @ |-> adjust_ttl(@[t])]]
        todo == IF "NEG" \in cent.fl THEN <<Whole>>
                ELSE SelectSeq(TypeOrder, LAMBDA t : t \in DOMAIN cent.sets)
        d1   == [d EXCEPT !.ents = (n :> e) @@ @, !.num = @ + 1, !.size = @ + e.cs]
    IN  FoldLeft(LAMBDA a, t : insert_rrl(a, n, t), d1, todo)

HasLocalSet(e) == \E t \in DOMAIN e.sets : "LOCAL" \in e.sets[t].fl

Enter(d, cent, oomAt) ==
    IF oomAt # "none" THEN [d EXCEPT !.warn = TRUE] ELSE NewEntry(d, cent)

PurgeAfterAdd(d, limit) == IF d.warn THEN d ELSE purge_cache(d, limit, TRUE)

add_cache(dd, cent, limit, oomAt) ==
    LET d     == [dd EXCEPT !.warn = FALSE]
        n     == cent.qname
        known == n \in DOMAIN d.ents
        neg   == "NEG" \in cent.fl
    IN  IF known /\ neg /\ HasLocalSet(d.ents[n]) THEN dd
        ELSE PurgeAfterAdd(IF known /\ ~neg THEN MergeEntry(d, cent, oomAt)
                           ELSE IF ~neg /\ cent.num = 0 THEN d
                           ELSE Enter(IF known THEN del_cent(d, n) ELSE d, cent, oomAt),
                           limit)

(* PTR entries for the addresses of cent, Rev[r] being the reverse name of
   address r.  The NS and SOA sets of cent are lent to each entry while it is
   added; its count and size do not know of them. *)
add_reverse_cache(d, cent, limit, Rev) ==
    LET s == cent.sets["A"]
        Ptr(r) == LET c == add_cent_rr(init_cent(Rev[r], 0, 0, cent.fl),
                                       "PTR", s.ttl, s.ts, s.fl, cent.qname)
                  IN  [c EXCEPT !.sets = @ @@ Restrict(cent.sets,
                                    DOMAIN cent.sets \intersect {"NS", "SOA"})]
    IN  IF "A" \notin DOMAIN cent.sets THEN d
        ELSE FoldSet(LAMBDA r, a : add_cache(a, Ptr(r), limit, "none"), d, s.rrs)

------------------------------------------------------------------------------
(* The remaining operations on one entry *)

invalidate_record(d, n) ==
    IF n \notin DOMAIN d.ents THEN d
    ELSE [d EXCEPT !.ents[n] =
            IF "NEG" \in @.fl THEN [@ EXCEPT !.nts = 0]
            ELSE [@ EXCEPT !.sets = [t \in DOMAIN @ |-> [@[t] EXCEPT !.ts = 0]]]]

set_cent_flags(d, n, flags) ==
    IF n \in DOMAIN d.ents THEN [d EXCEPT !.ents[n].fl = @ \union flags] ELSE d

(* The proper enclosing names of n below the root, nearest first. *)
Enclosing(n) == [i \in 1..(Len(n) - 1) |-> SubSeq(n, i + 1, Len(n))]

(* The entry lookup_cache selects: the name itself or, if wild is asked for,
   what the nearest enclosing entry says about names below it. *)
NoEnt == [found |-> FALSE, at |-> << >>, wild |-> "none"]
Found(n, w) == [found |-> TRUE, at |-> n, wild |-> w]

SelectEntry(d, n, wild) ==
    LET up   == SelectSeq(Enclosing(n), LAMBDA m : m \in DOMAIN d.ents)
        e    == d.ents[up[1]]
        star == <<"*">> \o up[1]
    IN  IF n \in DOMAIN d.ents THEN Found(n, "none")
        ELSE IF ~wild \/ up = << >> THEN NoEnt
        ELSE IF "NEG" \in e.fl THEN Found(up[1], "w_neg")
        ELSE IF "WILD" \in e.fl
        THEN IF star \in DOMAIN d.ents THEN Found(star, "w_wild") ELSE NoEnt
        ELSE IF "LOCAL" \in e.fl THEN Found(up[1], "w_locnerr")
        ELSE NoEnt

(* The nearest enclosing local entry with a record of type t. *)
getlocalowner(d, n, t) ==
    LET up == SelectSeq(Enclosing(n), LAMBDA m : m \in DOMAIN d.ents)
        stop(m) == "LOCAL" \notin d.ents[m].fl
        has(m) == t \in DOMAIN d.ents[m].sets /\ d.ents[m].sets[t].rrs # {}
        hits == SelectInSeq(up, LAMBDA m : stop(m) \/ has(m))
    IN  IF hits = 0 \/ stop(up[hits]) THEN << >> ELSE up[hits]

(* The set of a local type, for lookup_cache_local_rrset. *)
lookup_cache_local_rrset(d, n, t) ==
    IF n \in DOMAIN d.ents /\ t \in DOMAIN d.ents[n].sets
       /\ "LOCAL" \in d.ents[n].sets[t].fl
    THEN {d.ents[n].sets[t]} ELSE {}

------------------------------------------------------------------------------
(* The cache file *)

(* What write_disk_cache writes of an entry: its sets without the local
   ones; entries with nothing left are skipped. *)

Saved(e) ==
    LET keep == {t \in DOMAIN e.sets : "LOCAL" \notin e.sets[t].fl}
    IN  [qname |-> e.qname, fl |-> e.fl, nttl |-> e.nttl, nts |-> e.nts,
         ns |-> e.ns, soa |-> e.soa, sets |-> Restrict(e.sets, keep)]

SavedNames(d) ==
    {n \in DOMAIN d.ents : LET e == d.ents[n]
                           IN  IF "NEG" \in e.fl THEN "LOCAL" \notin e.fl
                               ELSE Saved(e).sets # << >>}

DiskImage(d) ==
    LET names == SetToSeq(SavedNames(d))
    IN  [count |-> Len(names), ents |-> [i \in DOMAIN names |-> Saved(d.ents[names[i]])]]

(* One entry as read_disk_cache rebuilds it: each set first empty, then its
   records one by one. *)
ReadEntry(f) ==
    LET todo == SelectSeq(TypeOrder, LAMBDA t : t \in DOMAIN f.sets)
        AddSet(c, t) ==
            LET s == f.sets[t]
            IN  FoldSet(LAMBDA r, a : add_cent_rr(a, t, s.ttl, s.ts, s.fl, r),
                        add_cent_rrset_by_index(c, t, s.ttl, s.ts, s.fl), s.rrs)
        c0   == [init_cent(f.qname, f.nttl, f.nts, f.fl) EXCEPT !.ns = f.ns, !.soa = f.soa]
    IN  FoldLeft(AddSet, c0, todo)

(* Mutant: the last entry is not read. *)
mut_read_one_less(d, file, limit) ==
    Sorted(FoldLeft(LAMBDA a, f : add_cache(a, ReadEntry(f), limit, "none"),
                    [d EXCEPT !.sort = FALSE],
                    SubSeq(file.ents, 1, Min({file.count, Len(file.ents)}) - 1)))

(* Entries are appended unsorted and the list is sorted at the end, unless
   add_cache had to sort it before. A file that ends early gives what was
   read so far. *)
read_disk_cache(d, file, limit) ==
    Sorted(FoldLeft(LAMBDA a, f : add_cache(a, ReadEntry(f), limit, "none"),
                    [d EXCEPT !.sort = FALSE],
                    SubSeq(file.ents, 1, Min({file.count, Len(file.ents)}))))

EmptyCache(now) ==
    [ents |-> << >>, rrl |-> << >>, size |-> 0, num |-> 0, sort |-> TRUE,
     warn |-> FALSE, now |-> now]

==============================================================================
