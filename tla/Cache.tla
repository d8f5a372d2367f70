------------------------------- MODULE Cache --------------------------------
(***************************************************************************)
(* The cache in use.  Query threads look names up and add what name        *)
(* servers answered, the status thread carries out the commands that reach *)
(* the cache (status.c), main reads the cache file on start and writes it  *)
(* on exit, and the process may die at any point.  One step is one         *)
(* critical section of the cache lock; an operation that takes the lock    *)
(* more than once (lookup_cache, the wildcard case of CTL_ADD,             *)
(* empty_cache, write_disk_cache) has one step per section.                *)
(***************************************************************************)
EXTENDS CacheOps

CONSTANTS
    Threads,      \* query threads
    Names,        \* domain names, as sequences of labels
    Asked,        \* those that are looked up, deleted or invalidated
    Answers,      \* entries (with time stamp 0) that queries may produce
    LocalEnts,    \* local entries of CTL_ADD commands
    NegEnts,      \* and of CTL_NEG commands
    ConfEnts,     \* local entries of the configuration file, a sequence
    RevName,      \* the reverse name of an address
    Bucket,       \* hash bucket of a name, in 1..Buckets
    Buckets,
    Selections,   \* sets of names that CTL_EMPTY may select
    MaxSize,      \* perm_cache * 1024 + MCSZ
    PermSize,     \* perm_cache * 1024
    MaxTime, MaxStarts, MaxInvals, MaxOom,   \* bounds of the model
    MaxAdds

VARIABLES
    db,        \* the cache (see CacheOps)
    look,      \* per thread: a lookup_cache call
    ctl,       \* the command the status thread is carrying out
    disk,      \* the cache file
    main,      \* main thread: run, purged (first half of the save), down
    stirred,   \* since the start, an entry was invalidated
    starts, invals, ooms, adds     \* counters for the bounds

vars == <<db, look, ctl, disk, main, stirred, starts, invals, ooms, adds>>

NoFile == [count |-> 0, ents |-> << >>]
Idle == [pc |-> "idle"]

Up == main # "down"

------------------------------------------------------------------------------
(* Query threads *)

(* lookup_cache, first with read access only.  If something is to be purged
   write access is asked for; otherwise the entry found is copied, which
   changes nothing here. *)
LookupRead(t, n, wild) ==
    /\ Up /\ look[t] = Idle
    /\ LET f == SelectEntry(db, n, wild) IN f.found /\ purge_cent_test(db, f.at)
    /\ look' = [look EXCEPT ![t] = [pc |-> "upgrade", name |-> n, wild |-> wild]]
    /\ UNCHANGED <<db, ctl, disk, main, stirred, starts, invals, ooms, adds>>

(* Mutant: an entry that became empty is kept and returned. *)
mut_keep_empty(l) ==
    LET f == SelectEntry(db, l.name, l.wild)
    IN  [got |-> f, d |-> IF f.found THEN purge_cent(db, f.at, FALSE) ELSE db]

(* The second half: search again, purge, and copy what is left. *)
PurgeResult(l) ==
    LET f  == SelectEntry(db, l.name, l.wild)
        d1 == IF f.found THEN purge_cent(db, f.at, TRUE) ELSE db
    IN  [got |-> IF f.found /\ f.at \in DOMAIN d1.ents THEN f ELSE NoEnt, d |-> d1]

LookupPurge(t) ==
    /\ Up /\ look[t].pc = "upgrade"
    /\ db' = PurgeResult(look[t]).d
    /\ look' = [look EXCEPT ![t] = Idle]
    /\ UNCHANGED <<ctl, disk, main, stirred, starts, invals, ooms, adds>>

(* The time of the query stamps what it found. *)
Stamped(cent, ts) ==
    [cent EXCEPT !.nts = IF "NEG" \in cent.fl THEN ts ELSE 0,
                 !.sets = [t \in DOMAIN @ |-> [@[t] EXCEPT !.ts = ts]]]

(* A thread adds an answer; the query may have been sent a tick ago.  The
   allocation for one set may fail. *)
AddAnswer(cent, ts, oomAt) ==
    /\ Up /\ adds < MaxAdds
    /\ oomAt # "none" => ooms < MaxOom
    /\ db' = add_cache(db, Stamped(cent, ts), MaxSize, oomAt)
    /\ ooms' = IF oomAt # "none" THEN ooms + 1 ELSE ooms
    /\ adds' = adds + 1
    /\ UNCHANGED <<look, ctl, disk, main, stirred, starts, invals>>

------------------------------------------------------------------------------
(* The status thread.  It serves one command at a time. *)

CtlDelete(n) ==
    /\ Up /\ ctl = Idle
    /\ db' = IF n \in DOMAIN db.ents THEN del_cent(db, n) ELSE db
    /\ UNCHANGED <<look, ctl, disk, main, stirred, starts, invals, ooms, adds>>

CtlInvalidate(n) ==
    /\ Up /\ ctl = Idle /\ invals < MaxInvals
    /\ db' = invalidate_record(db, n)
    /\ stirred' = (stirred \/ n \in DOMAIN db.ents)
    /\ invals' = invals + 1
    /\ UNCHANGED <<look, ctl, disk, main, starts, ooms, adds>>

(* CTL_ADD.  Records for a wildcard name first flag the name
   below the star, which must have an entry; the lock is free in between. *)
CtlAdd(cent) ==
    /\ Up /\ ctl = Idle /\ adds < MaxAdds
    /\ LET base == Tail(cent.qname)
       IN  \/ /\ ~IsWild(cent.qname)
              /\ db' = add_cache(db, cent, MaxSize, "none")
              /\ UNCHANGED ctl
           \/ /\ IsWild(cent.qname)
              /\ db' = set_cent_flags(db, base, {"WILD"})
              /\ ctl' = IF base \in DOMAIN db.ents
                        THEN [pc |-> "wild", cent |-> cent] ELSE Idle
    /\ adds' = adds + 1
    /\ UNCHANGED <<look, disk, main, stirred, starts, invals, ooms>>

CtlAddWild ==
    /\ Up /\ ctl.pc = "wild"
    /\ db' = add_cache(db, ctl.cent, MaxSize, "none")
    /\ ctl' = Idle
    /\ UNCHANGED <<look, disk, main, stirred, starts, invals, ooms, adds>>

(* CTL_NEG negates a domain or one type of its records. *)
CtlNeg(cent) ==
    /\ Up /\ ctl = Idle /\ adds < MaxAdds
    /\ db' = add_cache(db, cent, MaxSize, "none")
    /\ adds' = adds + 1
    /\ UNCHANGED <<look, ctl, disk, main, stirred, starts, invals, ooms>>

(* CTL_EMPTY: empty_cache deletes the selected names bucket by bucket and
   yields the lock between two buckets. *)
CtlEmpty(sel) ==
    /\ Up /\ ctl = Idle
    /\ ctl' = [pc |-> "empty", sel |-> sel, i |-> 1]
    /\ UNCHANGED <<db, look, disk, main, stirred, starts, invals, ooms, adds>>

free_dns_hash_selected(d, i, sel) ==
    FoldSet(LAMBDA n, a : del_cent(a, n), d,
            {n \in DOMAIN d.ents \intersect sel : Bucket[n] = i})

CtlEmptyBucket ==
    /\ Up /\ ctl.pc = "empty"
    /\ db' = free_dns_hash_selected(db, ctl.i, ctl.sel)
    /\ ctl' = IF ctl.i = Buckets THEN Idle ELSE [ctl EXCEPT !.i = @ + 1]
    /\ UNCHANGED <<look, disk, main, stirred, starts, invals, ooms, adds>>

------------------------------------------------------------------------------
(* The main thread *)

(* write_disk_cache: purge to the permanent size under the write lock, then
   write under the read lock. *)
SavePurge ==
    /\ main = "run"
    /\ db' = purge_cache(db, PermSize, FALSE)
    /\ main' = "purged"
    /\ UNCHANGED <<look, ctl, disk, stirred, starts, invals, ooms, adds>>

Stop ==
    /\ main' = "down"
    /\ db' = EmptyCache(db.now)
    /\ look' = [t \in Threads |-> Idle]
    /\ ctl' = Idle
    /\ stirred' = FALSE
    /\ UNCHANGED <<starts, invals, ooms, adds>>

SaveWrite ==
    /\ main = "purged"
    /\ disk' = DiskImage(db)
    /\ Stop

(* The process dies while it writes: the count and a prefix are on disk. *)
CrashInSave ==
    /\ main = "purged"
    /\ \E k \in 0..(Len(DiskImage(db).ents) - 1) :
           disk' = [DiskImage(db) EXCEPT !.ents = SubSeq(@, 1, k)]
    /\ Stop

(* The process dies, or the cache lock cannot be had: the file stays. *)
Crash == Up /\ UNCHANGED disk /\ Stop

(* Start: the configuration file defines local records, an entry with its
   reverse ones, then the cache file is read.  The model forgets a file that
   no later start will read. *)
AddConf(d, cent) ==
    add_reverse_cache(add_cache(d, cent, MaxSize, "none"), cent, MaxSize, RevName)

Start ==
    /\ main = "down" /\ starts < MaxStarts
    /\ db' = read_disk_cache(FoldLeft(AddConf, EmptyCache(db.now), ConfEnts),
                             disk, MaxSize)
    /\ main' = "run"
    /\ starts' = starts + 1
    /\ disk' = IF starts' = MaxStarts THEN NoFile ELSE disk
    /\ UNCHANGED <<look, ctl, stirred, invals, ooms, adds>>

Tick ==
    /\ db.now < MaxTime
    /\ db' = [db EXCEPT !.now = @ + 1]
    /\ UNCHANGED <<look, ctl, disk, main, stirred, starts, invals, ooms, adds>>

------------------------------------------------------------------------------

Init ==
    /\ db = EmptyCache(1)
    /\ look = [t \in Threads |-> Idle]
    /\ ctl = Idle
    /\ disk = NoFile
    /\ main = "down"
    /\ stirred = FALSE
    /\ starts = 0 /\ invals = 0 /\ ooms = 0 /\ adds = 0

Next ==
    \/ \E t \in Threads : \/ \E n \in Asked, w \in BOOLEAN : LookupRead(t, n, w)
                          \/ LookupPurge(t)
    \/ \E c \in Answers, ts \in {db.now - 1, db.now} \ {0} :
           \E o \in {"none"} \union DOMAIN c.sets : AddAnswer(c, ts, o)
    \/ \E n \in Asked : CtlDelete(n) \/ CtlInvalidate(n)
    \/ \E c \in LocalEnts : CtlAdd(c)
    \/ \E c \in NegEnts : CtlNeg(c)
    \/ CtlAddWild
    \/ \E s \in Selections : CtlEmpty(s)
    \/ CtlEmptyBucket
    \/ SavePurge \/ SaveWrite \/ CrashInSave \/ Crash \/ Start
    \/ Tick

Spec == Init /\ [][Next]_vars

------------------------------------------------------------------------------
(* Properties *)

Cents == {db.ents[n] : n \in DOMAIN db.ents}

TypeOK ==
    /\ DOMAIN db.ents \subseteq Names
    /\ \A n \in DOMAIN db.ents :
           /\ db.ents[n].qname = n
           /\ DOMAIN db.ents[n].sets \subseteq Types
           /\ "NEG" \in db.ents[n].fl => db.ents[n].sets = << >>
    /\ db.size \in Nat /\ db.num \in Nat /\ db.now \in 1..MaxTime
    /\ main \in {"run", "purged", "down"}
    /\ \A t \in Threads : look[t].pc \in {"idle", "upgrade"}

(* The counters that cache.c keeps by hand through purging, replacing, merging
   and failed allocations agree with what is cached: ent_num, cache_size, and
   the count and size in each entry. *)
AccountsBalance ==
    /\ db.num = Cardinality(DOMAIN db.ents)
    /\ db.size = MapThenSumSet(LAMBDA n : db.ents[n].cs, DOMAIN db.ents)
    /\ \A e \in Cents :
           /\ e.num = Cardinality(DOMAIN e.sets)
           /\ e.cs = CentSz + (IF e.ext THEN ExtSz ELSE 0)
                    + MapThenSumSet(LAMBDA t : del_rrset_size(e.sets[t]), DOMAIN e.sets)

(* The list rrset_l has exactly one element for each RR set and each negative
   entry that is not local: no element outlives its set, and nothing that may
   be purged is out of the reach of purge_cache. *)
Listed(n, t) ==
    /\ n \in DOMAIN db.ents /\ "LOCAL" \notin db.ents[n].fl
    /\ IF t = Whole THEN "NEG" \in db.ents[n].fl
       ELSE t \in DOMAIN db.ents[n].sets /\ "LOCAL" \notin db.ents[n].sets[t].fl

ListExact ==
    /\ IsInjective(db.rrl)
    /\ Range(db.rrl) = {le \in Names \X (Types \union {Whole}) : Listed(le[1], le[2])}

(* The oldest records come first in rrset_l, whatever mixture of insertions,
   purges and file reading built it, as long as no entry was invalidated
   (invalidate_record sets time stamps to 0 in place). *)
AgeOrder ==
    ~stirred => \A i, j \in DOMAIN db.rrl :
        i < j => get_rrlent_ts(db, db.rrl[i]) <= get_rrlent_ts(db, db.rrl[j])

(* The cache is in order: its counters, the entries and the list of records by
   age, which cache.c changes one by one, agree at every release of the lock. *)
InOrder == TypeOK /\ AccountsBalance /\ ListExact /\ AgeOrder

(* Once add_cache is done the cache fits its limit, or only local records and
   empty entries are left; only an allocation failure delays this. *)
SizeBounded == db.size > MaxSize /\ db.rrl # << >> => db.warn

(* Conflict resolution: no entry ever holds two positive RR sets of types that
   exclude each other, such as an alias and an address. *)
NoConflicts ==
    \A e \in Cents : \A t, u \in DOMAIN e.sets :
        "NEG" \in e.sets[t].fl \union e.sets[u].fl \/ <<t, u>> \notin Excludes

(* Local RR sets survive, unchanged, everything but the commands of the
   control socket and the end of the process: answers, lookups that purge, the
   purge before saving. *)
Survives(n, t) ==
    /\ n \in DOMAIN db'.ents /\ t \in DOMAIN db'.ents[n].sets
    /\ db'.ents[n].sets[t] = db.ents[n].sets[t]

LocalKept ==
    [][ (\E n \in DOMAIN db.ents : \E t \in DOMAIN db.ents[n].sets :
             "LOCAL" \in db.ents[n].sets[t].fl /\ ~Survives(n, t))
        => \/ main' = "down"
           \/ CtlEmptyBucket \/ CtlAddWild
           \/ \E n \in Asked : CtlDelete(n) \/ CtlInvalidate(n)
           \/ \E c \in LocalEnts : CtlAdd(c)
           \/ \E c \in NegEnts : CtlNeg(c) ]_vars

(* However additions, definitions and purges of an entry follow each other, it
   is never left with records that exclude each other, and local records give
   way only to commands. (cr_check_add and the precedence in add_cache) *)
MergesRight == []NoConflicts /\ LocalKept

(* lookup_cache gives up the lock between testing an entry and purging it.
   What it returns is still the entry that answers the name when it returns,
   with nothing in it that is due to be purged. *)
LookupCurrent ==
    [][ \A t \in Threads : look[t] # Idle /\ look'[t] = Idle /\ main' # "down" =>
            LET f == PurgeResult(look[t]).got
            IN  f.found => /\ f = SelectEntry(db', look[t].name, look[t].wild)
                           /\ ~purge_cent_test(db', f.at) ]_vars

(* The cache file holds no local record, so no local definition outlives the
   configuration or command that made it. *)
NoLocalOnDisk ==
    \A i \in DOMAIN disk.ents :
        LET f == disk.ents[i]
        IN  /\ ~({"NEG", "LOCAL"} \subseteq f.fl)
            /\ \A t \in DOMAIN f.sets : "LOCAL" \notin f.sets[t].fl

(* At a start every entry that reached the file is back with its records
   and its age, unless the name is configured locally or the file and the
   configuration together are too large for the cache. *)
SizeAtStart ==
    FoldLeft(LAMBDA a, f : a + ReadEntry(f).cs,
             FoldLeft(AddConf, EmptyCache(db.now), ConfEnts).size,
             SubSeq(disk.ents, 1, Min({disk.count, Len(disk.ents)})))
FileRead ==
    [][ Start /\ SizeAtStart <= MaxSize =>
        \A i \in 1 .. Min({disk.count, Len(disk.ents)}) :
            LET f == disk.ents[i]
                e == db'.ents[f.qname]
            IN  \/ \E j \in DOMAIN ConfEnts : ConfEnts[j].qname = f.qname
                \/ /\ f.qname \in DOMAIN db'.ents
                   /\ e.fl = f.fl /\ e.nts = f.nts /\ DOMAIN e.sets = DOMAIN f.sets
                   /\ \A t \in DOMAIN f.sets : /\ e.sets[t].rrs = f.sets[t].rrs
                                               /\ e.sets[t].ts = f.sets[t].ts ]_vars

(* What a restart brings back is what was saved and nothing that was defined
   locally, also if a crash cut the last save short. *)
RestartKeeps == []NoLocalOnDisk /\ FileRead

==============================================================================
