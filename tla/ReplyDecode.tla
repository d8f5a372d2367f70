---------------------------- MODULE ReplyDecode ----------------------------
(***************************************************************************)
(* How the sections of a reply are read (rrs2cent, rr_to_cache and the     *)
(* part of p_exec_query that calls them, dns_query.c).  Records are        *)
(* followed by their sizes: a name on the wire takes some bytes and is     *)
(* some bytes long when decompressed (module Decompress has how), and a    *)
(* record is put together in a buffer, field by field.                     *)
(*   lcnt    bytes of the message that are left                            *)
(*   claims  what the header says are the numbers of records               *)
(*   sec, i  the section, and the records of it that were read             *)
(*   rec     the record in hand: blcnt bytes of its rdlength are left, slen*)
(*           are in the buffer, parts are to come                          *)
(*   centas  the arrays of entries, one for each section                   *)
(***************************************************************************)
EXTENDS RrLayout, FiniteSets

CONSTANTS
    Owners, Types,  \* owner names, types that occur
    NameSizes,      \* <<bytes on the wire, bytes decompressed>> of names
    TextSizes,      \* sizes of the fixed fields and texts of a NAPTR record
    RdLengths,      \* rdlength fields that occur
    MsgSizes, MaxRecords

ASSUME NamesAssumption ==
    /\ NameSizes \subseteq (Nat \ {0}) \X (1..NameBuf)
    /\ TextSizes \subseteq 7..TextsMax
    /\ RdLengths \subseteq Nat /\ MsgSizes \subseteq Nat /\ MaxRecords \in Nat

VARIABLES lcnt, claims, tc, sec, i, rec, centas, numopt, rv

rvars == <<lcnt, claims, tc, sec, i, rec, centas, numopt, rv>>
NoRec == [t |-> "none"]

Done(res) == rv' = res /\ rec' = NoRec /\ UNCHANGED <<lcnt, claims, tc, sec, i, centas, numopt>>

(* The record is added to the entry of its owner, or to a new one. *)
rr_to_cache(centa, n, r) ==
    IF \E j \in DOMAIN centa : centa[j].n = n
    THEN [j \in DOMAIN centa |-> IF centa[j].n = n
                                 THEN [centa[j] EXCEPT !.rrs = @ \union {r}]
                                 ELSE centa[j]]
    ELSE Append(centa, [n |-> n, rrs |-> {r}])

(* The message ends before the header or the data of a record do. *)
TooShort(left, len) == left < len

(* The name and the header of the next record. *)
Header ==
    /\ rv = "none" /\ rec = NoRec /\ i < claims[sec]
    /\ \/ \E res \in {"TRUNC", "FORMAT"} : Done(res)
       \/ \E n \in Owners, t \in Types, s \in NameSizes, len \in RdLengths :
            LET left == lcnt - s[1] - sizeof_rr_hdr_t
            IN  /\ s[1] <= lcnt
                /\ IF TooShort(left, len) THEN Done("TRUNC")
                   ELSE /\ rec' = [t |-> t, n |-> n, rdlength |-> len, blcnt |-> len, slen |-> 0,
                                   parts |-> Layout(t)]
                        /\ lcnt' = left
                        /\ UNCHANGED <<claims, tc, sec, i, centas, numopt, rv>>

(* Records that are not stored: OPT, and types or classes not cached. *)
Skip ==
    /\ rv = "none" /\ rec # NoRec /\ rec.t \in {"OPT", "other"}
    /\ numopt' = IF rec.t = "OPT" THEN numopt + 1 ELSE numopt
    /\ lcnt' = lcnt - rec.rdlength /\ i' = i + 1 /\ rec' = NoRec
    /\ UNCHANGED <<claims, tc, sec, centas, rv>>

Take(n, m) ==
    /\ rec' = [rec EXCEPT !.blcnt = @ - n, !.slen = @ + m, !.parts = Tail(@)]
    /\ UNCHANGED <<lcnt, claims, tc, sec, i, centas, numopt, rv>>

(* Mutant: the rest is copied without a look at the buffer. *)
mut_rest_unchecked == Take(rec.blcnt, rec.blcnt)

TakeRest == IF rec.t \in Named /\ rec.slen + rec.blcnt > Room(rec.t) THEN Done("FORMAT")
            ELSE Take(rec.blcnt, rec.blcnt)

Part ==
    /\ rv = "none" /\ rec # NoRec /\ rec.t \notin {"OPT", "other", "A", "AAAA", "IPSECKEY", "RRSIG", "NSEC"}
    /\ rec.parts # << >>
    /\ LET p == Head(rec.parts)
       IN  CASE p.k = "field" -> IF rec.blcnt < p.n THEN Done("FORMAT") ELSE Take(p.n, p.n)
             [] p.k = "name"  -> \/ Done("FORMAT")
                                 \/ \E s \in NameSizes : s[1] <= rec.blcnt /\ Take(s[1], s[2])
             [] p.k = "texts" -> \E n \in TextSizes :
                                    IF n > rec.blcnt THEN Done("FORMAT") ELSE Take(n, n)
             [] p.k = "rest"  -> TakeRest

(* Types that are checked but mostly stored as they are: addresses must have
   their size; the name in the others is decompressed if need be, into memory
   of the size that takes. *)
Before(t) == CASE t = "IPSECKEY" -> 3 [] t = "RRSIG" -> 18 [] OTHER -> 0
Checked ==
    /\ rv = "none" /\ rec # NoRec /\ rec.t \in {"A", "AAAA", "IPSECKEY", "RRSIG", "NSEC"}
    /\ rec.parts # << >>
    /\ LET rest == rec.blcnt - Before(rec.t)
       IN  CASE rec.t = "A" -> IF rec.rdlength # 4 THEN Done("FORMAT") ELSE Take(4, 4)
             [] rec.t = "AAAA" -> IF rec.rdlength # 16 THEN Done("FORMAT") ELSE Take(16, 16)
             [] OTHER -> \/ Done("FORMAT")
                         \/ rest >= 0 /\ Take(rec.blcnt, rec.blcnt)
                         \/ \E s \in NameSizes :
                              s[1] <= rest /\ Take(rec.blcnt, rec.blcnt - s[1] + s[2])

(* The record as it is stored; over are the bytes of it that were not taken. *)
Whole == [t |-> rec.t, len |-> rec.slen, over |-> rec.blcnt]

Store ==
    /\ rv = "none" /\ rec # NoRec /\ rec.t \notin {"OPT", "other"} /\ rec.parts = << >>
    /\ IF rec.blcnt # 0 THEN Done("FORMAT")
       ELSE /\ centas' = [centas EXCEPT ![sec] = rr_to_cache(@, rec.n, Whole)]
            /\ lcnt' = lcnt - rec.rdlength /\ i' = i + 1 /\ rec' = NoRec
            /\ UNCHANGED <<claims, tc, sec, numopt, rv>>

NextSection ==
    /\ rv = "none" /\ rec = NoRec /\ i = claims[sec]
    /\ IF sec = 3 THEN Done("OK")
       ELSE sec' = sec + 1 /\ i' = 0 /\ numopt' = 0 /\ UNCHANGED <<lcnt, claims, tc, rec, centas, rv>>

(* p_exec_query: a truncated message will do if the header says so. *)
Verdict ==
    /\ rv \in {"OK", "TRUNC", "FORMAT"}
    /\ rv' = IF rv = "OK" \/ (rv = "TRUNC" /\ tc) THEN "used" ELSE "SERVFAIL"
    /\ UNCHANGED <<lcnt, claims, tc, sec, i, rec, centas, numopt>>

(* The answer section always has an entry for the name asked for. *)
RInit ==
    /\ lcnt \in MsgSizes /\ tc \in BOOLEAN
    /\ claims \in {c \in [1..3 -> 0..MaxRecords] : c[1] + c[2] + c[3] <= MaxRecords}
    /\ sec = 1 /\ i = 0 /\ rec = NoRec /\ numopt = 0 /\ rv = "none"
    /\ \E n \in Owners : centas = <<<<[n |-> n, rrs |-> {}]>>, << >>, << >>>>

RNext == Header \/ Skip \/ Part \/ Checked \/ Store \/ NextSection \/ Verdict
RSpec == RInit /\ [][RNext]_rvars

------------------------------------------------------------------------------
(* Properties *)

(* Whatever lengths a message gives, no record outgrows the buffer it is put
   together in. ("the whole record will always fit into db") *)
RecordsFit == rec # NoRec /\ rec.t \in Named => rec.slen <= Room(rec.t)

(* Whatever lengths the records give, the reader keeps inside the message and
   inside the record in hand. (lcnt and blcnt in rrs2cent never wrap) *)
ReadsInside ==
    /\ lcnt >= 0
    /\ rec # NoRec => rec.blcnt \in 0..rec.rdlength /\ rec.rdlength <= lcnt

(* A record that is stored was taken to its last byte, and an address has the
   size of one. (trailing_junk, invalid_length) *)
WholeRecords ==
    \A s \in 1..3 : \A j \in DOMAIN centas[s] : \A r \in centas[s][j].rrs :
        r.over = 0 /\ (r.t = "A" => r.len = 4) /\ (r.t = "AAAA" => r.len = 16)
        /\ (r.t = "SOA" => r.len >= 22)

(* Entries are collected by owner: no section has two for a name, the
   name asked for included. (the search in rr_to_cache) *)
OneEntryPerName ==
    \A s \in 1..3 : \A j, k \in DOMAIN centas[s] : j # k => centas[s][j].n # centas[s][k].n

(* Whatever a reply says, its records are read inside the message, put together
   inside their buffers, and stored whole under one entry for each name. *)
RecordsSound == RecordsFit /\ ReadsInside /\ WholeRecords /\ OneEntryPerName

==============================================================================
