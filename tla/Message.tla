------------------------------ MODULE Message ------------------------------
(***************************************************************************)
(* Writing a DNS message (compress_name in dns.c; add_rr, sva_add,         *)
(* add_additional_rr, add_opt_pseudo_rr in dns_answer.c).  A message is    *)
(*   sz, alloc    *rlen and *allocsz                                       *)
(*   body         the labels, offsets and ends of names, by where they are *)
(*   cb           the compression list: names and where they were written  *)
(*   cnt          ancount, nscount, arcount                                *)
(*   sva          the records marked as added                              *)
(* and, as history, names (what was written where), recs (the records) and *)
(* fits (nothing was written behind the allocated memory).  All labels are *)
(* LabelLen bytes long with their length byte.  A datum of a record is     *)
(*   [id, names (those of its Layout, in order), rest (size of the rest)]. *)
(***************************************************************************)
EXTENDS RrLayout, Names, SequencesExt

CONSTANTS
    LabelLen,
    MaxOffset,      \* the greatest offset that fits, 0x3fff
    AllocInitial,   \* ALLOCINITIALSIZE
    AllocChunk,     \* ALLOCCHUNKSIZEMASK + 1
    NoLimit         \* no limit on the size: the client uses TCP

ASSUME MessageAssumption ==
    /\ LabelLen \in Nat \ {0, 1} /\ MaxOffset \in Nat
    /\ AllocInitial \in Nat /\ AllocChunk \in Nat \ {0}
    /\ AllocInitial >= 14    \* sizeof(dns_msg_t)

HdrSize == 12
dnsmsghdroffset == 2

Answer == 1
Authority == 2
Additional == 3

rhnlen(n) == LabelLen * Len(n) + 1

Blank(alloc) ==
    [sz |-> HdrSize, alloc |-> alloc, body |-> {}, cb |-> << >>,
     cnt |-> <<0, 0, 0>>, sva |-> {}, names |-> {}, recs |-> << >>, fits |-> TRUE]

------------------------------------------------------------------------------
(* compress_name *)

(* Mutant: of two matches of one length the later is taken. *)
mut_last_match(n, best, ci) ==
    LET d == domain_match(n, ci.n)
        newoffs == ci.index + LabelLen * d.od
    IN  IF d.k > 0 /\ d.k >= best.k /\ newoffs <= MaxOffset
        THEN [k |-> d.k, rem |-> d.os, to |-> newoffs] ELSE best

(* k labels of n can be replaced by the offset to, rem are left. *)
Longer(n, best, ci) ==
    LET d == domain_match(n, ci.n)
        newoffs == ci.index + LabelLen * d.od
    IN  IF d.k > best.k /\ newoffs <= MaxOffset
        THEN [k |-> d.k, rem |-> d.os, to |-> newoffs] ELSE best

compress_name(n, cb) ==
    FoldLeft(LAMBDA best, ci : Longer(n, best, ci), [k |-> 0, rem |-> Len(n), to |-> 0], cb)

Size(c) == LabelLen * c.rem + (IF c.k > 0 THEN 2 ELSE 1)

(* What stands in a body: a label, an offset or the end of a name. *)
Token(at, k, l, to) == [at |-> at, k |-> k, l |-> l, to |-> to]
Tokens(n, c, at) ==
    {Token(at + LabelLen * (j - 1), "label", n[j], 0) : j \in 1..c.rem} \union
    {IF c.k > 0 THEN Token(at + LabelLen * c.rem, "offset", "", c.to % (MaxOffset + 1))
     ELSE Token(at + LabelLen * c.rem, "end", "", 0)}

(* len bytes that are not part of a name. *)
PutBytes(m, len) ==
    [m EXCEPT !.sz = @ + len,
              !.body = {k \in @ : k.at < m.sz \/ k.at >= m.sz + len},
              !.fits = @ /\ dnsmsghdroffset + m.sz + len <= m.alloc]

PutName(m, n) ==
    LET c == compress_name(n, m.cb)
    IN  [PutBytes(m, Size(c)) EXCEPT
            !.body = @ \union Tokens(n, c, m.sz),
            !.cb = IF c.k = 0 \/ c.rem # 0 THEN Append(@, [n |-> n, index |-> m.sz]) ELSE @,
            !.names = @ \union {<<m.sz, n>>}]

------------------------------------------------------------------------------
(* Records *)

(* Memory for need more bytes; it grows by whole chunks. *)
Grow(m, need) ==
    LET newsz == dnsmsghdroffset + m.sz + need
    IN  [m EXCEPT !.alloc = IF newsz > @
                            THEN ((newsz + AllocChunk - 1) \div AllocChunk) * AllocChunk ELSE @]

(* The size of a datum before it is compressed. *)
dlen(t, d) ==
    FoldLeft(LAMBDA s, n : s + rhnlen(n), d.rest, d.names)
    + FoldLeft(LAMBDA s, p : s + (IF p.k = "field" THEN p.n ELSE 0), 0, Layout(t))

PutPart(acc, p, d) ==
    CASE p.k = "name"  -> [m |-> PutName(acc.m, Head(acc.names)), names |-> Tail(acc.names)]
      [] p.k = "field" -> [acc EXCEPT !.m = PutBytes(@, p.n)]
      [] OTHER         -> [acc EXCEPT !.m = PutBytes(@, d.rest)]
PutData(m, t, d) ==
    FoldLeft(LAMBDA acc, p : PutPart(acc, p, d), [m |-> m, names |-> d.names], Layout(t)).m

(* The bytes add_rr provides for: the owner's name is known in its
   compressed form, the names of the data are not. *)
mut_no_data(m, n, t, d) == Size(compress_name(n, m.cb)) + sizeof_rr_hdr_t    \* mutant
Need(m, n, t, d) == Size(compress_name(n, m.cb)) + sizeof_rr_hdr_t + dlen(t, d)

Record(m, end, n, t, d, sect, local) ==
    [at |-> m.sz, end |-> end, n |-> n, t |-> t, d |-> d, sect |-> sect, local |-> local]

(* The record that leads from m to b counts, unless it is an additional one
   beyond the limit: then its bytes are given up, but not what it added to
   the compression list. *)
Settle(m, b, n, t, d, sect, limit, local) ==
    IF limit # NoLimit /\ b.sz > limit /\ sect = Additional
    THEN [b EXCEPT !.sz = m.sz, !.names = m.names]
    ELSE [b EXCEPT !.cnt[sect] = @ + 1,
                   !.recs = Append(@, Record(m, b.sz, n, t, d, sect, local))]

add_rr(m, n, t, d, sect, limit, local) ==
    LET head == PutBytes(PutName(Grow(m, Need(m, n, t, d)), n), sizeof_rr_hdr_t)
    IN  Settle(m, PutData(head, t, d), n, t, d, sect, limit, local)

NoData == [id |-> 0, names |-> << >>, rest |-> 0]
add_opt_pseudo_rr(m) ==
    LET b == PutBytes(Grow(m, sizeof_opt_pseudo_rr), sizeof_opt_pseudo_rr)
    IN  [b EXCEPT !.cnt[Additional] = @ + 1,
                  !.recs = Append(@, Record(m, b.sz, Root, "OPT", NoData, Additional, FALSE))]

sva_add(m, n, t, d) == [m EXCEPT !.sva = @ \union {<<n, t, d>>}]

(* No record is added twice; one that was dropped is not tried again. *)
add_additional_rr(m, n, t, d, sect, limit) ==
    IF <<n, t, d>> \in m.sva THEN m
    ELSE sva_add(add_rr(m, n, t, d, sect, limit, FALSE), n, t, d)

------------------------------------------------------------------------------
(* Reading a message back *)

(* The name at offset o, if the offsets in it lead back and not in circles. *)
NameAt(m, o) ==
    LET read[p \in 0..(m.sz + 2), k \in 0..8] ==
          LET here == {x \in m.body : x.at = p /\ p < m.sz}
              x    == CHOOSE y \in here : TRUE
          IN  IF k = 0 \/ here = {} THEN <<"unreadable">>
              ELSE CASE x.k = "end"    -> Root
                     [] x.k = "label"  -> <<x.l>> \o read[p + LabelLen, k - 1]
                     [] x.k = "offset" -> IF x.to < p THEN read[x.to, k - 1] ELSE <<"circle">>
    IN  read[o, 8]

Readable(m) == \A w \in m.names : NameAt(m, w[1]) = w[2]

(* The records follow each other without gaps, by section, to the end of the
   message, and the header counts them. *)
Orderly(m) ==
    /\ \A i \in 1..(Len(m.recs) - 1) :
          m.recs[i].end = m.recs[i + 1].at /\ m.recs[i].sect <= m.recs[i + 1].sect
    /\ m.recs # << >> => m.recs[Len(m.recs)].end = m.sz
    /\ \A s \in 1..3 : m.cnt[s] = Len(SelectSeq(m.recs, LAMBDA r : r.sect = s))

==============================================================================
