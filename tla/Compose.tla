------------------------------ MODULE Compose ------------------------------
(***************************************************************************)
(* One query, from the request as received to the reply as sent            *)
(* (process_query, compose_answer and the end of udp_answer_thread,        *)
(* dns_answer.c).  A request is a record                                   *)
(*   len, qr, opcode, z, rcode, tc, rd, qd, an, ns, ar    of the header    *)
(*   qs, qbad     the questions that can be read [n, t, in], and what the  *)
(*                reader meets if qd says there are more                   *)
(*   add, abad    likewise the additional records, [version, rcode, size]  *)
(*                of an OPT record or Other                                *)
(*   udp          it came by UDP                                           *)
(* What the cache and the resolver hold is Entries; any of it may be there *)
(* or not at each look, as other threads change it.  An entry is           *)
(*   [n, local, sets (sequences of data by type), c_ns, c_soa].            *)
(* TTLs and the ids of messages are left out.                              *)
(***************************************************************************)
EXTENDS Message, FiniteSets

CONSTANTS
    Requests, Entries,
    TypeOrder,      \* the types of records, in ascending order
    Failures,       \* what dns_cached_resolve may return besides OK
    MaxHops,        \* MAX_HOPS
    UdpBufSize,     \* UDP_BUFSIZE
    udpbufsize,     \* global.udpbufsize
    RndRecs         \* global.rnd_recs

ASSUME ComposeAssumption ==
    /\ MaxHops \in Nat /\ RndRecs \in BOOLEAN
    /\ UdpBufSize \in Nat /\ udpbufsize \in Nat /\ UdpBufSize <= udpbufsize

VARIABLES
    req, limit,     \* the request; *udp
    pc,
    m,              \* the reply
    rcode, aa, tc,  \* of its header
    ar,             \* for the authority and additional sections
    auth,           \* aa in compose_answer
    q, qname, hops, \* the question in hand
    i,              \* the element of ar in hand
    sent            \* bytes sent

vars == <<req, limit, pc, m, rcode, aa, tc, ar, auth, q, qname, hops, i, sent>>
query == <<q, qname, hops>>

Other == [version |-> -1]
None == [n |-> <<"none">>]
Undef == -1      \* cundef

------------------------------------------------------------------------------
(* The request *)

decode_query ==
    IF Len(req.qs) >= req.qd THEN [res |-> "OK", ql |-> req.qs]
    ELSE [res |-> req.qbad, ql |-> IF req.qbad = "TRUNC" THEN req.qs ELSE << >>]

decode_query_additional ==
    IF Len(req.add) >= req.ar THEN "OK" ELSE req.abad

Ql == decode_query.ql
Opts == SelectSeq(req.add, LAMBDA o : o # Other)
Edns == req.ar > 0 /\ Opts # << >>

(* The reasons to refuse a request, in the order in which they are tested. *)
Refusals ==
    LET d == decode_query
        a == decode_query_additional
    IN  <<<<req.len < 2, "drop">>,
          <<req.len < HdrSize, "FORMAT">>,
          <<req.qr, "drop">>,
          <<req.opcode # "QUERY", "NOTSUPP">>,
          <<req.z, "FORMAT">>,
          <<req.rcode # "OK", "drop">>,
          <<req.an > 0 \/ req.ns > 0, "FORMAT">>,
          <<d.res = "TRUNC" /\ (~req.tc \/ d.ql = << >>), "FORMAT">>,
          <<d.res \notin {"OK", "TRUNC"}, d.res>>,
          <<req.ar > 0 /\ d.res = "TRUNC", "FORMAT">>,
          <<req.ar > 0 /\ ~(a = "OK" \/ (a = "TRUNC" /\ req.tc)), "FORMAT">>,
          <<Edns /\ Opts[1].version # 0, "BADVERS">>,
          <<Edns /\ Opts[1].rcode # "OK", "FORMAT">>,
          <<d.ql = << >>, "FORMAT">>>>
Refusal == SelectInSeq(Refusals, LAMBDA r : r[1])

(* An error reply is a header, and an OPT record if the code needs one. *)
mk_error_reply(res) ==
    /\ m' = IF res = "BADVERS" THEN add_opt_pseudo_rr(Blank(14 + sizeof_opt_pseudo_rr)) ELSE Blank(14)
    /\ rcode' = res /\ pc' = "send"

(* The client may raise the limit, up to udpbufsize. *)
Limit(size) == IF size <= UdpBufSize THEN UdpBufSize
               ELSE IF udpbufsize > size THEN size ELSE udpbufsize

Receive ==
    /\ pc = "receive"
    /\ IF Refusal = 0
       THEN /\ pc' = "questions" /\ m' = Blank(AllocInitial)
            /\ limit' = IF req.udp /\ Edns THEN Limit(Opts[1].size) ELSE limit
            /\ UNCHANGED rcode
       ELSE /\ UNCHANGED limit
            /\ IF Refusals[Refusal][2] = "drop" THEN pc' = "dropped" /\ UNCHANGED <<m, rcode>>
               ELSE mk_error_reply(Refusals[Refusal][2])
    /\ UNCHANGED <<req, aa, tc, ar, auth, query, i, sent>>

------------------------------------------------------------------------------
(* The questions *)

AddQuestion(msg, qe) ==
    PutBytes(PutName(Grow(msg, rhnlen(qe.n) + 4), qe.n), 4)

Supported(qe) ==
    qe.in /\ (qe.t \in ToSet(TypeOrder) \/ qe.t \in {"MAILB", "MAILA", "ALL"})

Ask(j) ==
    IF j > Len(Ql) THEN pc' = "authority" /\ q' = j /\ UNCHANGED <<qname, hops>>
    ELSE pc' = "resolve" /\ q' = j /\ qname' = Ql[j].n /\ hops' = MaxHops

Questions ==
    /\ pc = "questions"
    /\ m' = FoldLeft(AddQuestion, m, Ql)
    /\ IF \A j \in DOMAIN Ql : Supported(Ql[j])
       THEN Ask(1) /\ UNCHANGED rcode
       ELSE rcode' = "NOTSUPP" /\ pc' = "send" /\ UNCHANGED query
    /\ UNCHANGED <<req, limit, aa, tc, ar, auth, i, sent>>

------------------------------------------------------------------------------
(* The answer section *)

have_rr(e, t) == t \in DOMAIN e.sets /\ e.sets[t] # << >>
Lookup(n) == {None} \union (IF n \in DOMAIN Entries THEN Entries[n] ELSE {})

(* A set in the order in which it is added: from a random record on. *)
Rotate(s, k) == [j \in DOMAIN s |-> s[1 + ((j + k - 1) % Len(s))]]
randrr(e) ==
    {k \in [DOMAIN e.sets -> UNION {0..Len(e.sets[t]) : t \in DOMAIN e.sets}] :
        \A t \in DOMAIN e.sets : k[t] = 0 \/ (RndRecs /\ k[t] < Len(e.sets[t]))}

ar_recs == {"NS", "MD", "MF", "MB", "MX", "SRV"}

AnswerRr(st, n, t, d, local) ==
    LET b == add_rr(st.m, n, t, d, Answer, limit, local)
    IN  [m |-> IF t \in {"NS", "A", "AAAA"} THEN sva_add(b, n, t, d) ELSE b,
         ar |-> IF t \in ar_recs THEN Append(st.ar, [tp |-> "ADD", d |-> d, nm |-> Root]) ELSE st.ar]

add_rrset(st, n, t, e, k) ==
    IF have_rr(e, t)
    THEN FoldLeft(LAMBDA s, d : AnswerRr(s, n, t, d, e.local), st, Rotate(e.sets[t], k[t]))
    ELSE st

(* The entry has no records of type t, but perhaps a CNAME. *)
Elsewhere(e, t) == t \notin {"CNAME", "ALL"} /\ ~have_rr(e, t)

mut_no_cname(e, t) ==    \* mutant
    CASE t = "MAILB" -> <<"MB", "MG", "MR">> [] t = "MAILA" -> <<"MD", "MF">>
      [] t = "ALL"   -> TypeOrder            [] OTHER       -> <<t>>
Sought(e, t) ==
    (IF Elsewhere(e, t) THEN <<"CNAME">> ELSE << >>) \o
    CASE t = "MAILB" -> <<"MB", "MG", "MR">> [] t = "MAILA" -> <<"MD", "MF">>
      [] t = "ALL"   -> TypeOrder            [] OTHER       -> <<t>>

add_to_response(e, t, k) ==
    FoldLeft(LAMBDA s, u : add_rrset(s, qname, u, e, k), [m |-> m, ar |-> ar], Sought(e, t))

(* The name server or SOA records to go with the last entry of a chain: its
   own, or those of a domain above it. *)
Lacks(e, t) ==
    CASE t = "ALL"   -> FALSE
      [] t = "MAILB" -> \A u \in {"MB", "MG", "MR"} : ~have_rr(e, u)
      [] t = "MAILA" -> \A u \in {"MD", "MF"} : ~have_rr(e, u)
      [] OTHER       -> ~have_rr(e, t)
rretp(e, t) == IF Lacks(e, t) THEN "SOA" ELSE "NS"

UpTo(n, c) == IF c # Undef /\ c < Len(n) THEN LastSegs(n, c) ELSE n
Above(n) == {LastSegs(n, j) : j \in 1..(Len(n) - 1)}
Sources(e, tp) ==
    IF have_rr(e, tp) THEN {e}
    ELSE Lookup(UpTo(e.n, IF tp = "NS" THEN e.c_ns ELSE e.c_soa))
         \union (IF e.local THEN UNION {Lookup(n) : n \in Above(e.n)} ELSE {})

add_ar(list, e, tp) ==
    IF e = None \/ ~have_rr(e, tp) THEN list
    ELSE list \o [j \in DOMAIN e.sets[tp] |-> [tp |-> tp, d |-> e.sets[tp][j], nm |-> e.n]]

(* dns_cached_resolve failed; a name error comes with a SOA record, if one is
   found, and with an OPT record. *)
NoAnswer ==
    /\ pc = "resolve"
    /\ \E rc \in Failures : rcode' = rc
    /\ \/ rcode' # "NAMEERR" /\ UNCHANGED m
       \/ /\ rcode' = "NAMEERR"
          /\ \E c_soa \in {Undef} \union (0..(Len(qname) - 1)) :
             \E e \in IF c_soa = Undef THEN {None} ELSE Lookup(LastSegs(qname, c_soa)) :
                LET soas == IF e # None /\ have_rr(e, "SOA") THEN e.sets["SOA"] ELSE << >>
                    b == FoldLeft(LAMBDA s, d : add_rr(s, e.n, "SOA", d, Authority, limit, FALSE), m, soas)
                IN  m' = IF Edns THEN add_opt_pseudo_rr(b) ELSE b
    /\ pc' = "send"
    /\ UNCHANGED <<req, limit, aa, tc, ar, auth, query, i, sent>>

mut_hops_kept(n) == UNCHANGED <<pc, q, hops>> /\ qname' = n

Hop(n) ==
    IF hops - 1 >= 0 THEN hops' = hops - 1 /\ qname' = n /\ UNCHANGED <<pc, q>> ELSE Ask(q + 1)

Authoritative(e) == auth' = (auth /\ e.local)

Resolve ==
    /\ pc = "resolve" /\ qname \in DOMAIN Entries
    /\ \E e \in Entries[qname] : \E k \in randrr(e) :
        LET t  == Ql[q].t
            st == add_to_response(e, t, k)
        IN  /\ m' = st.m /\ Authoritative(e)
            /\ IF req.rd /\ Elsewhere(e, t) /\ have_rr(e, "CNAME")
               THEN ar' = st.ar /\ Hop(e.sets["CNAME"][1].names[1])
               ELSE /\ \E x \in Sources(e, rretp(e, t)) : ar' = add_ar(st.ar, x, rretp(e, t))
                    /\ Ask(q + 1)
    /\ UNCHANGED <<req, limit, rcode, aa, tc, i, sent>>

------------------------------------------------------------------------------
(* The authority and additional sections *)

AuthorityRr(msg, x) ==
    IF x.tp = "ADD" THEN msg ELSE add_additional_rr(msg, x.nm, x.tp, x.d, Authority, limit)

AuthoritySection ==
    /\ pc = "authority"
    /\ LET b == FoldLeft(AuthorityRr, m, ar)
       IN  IF limit # NoLimit /\ b.sz + sizeof_opt_pseudo_rr > limit
           THEN m' = b /\ pc' = "finish"
           ELSE /\ m' = IF Edns THEN add_opt_pseudo_rr(b) ELSE b
                /\ pc' = "additional"
    /\ i' = 1
    /\ UNCHANGED <<req, limit, rcode, aa, tc, ar, auth, query, sent>>

add_additional_rrs(msg, e, t, k) ==
    IF have_rr(e, t)
    THEN FoldLeft(LAMBDA b, d : add_additional_rr(b, e.n, t, d, Additional, limit),
                  msg, Rotate(e.sets[t], k[t]))
    ELSE msg

(* The addresses of the server an element of ar names. *)
add_additional_a ==
    /\ pc = "additional" /\ i <= Len(ar)
    /\ IF ar[i].tp = "SOA" THEN UNCHANGED m
       ELSE \E e \in Lookup(ar[i].d.names[1]) :
              IF e = None THEN UNCHANGED m
              ELSE \E k \in randrr(e) :
                     m' = add_additional_rrs(add_additional_rrs(m, e, "A", k), e, "AAAA", k)
    /\ i' = i + 1
    /\ UNCHANGED <<req, limit, pc, rcode, aa, tc, ar, auth, query, sent>>

Finish ==
    /\ pc = "finish" \/ (pc = "additional" /\ i > Len(ar))
    /\ aa' = auth /\ pc' = "send"
    /\ UNCHANGED <<req, limit, m, rcode, tc, ar, auth, query, i, sent>>

(* No memory for a list or for the reply: an error reply, if that much can be
   had. *)
OutOfMemory ==
    /\ pc \in {"questions", "resolve", "authority", "additional"}
    /\ \/ mk_error_reply("SERVFAIL")
       \/ pc' = "dropped" /\ UNCHANGED <<m, rcode>>
    /\ UNCHANGED <<req, limit, aa, tc, ar, auth, query, i, sent>>

(* udp_answer_thread cuts what is too long. *)
Send ==
    /\ pc = "send" /\ pc' = "sent"
    /\ IF limit # NoLimit /\ m.sz > limit THEN sent' = limit /\ tc' = TRUE
       ELSE sent' = m.sz /\ UNCHANGED tc
    /\ UNCHANGED <<req, limit, m, rcode, aa, ar, auth, query, i>>

Done == pc \in {"sent", "dropped"} /\ UNCHANGED vars

Init ==
    /\ req \in Requests /\ limit = IF req.udp THEN UdpBufSize ELSE NoLimit
    /\ pc = "receive" /\ m = Blank(AllocInitial)
    /\ rcode = "OK" /\ aa = FALSE /\ tc = FALSE /\ ar = << >> /\ auth = TRUE
    /\ q = 0 /\ qname = Root /\ hops = MaxHops /\ i = 0 /\ sent = 0

Next == Receive \/ Questions \/ NoAnswer \/ Resolve \/ AuthoritySection
        \/ add_additional_a \/ Finish \/ OutOfMemory \/ Send \/ Done
Spec == Init /\ [][Next]_vars

------------------------------------------------------------------------------
(* Properties *)

TypeOK ==
    /\ req \in Requests /\ limit \in Nat \union {NoLimit}
    /\ pc \in {"receive", "questions", "resolve", "authority", "additional", "finish",
               "send", "sent", "dropped"}
    /\ rcode \in Failures \union {"OK", "FORMAT", "NOTSUPP", "BADVERS", "SERVFAIL"}
    /\ aa \in BOOLEAN /\ tc \in BOOLEAN /\ auth \in BOOLEAN
    /\ q \in 0..(Len(req.qs) + 1) /\ hops \in 0..MaxHops /\ i \in 0..(Len(ar) + 1)
    /\ sent \in Nat /\ m.cnt \in [1..3 -> Nat] /\ m.fits \in BOOLEAN

(* Every name in a reply reads back as the name that was meant, through
   offsets that lead backward and fit into 14 bits; also after a record was
   given up whose names stay in the compression list. (compress_name's "We
   rely here that the first occurence can't be compressed", add_rr) *)
PointersSound == Readable(m)

(* A reply can be taken apart again: its records abut, section by section,
   and the header counts those that are there, dropped ones not included. *)
WellFormed == Orderly(m)

(* A client can read every reply: the records and the names in them. *)
Legible == TypeOK /\ PointersSound /\ WellFormed

(* Nothing is written behind the memory of the reply, though the size of
   compressed data is only known when they are in it. (add_rr, newsz) *)
InBuffer == m.fits

(* Name servers and addresses are never repeated outside of the answer
   section, whichever sections, questions and lookups they come from.
   (add_additional_rr, "no double additionals") *)
NoDoubles ==
    \A j, k \in DOMAIN m.recs :
        (j < k /\ m.recs[k].sect # Answer /\ m.recs[k].t \in {"NS", "A", "AAAA"})
          => <<m.recs[j].n, m.recs[j].t, m.recs[j].d>> # <<m.recs[k].n, m.recs[k].t, m.recs[k].d>>

(* An answer by UDP that is longer than the client takes carries no additional
   records, so what is cut off was asked for; and the client is not sent more
   than it takes. (add_rr, compose_answer, process_query) *)
ExtrasFit ==
    /\ (limit # NoLimit /\ rcode = "OK" /\ m.sz > limit) => m.cnt[Additional] = 0
    /\ req.udp /\ Edns => limit <= UdpBufSize \/ limit <= Opts[1].size
    /\ limit # NoLimit => limit <= udpbufsize

(* A reply fits the memory it is written to and what its client takes. *)
Fits == InBuffer /\ ExtrasFit

(* Only an answer made of local records alone is called authoritative. *)
AaLocal ==
    aa => \A j \in DOMAIN m.recs : m.recs[j].sect = Answer => m.recs[j].local

(* Every record of the answer section belongs to a name asked for or to one
   that a CNAME record before it leads to, though each name of a chain is
   looked up on its own while the cache changes. *)
Connected ==
    \A k \in DOMAIN m.recs : m.recs[k].sect = Answer =>
        \/ \E j \in DOMAIN Ql : Ql[j].n = m.recs[k].n
        \/ \E j \in 1..(k - 1) : m.recs[j].t = "CNAME" /\ m.recs[j].d.names[1] = m.recs[k].n

(* The parts of a reply go together, though each comes from a look of its own at
   a cache that changes between them. *)
Coherent == NoDoubles /\ AaLocal /\ Connected

(* A query is answered or dropped, also if its CNAMEs lead in a circle: every
   step brings it to a later phase, or to the next question, hop or element of
   ar, of which there are only so many; and TLC finds no deadlock. *)
Phases == <<"receive", "questions", "resolve", "authority", "additional", "finish", "send",
            "sent", "dropped">>
Phase(p) == CHOOSE k \in DOMAIN Phases : Phases[k] = p
Progresses ==
    [][\/ Phase(pc') > Phase(pc)
       \/ pc' = pc /\ (q' > q \/ (q' = q /\ hops' < hops) \/ i' > i)]_vars

==============================================================================
