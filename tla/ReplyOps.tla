------------------------------ MODULE ReplyOps ------------------------------
(***************************************************************************)
(* What p_exec_query makes of the reply of a server (dns_query.c): which   *)
(* answer it hands up, which name servers it lists, which further records  *)
(* it puts into the cache.  The sections of a reply are sequences of       *)
(*   [n |-> owner, s |-> function from types to sets of data]              *)
(* of which the first one of the answer section belongs to the name asked  *)
(* for and may be empty.  The data of A are addresses, those of NS and SOA *)
(* names (of an SOA only its first name matters).  A server is a record    *)
(*   a, dom     its address; the domain it is listed for, or Anywhere      *)
(*   auth       0 proxy, 1 configured, 2 found in a reply, 3 root server   *)
(*   trusted, lean, nocache, fl       as in query_stat_t                   *)
(*   reject     its reject list, or NoList                                 *)
(*   sec        the section of the configuration it stems from (history)   *)
(* TTLs, c_ns and c_soa are left out.                                      *)
(***************************************************************************)
EXTENDS Names, FiniteSets, SequencesExt

CONSTANTS
    DelegOnly,      \* global.deleg_only_zones, a sequence
    NegDomainPol,   \* global.neg_domain_pol: ON, OFF, AUTH
    NegRrsPol       \* global.neg_rrs_pol: ON, OFF, AUTH, DEFAULT

Anywhere == <<"anywhere">>
NoList == [none |-> TRUE]

Owns(e, T) == \E t \in T : t \in DOMAIN e.s
Addresses(sec) == UNION {sec[i].s["A"] : i \in {j \in DOMAIN sec : Owns(sec[j], {"A"})}}

(* Who told us: kept with every record for the properties. *)
Source(st) == [dom |-> st.dom, auth |-> st.auth, trusted |-> st.trusted, sec |-> st.sec]

(* An entry of the kind rrs2cent builds, every set with the same flags. *)
Entry(e, fl, st) ==
    [n |-> e.n, neg |-> FALSE, fl |-> {}, src |-> Source(st), fresh |-> TRUE,
     brief |-> FALSE,
     sets |-> [t \in DOMAIN e.s |-> [rrs |-> e.s[t], fl |-> fl, fresh |-> TRUE,
                                     brief |-> FALSE, src |-> Source(st)]]]

Rejects(st, r) ==
    /\ st.reject # NoList
    /\ st.reject.addrs \intersect
           (Addresses(r.ans) \union Addresses(r.auth) \union Addresses(r.add)) # {}

(* The first delegation-only zone that n is in, 0 if there is none.  In such
   a zone only NS or SOA records of a name outside it, or properly below it,
   are a delegation. *)
ZoneOf(n) ==
    SelectInSeq(DelegOnly, LAMBDA z : domain_match(n, z).k > 0 /\ Within(n, z))
Apex(n) == ZoneOf(n) # 0 /\ DelegOnly[ZoneOf(n)] = n

Authorities(r) == {e \in ToSet(r.ans) \union ToSet(r.auth) : Owns(e, {"NS", "SOA"})}
MissingDelegation(name, st, r) ==
    /\ st.auth < 3
    /\ ZoneOf(name) # 0 /\ ~Apex(name)
    /\ \A e \in Authorities(r) : Apex(e.n)

(* Before the records are used: go on, name error, or discard the reply. *)
Verdict(name, st, r) ==
    CASE r.rcode = "NAMEERR" -> "nameerr"
      [] r.rcode # "NAMEERR" /\ Rejects(st, r) ->
            IF st.reject.negate /\ r.failed <= 1 THEN "nameerr" ELSE "discard"
      [] OTHER ->
            IF ~MissingDelegation(name, st, r) THEN "use"
            ELSE IF Authorities(r) # {} /\ r.failed <= 1 THEN "nameerr"
            ELSE IF st.auth < 2 THEN "discard" ELSE "use"

(* May a record with owner n be taken from st?  Root records come only from
   configured servers; a server that is not trusted speaks for its domain. *)

Accepts(st, n) ==
    /\ n # Root \/ st.auth # 2
    /\ st.trusted \/ st.dom = Anywhere \/ Within(n, st.dom)

(* The name servers of the answer and authority sections, in groups by owner
   and type; no server is listed twice. *)
NsGroup(acc, e, t, st) ==
    LET seen == UNION {ToSet(acc[i].ns) : i \in DOMAIN acc}
        new  == IF t \in DOMAIN e.s THEN e.s[t] \ seen ELSE {}
    IN  IF Accepts(st, e.n) /\ new # {}
        THEN Append(acc, [dom |-> e.n, ns |-> SetToSeq(new)]) ELSE acc
NsList(st, r) ==
    FoldLeft(LAMBDA acc, e : NsGroup(NsGroup(acc, e, "NS", st), e, "SOA", st),
             << >>, r.ans \o r.auth)

(* The further records for the cache; a negative answer drops the rest of
   its answer section. *)
Additional(st, r, negative, fl) ==
    LET first == IF negative THEN << >> ELSE Tail(r.ans)
        all   == [i \in DOMAIN first |-> Entry(first[i], fl, st)] \o
                 [i \in DOMAIN (r.auth \o r.add) |->
                      Entry((r.auth \o r.add)[i], fl \union {"ADD"}, st)]
    IN  IF r.failed = 0 /\ ~Rejects(st, r)
        THEN SelectSeq(all, LAMBDA e : Accepts(st, e.n)) ELSE << >>

NegativePolicy(pol, aa, ra) ==
    pol = "ON" \/ (pol = "AUTH" /\ aa) \/ (pol = "DEFAULT" /\ (aa \/ ra))

Negated(ent, st) ==
    [ent EXCEPT !.neg = TRUE, !.sets = << >>,
                !.fl = IF st.nocache THEN @ \union {"NOCACHE"} ELSE @]

(* The flag aa as it stays with the server; failed is 1 when the OPT record
   contradicts the header, which is found out only later. *)
Claims(r) == r.aa /\ r.failed <= 1

(* p_exec_query from the decoded reply on. *)
Discarded == [rv |-> "SERVFAIL", ent |-> << >>, ns |-> << >>, add |-> << >>]

p_exec_query(name, t, st, r) ==
    LET aa   == Claims(r)
        auth == aa /\ ~r.tc
        fl   == st.fl \union (IF auth THEN {"AUTH"} ELSE {})
        ent0 == [Entry(r.ans[1], fl, st) EXCEPT
                    !.fl = IF auth /\ (~st.lean \/ t = "ALL") THEN {"AUTH"} ELSE {}]
        v    == Verdict(name, st, r)
        none == v = "nameerr" \/ r.ans[1].s = << >>
        lack == /\ t # "ALL" /\ t \notin DOMAIN r.ans[1].s /\ ~r.tc /\ r.failed <= 1
                /\ NegativePolicy(NegRrsPol, auth, r.ra)
        ent  == IF v = "nameerr" THEN Negated(ent0, st)
                ELSE IF lack
                THEN [ent0 EXCEPT !.sets = [u \in DOMAIN @ \union {t} |->
                        IF u = t THEN [rrs |-> {}, fl |-> fl \union {"NEG"},
                                       fresh |-> TRUE, brief |-> FALSE,
                                       src |-> Source(st)]
                        ELSE @[u]]]
                ELSE ent0
        ns   == IF v = "use" /\ r.failed <= 1 THEN NsList(st, r) ELSE << >>
        hide == v = "nameerr" /\ ~(NegDomainPol = "ON" \/ (NegDomainPol = "AUTH" /\ aa))
    IN  IF v = "discard" THEN Discarded
        ELSE IF ~hide /\ r.failed > 0 /\ none /\ ns = << >> THEN Discarded
        ELSE [rv |-> IF hide THEN "NAMEERR" ELSE "OK",
              ent |-> IF hide THEN << >> ELSE ent, ns |-> ns,
              add |-> Additional(st, r, none, fl)]

==============================================================================
