----------------------------- MODULE MCResolver -----------------------------
EXTENDS Resolver

Z == <<"z">>
Y == <<"y">>
AZ == <<"a", "z">>
NZ == <<"n", "z">>
NY == <<"n", "y">>
L == <<"l">>

List(as, neg, inh) == [addrs |-> as, negate |-> neg, inherit |-> inh]
Section(i, at, root, fl, nocache, reject) ==
    [sec |-> i, at |-> at, root |-> root, proxy |-> FALSE, alist |-> << >>,
     policy |-> "include", fl |-> fl, nocache |-> nocache, lean |-> TRUE, reject |-> reject]

MCTable == <<Section(1, <<1>>, 1, {"ROOT", "NOPURGE"}, FALSE, List({9}, FALSE, TRUE)),
             [Section(2, <<2>>, 0, {"NOCACHE"}, TRUE, NoList) EXCEPT
                 !.alist = <<[dom |-> NZ, exact |-> TRUE, incl |-> FALSE],
                             [dom |-> Y, exact |-> FALSE, incl |-> TRUE]>>,
                 !.policy = "fqdn"],
             Section(3, <<1>>, 2, {}, FALSE, NoList)>>

LocalSrc == [dom |-> Anywhere, auth |-> 1, trusted |-> TRUE, sec |-> 0]
LocalEntry(n, s) ==
    [n |-> n, neg |-> FALSE, fl |-> {"LOCAL"}, src |-> LocalSrc, fresh |-> TRUE, brief |-> FALSE,
     sets |-> [t \in DOMAIN s |-> [rrs |-> s[t], fl |-> {"LOCAL"}, fresh |-> TRUE,
                                   brief |-> FALSE, src |-> LocalSrc]]]
MCLocal0 == L :> LocalEntry(L, "A" :> {7})
MCQuestions == {<<AZ, "A">>, <<<<"b", "l">>, "A">>}
MCDelegOnly == <<Y>>

RR(n, t, ds) == [n |-> n, s |-> t :> ds]
Empty(n) == [n |-> n, s |-> << >>]
Reply(aa, ans, auth, add) ==
    [rcode |-> "OK", aa |-> aa, tc |-> FALSE, ra |-> FALSE, failed |-> 0,
     ans |-> ans, auth |-> auth, add |-> add]

Address(n) == IF n = NZ THEN 3 ELSE IF n = NY THEN 4 ELSE 5
Answer(n) == Reply(TRUE, <<RR(n, "A", {Address(n)})>>, << >>, << >>)
Referral(n, dom, ns, add) == Reply(FALSE, <<Empty(n)>>, <<RR(dom, "NS", {ns})>>, add)

RootServer == add_qserv(1, Anywhere, 3, TRUE, MCTable[1], MCTable[1].fl, FALSE, NoList)
MCKnown == {<< >>,
            <<Entry(RR(AZ, "A", {5}), {}, RootServer)>>,
            <<Entry(RR(Z, "NS", {NZ}), {"ROOT", "NOPURGE", "ADD"}, RootServer),
              Entry(RR(NZ, "A", {3}), {"ROOT", "NOPURGE", "ADD"}, RootServer),
              Entry(RR(AZ, "A", {5}), {"NOPURGE"}, RootServer)>>}

MCReplies(a, n, t) ==
    IF t = "NS" THEN {Reply(TRUE, <<RR(n, "NS", {NZ, NY})>>, << >>, << >>)}
    ELSE CASE a = 1 /\ n = AZ -> {Referral(n, Z, NZ, <<RR(NZ, "A", {3})>>),
                                  Referral(n, Z, NY, << >>),
                                  Referral(n, Y, NY, <<RR(NY, "A", {4})>>)}
           [] a = 1 /\ n # AZ -> {Answer(n), [Answer(n) EXCEPT !.ans = <<RR(n, "A", {9})>>],
                                  IF n = NY THEN Referral(n, Y, NZ, << >>)
                                  ELSE Referral(n, Z, NY, << >>)}
           [] a = 2 /\ n = NY -> {[Answer(n) EXCEPT !.auth = <<RR(Y, "SOA", {NY})>>]}
           [] a = 2 /\ n # NY -> {[Answer(n) EXCEPT !.rcode = "NAMEERR", !.ans = <<Empty(n)>>],
                                  [Referral(n, Z, NZ, <<RR(NY, "A", {4})>>) EXCEPT !.ra = TRUE]}
           [] OTHER -> {[Answer(n) EXCEPT !.add = <<RR(NY, "A", {4})>>,
                                          !.auth = <<RR(Root, "NS", {NY})>>],
                        [Answer(n) EXCEPT !.ans = <<RR(n, "A", {9})>>],
                        Referral(n, Y, NY, << >>),
                        [Referral(n, AZ, NY, << >>) EXCEPT !.aa = TRUE],
                        [Answer(n) EXCEPT !.rcode = "NAMEERR", !.ans = <<Empty(n)>>],
                        [Answer(n) EXCEPT !.failed = 2, !.aa = FALSE]}
==============================================================================
