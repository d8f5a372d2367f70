------------------------------ MODULE MCCompose ------------------------------
EXTENDS Compose

Z == <<"z">>
W == <<"w", "z">>
V == <<"v", "z">>
N == <<"n", "z">>
X == <<"x", "y">>

Addr(id) == [id |-> id, names |-> << >>, rest |-> 4]
To(ns) == [id |-> 0, names |-> ns, rest |-> 0]
Ent(n, local, sets) == [n |-> n, local |-> local, sets |-> sets, c_ns |-> Len(n) - 1, c_soa |-> Undef]

MCEntries ==
    W :> {Ent(W, TRUE, "A" :> <<Addr(1), Addr(2)>>),
          Ent(W, FALSE, ("CNAME" :> <<To(<<V>>)>>) @@ ("MX" :> <<To(<<<<"h", "w", "z">>>>), To(<<N>>)>>))} @@
    V :> {Ent(V, TRUE, ("A" :> <<Addr(3)>>) @@ ("MB" :> <<To(<<N>>)>>)), Ent(V, FALSE, "CNAME" :> <<To(<<W>>)>>)} @@
    Z :> {Ent(Z, FALSE, ("NS" :> <<To(<<N>>), To(<<X>>)>>) @@ ("SOA" :> <<To(<<N, <<"h", "z">>>>)>>))} @@
    N :> {Ent(N, FALSE, ("A" :> <<Addr(4), Addr(5)>>) @@ ("AAAA" :> <<[Addr(6) EXCEPT !.rest = 16]>>))} @@
    X :> {Ent(X, FALSE, "A" :> <<Addr(7)>>)}

MCTypeOrder == <<"A", "NS", "CNAME", "SOA", "MB", "MX", "AAAA">>

Q(n, t) == [n |-> n, t |-> t, in |-> TRUE]
Opt(v, size) == [version |-> v, rcode |-> "OK", size |-> size]
Request(qs, udp, add) ==
    [len |-> 12, qr |-> FALSE, opcode |-> "QUERY", z |-> FALSE, rcode |-> "OK", tc |-> FALSE,
     rd |-> TRUE, qd |-> Len(qs), an |-> 0, ns |-> 0, ar |-> Len(add), qs |-> qs, qbad |-> "TRUNC",
     add |-> add, abad |-> "TRUNC", udp |-> udp]

Asked == {<<Q(W, "A")>>, <<Q(W, "MX")>>, <<Q(W, "ALL")>>, <<Q(W, "MAILB")>>, <<Q(V, "MAILA")>>,
          <<Q(Z, "NS"), Q(N, "A")>>, <<Q(N, "AAAA"), Q(W, "MX")>>, <<Q(V, "MX"), Q(Z, "ALL")>>,
          <<Q(X, "A"), Q(X, "MX")>>}
Plain == Request(<<Q(W, "A")>>, TRUE, << >>)
Wanted == {Request(qs, udp, add) : qs \in Asked, udp \in BOOLEAN,
                                   add \in {<< >>, <<Opt(0, 100)>>, <<Other, Opt(0, 200)>>}}
Unwanted ==
    {[Plain EXCEPT !.len = 1], [Plain EXCEPT !.len = 5], [Plain EXCEPT !.qr = TRUE],
     [Plain EXCEPT !.opcode = "STATUS"], [Plain EXCEPT !.z = TRUE], [Plain EXCEPT !.rcode = "SERVFAIL"],
     [Plain EXCEPT !.an = 1], [Plain EXCEPT !.qd = 2], [Plain EXCEPT !.qd = 2, !.tc = TRUE],
     [Plain EXCEPT !.qd = 2, !.qbad = "FORMAT"], [Plain EXCEPT !.qd = 2, !.tc = TRUE, !.ar = 1],
     [Plain EXCEPT !.ar = 1], [Plain EXCEPT !.ar = 1, !.tc = TRUE], [Plain EXCEPT !.rd = FALSE],
     Request(<<Q(W, "A")>>, TRUE, <<Opt(1, 100)>>),
     Request(<<Q(W, "A")>>, TRUE, <<[Opt(0, 100) EXCEPT !.rcode = "other"]>>),
     Request(<< >>, TRUE, << >>), Request(<<Q(W, "AXFR")>>, FALSE, << >>),
     Request(<<[Q(W, "A") EXCEPT !.in = FALSE]>>, FALSE, << >>)}
MCRequests == Wanted \union Unwanted
==============================================================================
