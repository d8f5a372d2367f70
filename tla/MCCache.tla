------------------------------ MODULE MCCache -------------------------------
(* A zone z, a name a.z in it and its wildcard *.z; two types that exclude
   each other, name server records and one type of the extended array. *)
EXTENDS Cache

z == <<"z">>
az == <<"a", "z">>
sz == <<"*", "z">>
ptr == <<"1", "arpa">>

MCNames == {z, az, sz, ptr}
MCAsked == {z, az}
MCTypeOrder == <<"A", "NS", "CNAME", "SOA", "PTR", "SRV">>
MCExcludes == {<<"A", "CNAME">>, <<"CNAME", "A">>, <<"A", "PTR">>, <<"PTR", "A">>,
               <<"CNAME", "PTR">>, <<"PTR", "CNAME">>}
MCRevName == ("x1" :> ptr)
MCBucket == [n \in MCNames |-> IF n = az THEN 1 ELSE 2]
MCSelections == {{az, sz}}

One(n, fl, t, ttl, sfl, data) == add_cent_rr(init_cent(n, 0, 0, fl), t, ttl, 0, sfl, data)

MCAnswers ==
    { One(az, {}, "A", 3, {}, "x1"),
      add_cent_rr([One(az, {}, "CNAME", 2, {"NOCACHE"}, "z") EXCEPT !.ns = 1],
                  "SRV", 1, 0, {"ADD"}, "z"),
      init_cent(az, 1, 0, {"NEG"}),
      add_cent_rr(add_cent_rrset_by_index(init_cent(z, 0, 0, {}), "A", 1, 0, {"NEG"}),
                  "NS", 2, 0, {"ADD", "NOPURGE"}, "z") }

MCLocalEnts ==
    { One(z, {"LOCAL"}, "A", 1, {"LOCAL"}, "x2"),
      One(sz, {"LOCAL"}, "A", 1, {"LOCAL"}, "x2") }

MCNegEnts == { init_cent(az, 1, 0, {"NEG", "LOCAL"}) }

MCConfEnts == << One(z, {}, "A", 1, {"LOCAL"}, "x1") >>

==============================================================================
