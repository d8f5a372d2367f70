--------------------------- MODULE MCServerStatus ---------------------------
(* Sections as the parser builds them: the preset status, and a test due at
   once unless the interval is negative. *)
EXTENDS ServerStatus

Section(uptest, interval, root, ok, preset, as) ==
    [uptest |-> uptest, interval |-> interval, root |-> root, scheme |-> ~ok, ok |-> ok,
     preset |-> preset,
     at |-> [j \in DOMAIN as |-> [a |-> as[j], up |-> preset, due |-> interval >= 0]]]

MCTable0 == << Section("ping", 0, 1, TRUE, TRUE, <<"a", "b">>) >>
MCTables == { << Section("if", -2, 1, TRUE, TRUE, <<"a", "d">>),
                 Section("pingall", 1, 2, TRUE, FALSE, <<"b">>) >>,
              << Section("if", -1, 2, TRUE, TRUE, <<"b">>) >>,
              << Section("if", -1, 1, TRUE, TRUE, <<"b">>),
                 Section("none", 1, 2, FALSE, TRUE, <<"a">>) >> }
MCAddresses == { <<"c">>, << >> }
MCRoot == <<"r">>

==============================================================================
