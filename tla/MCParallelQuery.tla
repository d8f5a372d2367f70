--------------------------- MODULE MCParallelQuery ---------------------------
(* Two servers, asked one after the other: the first one of the configuration,
   trusted and tested on timeout, the second one found by an earlier answer. *)
EXTENDS ParallelQuery

MCAuthServ == [i \in Servers |-> IF i = NQ - 1 THEN 2 ELSE 1]

==============================================================================
