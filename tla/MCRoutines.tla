----------------------------- MODULE MCRoutines -----------------------------
(***************************************************************************)
(* Three routines of the query code, each run by itself: one of them makes *)
(* the steps of a behaviour while the others stay at their start.          *)
(***************************************************************************)
EXTENDS Decompress, ReplyDecode, BindPort

VARIABLE turn

MCBytes == {0, 1, 2, 64, 192}
MCMsgs == UNION {[1..n -> MCBytes] : n \in 0..5}
MCNameSizes == {<<1, 1>>, <<2, 256>>}
MCPortRanges == {<<-1, 0>>, <<5, 4>>, <<5, 5>>, <<5, 7>>}

Still(v, w) == UNCHANGED v /\ UNCHANGED w
AtStart == msg = << >> /\ start = 0 /\ sz = 0
RAtStart == tc = TRUE /\ claims = <<0, 0, 0>> /\ lcnt = 850
            /\ centas = <<<<[n |-> "o1", rrs |-> {}]>>, << >>, << >>>>
PAtStart == range = <<-1, 0>> /\ taken = {}

RoutinesInit ==
    /\ \/ turn = "name" /\ RAtStart /\ PAtStart
       \/ turn = "records" /\ AtStart /\ PAtStart
       \/ turn = "port" /\ AtStart /\ RAtStart
    /\ Init /\ RInit /\ PInit

RoutinesNext ==
    /\ \/ turn = "name" /\ Next /\ Still(rvars, pvars)
       \/ turn = "records" /\ RNext /\ Still(vars, pvars)
       \/ turn = "port" /\ PNext /\ Still(vars, rvars)
    /\ UNCHANGED turn

RoutinesSpec ==
    RoutinesInit /\ [][RoutinesNext]_<<vars, rvars, pvars, turn>>
==============================================================================
