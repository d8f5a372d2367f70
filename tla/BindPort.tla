------------------------------ MODULE BindPort ------------------------------
(***************************************************************************)
(* bind_socket (dns_query.c): a socket for a query gets a port of the range*)
(* query_port_start .. query_port_end.  Ports are drawn at random, at most *)
(* 2 * range times; then the range is scanned from the last port drawn.    *)
(* Other sockets take and leave ports at any time.                         *)
(*   prt, pstart, try2    as in the code                                   *)
(*   taken   the ports in use            tried   ports found in use        *)
(***************************************************************************)
EXTENDS Integers, FiniteSets

CONSTANTS PortRanges, MaxChanges   \* bound on changes of taken

PortNumbers == -1..65535
ASSUME RangesAssumption == PortRanges \subseteq PortNumbers \X PortNumbers

VARIABLES range, taken, prt, pstart, try2, tried, outcome, changes

pvars == <<range, taken, prt, pstart, try2, tried, outcome, changes>>
Ports == range[1]..range[2]
RangeSize == range[2] - range[1] + 1
Sensible == RangeSize > 0 /\ RangeSize <= 65536

(* No range is given: the kernel chooses; or the range makes no sense. *)
Unranged ==
    /\ outcome = "none" /\ prt = -1
    /\ \/ range[1] < 0 /\ outcome' = "bound"
       \/ range[1] >= 0 /\ ~Sensible /\ outcome' = "failed"
    /\ UNCHANGED <<range, taken, prt, pstart, try2, tried, changes>>

(* A random port.  (The generator may also fail to give one.) *)
Draw ==
    /\ outcome = "none" /\ prt = -1 /\ range[1] >= 0 /\ Sensible
    /\ \/ \E p \in Ports : prt' = p /\ pstart' = p /\ UNCHANGED outcome
       \/ outcome' = "failed" /\ UNCHANGED <<prt, pstart>>
    /\ UNCHANGED <<range, taken, try2, tried, changes>>

After(p) == IF p + 1 > range[2] THEN range[1] ELSE p + 1

(* Mutant: no scan follows the random draws. *)
mut_no_scan ==
    IF try2 + 1 >= RangeSize * 2 THEN outcome' = "full" /\ UNCHANGED <<prt, pstart>>
    ELSE prt' = -1 /\ UNCHANGED <<pstart, outcome>>

(* The port is in use: scan on, if enough were drawn, or draw again. *)
Onward ==
    IF try2 + 1 >= RangeSize * 2
    THEN /\ prt' = After(prt) /\ UNCHANGED pstart
         /\ outcome' = IF After(prt) = pstart THEN "full" ELSE outcome
    ELSE prt' = -1 /\ UNCHANGED <<pstart, outcome>>

Bind ==
    /\ outcome = "none" /\ prt # -1
    /\ \/ prt \notin taken /\ outcome' = "bound" /\ UNCHANGED <<prt, pstart, try2, tried>>
       \/ outcome' = "failed" /\ UNCHANGED <<prt, pstart, try2, tried>>
       \/ /\ prt \in taken /\ tried' = tried \union {prt}
          /\ try2' = try2 + 1 /\ Onward
    /\ UNCHANGED <<range, taken, changes>>

OthersBind(p) ==
    /\ outcome = "none" /\ changes < MaxChanges
    /\ taken' = IF p \in taken THEN taken \ {p} ELSE taken \union {p}
    /\ changes' = changes + 1
    /\ UNCHANGED <<range, prt, pstart, try2, tried, outcome>>

PInit ==
    /\ range \in PortRanges /\ taken \in SUBSET Ports
    /\ prt = -1 /\ pstart = -1 /\ try2 = 0 /\ tried = {} /\ outcome = "none" /\ changes = 0
PNext == Unranged \/ Draw \/ Bind \/ \E p \in Ports : OthersBind(p)
PSpec == PInit /\ [][PNext]_pvars

------------------------------------------------------------------------------
(* "Out of ports" is said only when every port of the range was found in use,
   and a query is not bound outside its range. (the scan in bind_socket) *)
FullMeansAllTried ==
    /\ outcome = "full" => tried = Ports
    /\ outcome = "bound" /\ range[1] >= 0 => prt \in Ports

(* A call makes no more than three attempts per port. *)
AttemptsBounded == try2 <= 3 * RangeSize \/ RangeSize < 0

(* The search for a port is exhaustive and ends. *)
PortSearch == FullMeansAllTried /\ AttemptsBounded
==============================================================================
