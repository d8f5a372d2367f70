------------------------------- MODULE Names -------------------------------
(***************************************************************************)
(* Domain names as the resolver compares them (dns.c, helpers.c).  A name  *)
(* is a sequence of labels, most specific label first; the root is empty.  *)
(* Labels that differ only in case are one value.                          *)
(***************************************************************************)
EXTENDS Integers, Sequences

Root == << >>

(* The last k labels of n. *)
LastSegs(n, k) == SubSeq(n, Len(n) - k + 1, Len(n))

(* The labels ms and md end with in common, and what is left of each. *)
domain_match(ms, md) ==
    LET len  == IF Len(ms) < Len(md) THEN Len(ms) ELSE Len(md)
        k    == CHOOSE i \in 0..len :
                   /\ LastSegs(ms, i) = LastSegs(md, i)
                   /\ \A j \in (i + 1)..len : LastSegs(ms, j) # LastSegs(md, j)
    IN  [k |-> k, os |-> Len(ms) - k, od |-> Len(md) - k]

(* n lies in the domain d: all of d matches. *)
Within(n, d) == domain_match(d, n).os = 0

==============================================================================
