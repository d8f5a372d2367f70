------------------------------- MODULE RWLock -------------------------------
(***************************************************************************)
(* What a reader/writer lock promises its users: any number of readers, or *)
(* one writer and nobody else.                                             *)
(***************************************************************************)
CONSTANT Procs

VARIABLES readers, writers

vars == <<readers, writers>>

Init == readers = {} /\ writers = {}

AcquireR(p) == /\ writers = {}
               /\ p \notin readers
               /\ readers' = readers \cup {p}
               /\ UNCHANGED writers
ReleaseR(p) == /\ p \in readers
               /\ readers' = readers \ {p}
               /\ UNCHANGED writers
AcquireW(p) == /\ readers = {}
               /\ writers = {}
               /\ writers' = {p}
               /\ UNCHANGED readers
ReleaseW(p) == /\ p \in writers
               /\ writers' = writers \ {p}
               /\ UNCHANGED readers

Next == \E p \in Procs : AcquireR(p) \/ ReleaseR(p) \/ AcquireW(p) \/ ReleaseW(p)

Spec == Init /\ [][Next]_vars
=============================================================================
