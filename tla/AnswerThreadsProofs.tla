------------------------ MODULE AnswerThreadsProofs ------------------------
(***************************************************************************)
(* Proofs about AnswerThreads, for any set of queries, any limits and both *)
(* settings of strict_suid.  The counters are compared with the sets of    *)
(* threads they count, so every step that moves a query is matched by one  *)
(* element entering or leaving a finite set.  The last part is about what  *)
(* an answer thread does with its query, Compose: it always moves forward. *)
(***************************************************************************)
EXTENDS AnswerThreads, FiniteSetTheorems, TLAPS

(* The types that do not follow from the counts, the Booleans apart: the   *)
(* provers treat those separately.                                         *)
Shape ==
    /\ procs \in Int /\ qprocs \in Int /\ spawned \in Int /\ dropped \in Int
    /\ refused \in Nat
    /\ proc_limit \in ProcLimits /\ new_proc \in ProcLimits
    /\ procq_limit \in ProcqLimits /\ new_procq \in ProcqLimits
    /\ qpc \in [Queries -> QueryStates]
    /\ spc \in [Servers -> ServerStates]
    /\ job \in [Servers -> Queries \cup {NoQuery}]
    /\ mainpc \in MainStates

Flags ==
    /\ socket \in [Servers -> BOOLEAN]
    /\ sigterm \in BOOLEAN /\ asked \in BOOLEAN

Finite ==
    /\ IsFiniteSet(Admitted) /\ IsFiniteSet(Active)
    /\ IsFiniteSet(Spawned) /\ IsFiniteSet(Dropped)

Inv == Shape /\ Flags /\ JobsOK /\ SocketsOK /\ Finite /\ CountsExact /\ LimitsHold

USE LimitsAssumption, NoQueryAssumption, StrictAssumption
USE DEF Servers, QueryStates, ServerStates, MainStates, Goto, Becomes, Other,
        AfterStart, countVars, limitVars, serverVars, exitVars

(* The start of pdnsd satisfies the invariant. *)
LEMMA InitInv == Init => Inv
<1> SUFFICES ASSUME Init PROVE Inv
  OBVIOUS
<1>1. Shape
  BY DEF Init, Shape
<1>2. Flags
  BY Zenon DEF Init, Flags
<1>3. JobsOK
  BY DEF Init, JobsOK
<1>4. SocketsOK
  BY <1>2 DEF Init, SocketsOK, Flags
<1>5. Admitted = {} /\ Active = {} /\ Spawned = {} /\ Dropped = {}
  BY DEF Init, Admitted, Active, Spawned, Dropped, In
<1>6. Finite /\ CountsExact
  BY <1>5, FS_EmptySet DEF Init, Finite, CountsExact
<1>7. LimitsHold
  BY DEF Init, LimitsHold
<1>8. QED
  BY <1>1, <1>2, <1>3, <1>4, <1>6, <1>7 DEF Inv

(* Every step keeps the types. *)
LEMMA ShapeStep == Shape /\ JobsOK /\ [Next]_vars => Shape'
<1> SUFFICES ASSUME Shape, JobsOK, [Next]_vars PROVE Shape'
  OBVIOUS
<1> USE DEF Shape
<1>1. ASSUME NEW q \in Queries, AnswerBorn(q) PROVE Shape'
  BY <1>1 DEF AnswerBorn
<1>2. ASSUME NEW q \in Queries, AnswerRefused(q) PROVE Shape'
  BY <1>2 DEF AnswerRefused, DecreaseProcs, PdnsdExit
<1>3. ASSUME NEW q \in Queries, AnswerStarts(q) PROVE Shape'
  BY <1>3 DEF AnswerStarts
<1>4. ASSUME NEW q \in Queries, AnswerEnds(q) PROVE Shape'
  BY <1>4 DEF AnswerEnds, DecreaseProcs
<1>5. ASSUME NEW s \in Servers, ServerStarts(s) PROVE Shape'
  BY <1>5 DEF ServerStarts
<1>6. ASSUME NEW s \in Servers, ServerRefused(s) PROVE Shape'
  BY <1>6 DEF ServerRefused, PdnsdExit
<1>7. ASSUME NEW s \in Servers, ServerMallocFails(s) PROVE Shape'
  BY <1>7 DEF ServerMallocFails
<1>8. ASSUME NEW s \in Servers, CreateAnswer(s) PROVE Shape'
  BY <1>8 DEF CreateAnswer, JobsOK
<1>9. ASSUME NEW s \in Servers, CreateFails(s) PROVE Shape'
  BY <1>9 DEF CreateFails
<1>10. ASSUME NEW s \in Servers, UndoAdmission(s) PROVE Shape'
  BY <1>10 DEF UndoAdmission, JobsOK
<1>11. ASSUME NEW s \in Servers, ServerCloses(s) PROVE Shape'
  BY <1>11 DEF ServerCloses
<1>12. ASSUME NEW s \in Servers, ServerEnds(s) PROVE Shape'
  BY <1>12 DEF ServerEnds, PdnsdExit
<1>13. ASSUME NEW s \in Servers, MainSkips(s) PROVE Shape'
  BY <1>13 DEF MainSkips
<1>14. ASSUME NEW s \in Servers, MainCreates(s) PROVE Shape'
  BY <1>14 DEF MainCreates
<1>15. ASSUME NEW s \in Servers, MainCreateFails(s) PROVE Shape'
  BY <1>15 DEF MainCreateFails, PdnsdExit
<1>16. ASSUME NEW s \in Servers, NEW q \in Queries, Admit(s, q) PROVE Shape'
  BY <1>16 DEF Admit
<1>17. ASSUME NEW s \in Servers, NEW q \in Queries, Drop(s, q) PROVE Shape'
  BY <1>17 DEF Drop
<1>18. ASSUME NEW p \in ProcLimits, NEW q \in ProcqLimits, ReloadBegins(p, q) PROVE Shape'
  BY <1>18 DEF ReloadBegins
<1>19. ASSUME ListenFails PROVE Shape'
  BY <1>19 DEF ListenFails
<1>20. ASSUME MainSigwait PROVE Shape'
  BY <1>20 DEF MainSigwait
<1>21. ASSUME MainExits PROVE Shape'
  BY <1>21 DEF MainExits
<1>22. ASSUME LastThreadEnds PROVE Shape'
  BY <1>22 DEF LastThreadEnds
<1>23. ASSUME ReloadProc PROVE Shape'
  BY <1>23 DEF ReloadProc
<1>24. ASSUME ReloadProcq PROVE Shape'
  BY <1>24 DEF ReloadProcq
<1>25. ASSUME Terminate PROVE Shape'
  BY <1>25 DEF Terminate
<1>26. CASE UNCHANGED vars
  BY <1>26 DEF vars
<1>27. QED
  BY <1>1, <1>2, <1>3, <1>4, <1>5, <1>6, <1>7, <1>8, <1>9, <1>10, <1>11, <1>12, <1>13, <1>14, <1>15, <1>16, <1>17, <1>18, <1>19, <1>20, <1>21, <1>22, <1>23, <1>24, <1>25, <1>26 DEF Next, QueryStep, ServerStep, MainStep, Environment

(* Every step keeps the types of the Boolean variables. *)
LEMMA FlagsStep == Flags /\ [Next]_vars => Flags'
<1> SUFFICES ASSUME Flags, [Next]_vars PROVE Flags'
  OBVIOUS
<1> USE DEF Flags
<1>1. ASSUME NEW q \in Queries, AnswerBorn(q) PROVE Flags'
  BY <1>1, Zenon DEF AnswerBorn
<1>2. ASSUME NEW q \in Queries, AnswerRefused(q) PROVE Flags'
  BY <1>2, Zenon DEF AnswerRefused, DecreaseProcs, PdnsdExit
<1>3. ASSUME NEW q \in Queries, AnswerStarts(q) PROVE Flags'
  BY <1>3, Zenon DEF AnswerStarts
<1>4. ASSUME NEW q \in Queries, AnswerEnds(q) PROVE Flags'
  BY <1>4, Zenon DEF AnswerEnds, DecreaseProcs
<1>5. ASSUME NEW s \in Servers, ServerStarts(s) PROVE Flags'
  BY <1>5, Zenon DEF ServerStarts
<1>6. ASSUME NEW s \in Servers, ServerRefused(s) PROVE Flags'
  BY <1>6, Zenon DEF ServerRefused, PdnsdExit
<1>7. ASSUME NEW s \in Servers, ServerMallocFails(s) PROVE Flags'
  BY <1>7, Zenon DEF ServerMallocFails
<1>8. ASSUME NEW s \in Servers, CreateAnswer(s) PROVE Flags'
  BY <1>8, Zenon DEF CreateAnswer
<1>9. ASSUME NEW s \in Servers, CreateFails(s) PROVE Flags'
  BY <1>9, Zenon DEF CreateFails
<1>10. ASSUME NEW s \in Servers, UndoAdmission(s) PROVE Flags'
  BY <1>10, Zenon DEF UndoAdmission
<1>11. ASSUME NEW s \in Servers, ServerCloses(s) PROVE Flags'
  BY <1>11, Zenon DEF ServerCloses
<1>12. ASSUME NEW s \in Servers, ServerEnds(s) PROVE Flags'
  BY <1>12, Zenon DEF ServerEnds, PdnsdExit
<1>13. ASSUME NEW s \in Servers, MainSkips(s) PROVE Flags'
  BY <1>13, Zenon DEF MainSkips
<1>14. ASSUME NEW s \in Servers, MainCreates(s) PROVE Flags'
  BY <1>14, Zenon DEF MainCreates
<1>15. ASSUME NEW s \in Servers, MainCreateFails(s) PROVE Flags'
  BY <1>15, Zenon DEF MainCreateFails, PdnsdExit
<1>16. ASSUME NEW s \in Servers, NEW q \in Queries, Admit(s, q) PROVE Flags'
  BY <1>16, Zenon DEF Admit
<1>17. ASSUME NEW s \in Servers, NEW q \in Queries, Drop(s, q) PROVE Flags'
  BY <1>17, Zenon DEF Drop
<1>18. ASSUME NEW p \in ProcLimits, NEW q \in ProcqLimits, ReloadBegins(p, q) PROVE Flags'
  BY <1>18, Zenon DEF ReloadBegins
<1>19. ASSUME ListenFails PROVE Flags'
  BY <1>19, Zenon DEF ListenFails
<1>20. ASSUME MainSigwait PROVE Flags'
  BY <1>20, Zenon DEF MainSigwait
<1>21. ASSUME MainExits PROVE Flags'
  BY <1>21, Zenon DEF MainExits
<1>22. ASSUME LastThreadEnds PROVE Flags'
  BY <1>22, Zenon DEF LastThreadEnds
<1>23. ASSUME ReloadProc PROVE Flags'
  BY <1>23, Zenon DEF ReloadProc
<1>24. ASSUME ReloadProcq PROVE Flags'
  BY <1>24, Zenon DEF ReloadProcq
<1>25. ASSUME Terminate PROVE Flags'
  BY <1>25, Zenon DEF Terminate
<1>26. CASE UNCHANGED vars
  BY <1>26, Zenon DEF vars
<1>27. QED
  BY <1>1, <1>2, <1>3, <1>4, <1>5, <1>6, <1>7, <1>8, <1>9, <1>10, <1>11, <1>12, <1>13, <1>14, <1>15, <1>16, <1>17, <1>18, <1>19, <1>20, <1>21, <1>22, <1>23, <1>24, <1>25, <1>26 DEF Next, QueryStep, ServerStep, MainStep, Environment

(* An admission keeps its one owner. *)
LEMMA JobsStep == Shape /\ SocketsOK /\ JobsOK /\ [Next]_vars => JobsOK'
<1> SUFFICES ASSUME Shape, SocketsOK, JobsOK, [Next]_vars PROVE JobsOK'
  OBVIOUS
<1> USE DEF Shape, JobsOK
<1>1. ASSUME NEW q \in Queries, AnswerBorn(q) PROVE JobsOK'
  BY <1>1 DEF AnswerBorn
<1>2. ASSUME NEW q \in Queries, AnswerRefused(q) PROVE JobsOK'
  BY <1>2 DEF AnswerRefused, DecreaseProcs, PdnsdExit
<1>3. ASSUME NEW q \in Queries, AnswerStarts(q) PROVE JobsOK'
  BY <1>3 DEF AnswerStarts
<1>4. ASSUME NEW q \in Queries, AnswerEnds(q) PROVE JobsOK'
  BY <1>4 DEF AnswerEnds, DecreaseProcs
<1>5. ASSUME NEW s \in Servers, ServerStarts(s) PROVE JobsOK'
  BY <1>5 DEF ServerStarts
<1>6. ASSUME NEW s \in Servers, ServerRefused(s) PROVE JobsOK'
  BY <1>6 DEF ServerRefused, PdnsdExit
<1>7. ASSUME NEW s \in Servers, ServerMallocFails(s) PROVE JobsOK'
  BY <1>7 DEF ServerMallocFails
<1>8. ASSUME NEW s \in Servers, CreateAnswer(s) PROVE JobsOK'
  BY <1>8 DEF CreateAnswer
<1>9. ASSUME NEW s \in Servers, CreateFails(s) PROVE JobsOK'
  BY <1>9 DEF CreateFails
<1>10. ASSUME NEW s \in Servers, UndoAdmission(s) PROVE JobsOK'
  BY <1>10 DEF UndoAdmission
<1>11. ASSUME NEW s \in Servers, ServerCloses(s) PROVE JobsOK'
  BY <1>11 DEF ServerCloses
<1>12. ASSUME NEW s \in Servers, ServerEnds(s) PROVE JobsOK'
  BY <1>12 DEF ServerEnds, PdnsdExit
<1>13. ASSUME NEW s \in Servers, MainSkips(s) PROVE JobsOK'
  BY <1>13 DEF MainSkips
<1>14. ASSUME NEW s \in Servers, MainCreates(s) PROVE JobsOK'
  BY <1>14 DEF MainCreates, SocketsOK
<1>15. ASSUME NEW s \in Servers, MainCreateFails(s) PROVE JobsOK'
  BY <1>15 DEF MainCreateFails, PdnsdExit
<1>16. ASSUME NEW s \in Servers, NEW q \in Queries, Admit(s, q) PROVE JobsOK'
  BY <1>16 DEF Admit
<1>17. ASSUME NEW s \in Servers, NEW q \in Queries, Drop(s, q) PROVE JobsOK'
  BY <1>17 DEF Drop
<1>18. ASSUME NEW p \in ProcLimits, NEW q \in ProcqLimits, ReloadBegins(p, q) PROVE JobsOK'
  BY <1>18 DEF ReloadBegins
<1>19. ASSUME ListenFails PROVE JobsOK'
  BY <1>19 DEF ListenFails
<1>20. ASSUME MainSigwait PROVE JobsOK'
  BY <1>20 DEF MainSigwait
<1>21. ASSUME MainExits PROVE JobsOK'
  BY <1>21 DEF MainExits
<1>22. ASSUME LastThreadEnds PROVE JobsOK'
  BY <1>22 DEF LastThreadEnds
<1>23. ASSUME ReloadProc PROVE JobsOK'
  BY <1>23 DEF ReloadProc
<1>24. ASSUME ReloadProcq PROVE JobsOK'
  BY <1>24 DEF ReloadProcq
<1>25. ASSUME Terminate PROVE JobsOK'
  BY <1>25 DEF Terminate
<1>26. CASE UNCHANGED vars
  BY <1>26 DEF vars
<1>27. QED
  BY <1>1, <1>2, <1>3, <1>4, <1>5, <1>6, <1>7, <1>8, <1>9, <1>10, <1>11, <1>12, <1>13, <1>14, <1>15, <1>16, <1>17, <1>18, <1>19, <1>20, <1>21, <1>22, <1>23, <1>24, <1>25, <1>26 DEF Next, QueryStep, ServerStep, MainStep, Environment

(* The sockets go on telling which servers are left. *)
LEMMA SocketsStep == Shape /\ Flags /\ SocketsOK /\ [Next]_vars => SocketsOK'
<1> SUFFICES ASSUME Shape, Flags, SocketsOK, [Next]_vars PROVE SocketsOK'
  OBVIOUS
<1> USE DEF Shape, Flags, SocketsOK
<1>1. ASSUME NEW q \in Queries, AnswerBorn(q) PROVE SocketsOK'
  BY <1>1 DEF AnswerBorn
<1>2. ASSUME NEW q \in Queries, AnswerRefused(q) PROVE SocketsOK'
  BY <1>2 DEF AnswerRefused, DecreaseProcs, PdnsdExit
<1>3. ASSUME NEW q \in Queries, AnswerStarts(q) PROVE SocketsOK'
  BY <1>3 DEF AnswerStarts
<1>4. ASSUME NEW q \in Queries, AnswerEnds(q) PROVE SocketsOK'
  BY <1>4 DEF AnswerEnds, DecreaseProcs
<1>5. ASSUME NEW s \in Servers, ServerStarts(s) PROVE SocketsOK'
  BY <1>5 DEF ServerStarts
<1>6. ASSUME NEW s \in Servers, ServerRefused(s) PROVE SocketsOK'
  BY <1>6 DEF ServerRefused, PdnsdExit
<1>7. ASSUME NEW s \in Servers, ServerMallocFails(s) PROVE SocketsOK'
  BY <1>7 DEF ServerMallocFails
<1>8. ASSUME NEW s \in Servers, CreateAnswer(s) PROVE SocketsOK'
  BY <1>8 DEF CreateAnswer
<1>9. ASSUME NEW s \in Servers, CreateFails(s) PROVE SocketsOK'
  BY <1>9 DEF CreateFails
<1>10. ASSUME NEW s \in Servers, UndoAdmission(s) PROVE SocketsOK'
  BY <1>10 DEF UndoAdmission
<1>11. ASSUME NEW s \in Servers, ServerCloses(s) PROVE SocketsOK'
  BY <1>11 DEF ServerCloses
<1>12. ASSUME NEW s \in Servers, ServerEnds(s) PROVE SocketsOK'
  BY <1>12 DEF ServerEnds, PdnsdExit
<1>13. ASSUME NEW s \in Servers, MainSkips(s) PROVE SocketsOK'
  BY <1>13 DEF MainSkips
<1>14. ASSUME NEW s \in Servers, MainCreates(s) PROVE SocketsOK'
  BY <1>14 DEF MainCreates
<1>15. ASSUME NEW s \in Servers, MainCreateFails(s) PROVE SocketsOK'
  BY <1>15 DEF MainCreateFails, PdnsdExit
<1>16. ASSUME NEW s \in Servers, NEW q \in Queries, Admit(s, q) PROVE SocketsOK'
  BY <1>16 DEF Admit
<1>17. ASSUME NEW s \in Servers, NEW q \in Queries, Drop(s, q) PROVE SocketsOK'
  BY <1>17 DEF Drop
<1>18. ASSUME NEW p \in ProcLimits, NEW q \in ProcqLimits, ReloadBegins(p, q) PROVE SocketsOK'
  BY <1>18 DEF ReloadBegins
<1>19. ASSUME ListenFails PROVE SocketsOK'
  BY <1>19 DEF ListenFails
<1>20. ASSUME MainSigwait PROVE SocketsOK'
  BY <1>20 DEF MainSigwait
<1>21. ASSUME MainExits PROVE SocketsOK'
  BY <1>21 DEF MainExits
<1>22. ASSUME LastThreadEnds PROVE SocketsOK'
  BY <1>22 DEF LastThreadEnds
<1>23. ASSUME ReloadProc PROVE SocketsOK'
  BY <1>23 DEF ReloadProc
<1>24. ASSUME ReloadProcq PROVE SocketsOK'
  BY <1>24 DEF ReloadProcq
<1>25. ASSUME Terminate PROVE SocketsOK'
  BY <1>25 DEF Terminate
<1>26. CASE UNCHANGED vars
  BY <1>26 DEF vars
<1>27. QED
  BY <1>1, <1>2, <1>3, <1>4, <1>5, <1>6, <1>7, <1>8, <1>9, <1>10, <1>11, <1>12, <1>13, <1>14, <1>15, <1>16, <1>17, <1>18, <1>19, <1>20, <1>21, <1>22, <1>23, <1>24, <1>25, <1>26 DEF Next, QueryStep, ServerStep, MainStep, Environment

(* One element enters or leaves a finite set. *)
LEMMA Enter ==
    ASSUME NEW S, NEW T, NEW x, IsFiniteSet(S), x \notin S, T = S \cup {x}
    PROVE  IsFiniteSet(T) /\ Cardinality(T) = Cardinality(S) + 1 /\ Cardinality(S) \in Nat
BY FS_AddElement, FS_CardinalityType

LEMMA Leave ==
    ASSUME NEW S, NEW T, NEW x, IsFiniteSet(S), x \in S, T = S \ {x}
    PROVE  IsFiniteSet(T) /\ Cardinality(T) = Cardinality(S) - 1 /\ Cardinality(S) \in Nat
BY FS_RemoveElement, FS_CardinalityType

(* The counters follow the sets they count. *)
LEMMA CountsStep ==
    Shape /\ JobsOK /\ Finite /\ CountsExact /\ [Next]_vars => Finite' /\ CountsExact'
<1> SUFFICES ASSUME Shape, JobsOK, Finite, CountsExact, [Next]_vars
             PROVE Finite' /\ CountsExact'
  OBVIOUS
<1>0. ASSUME UNCHANGED <<procs, qprocs, spawned, dropped, refused, qpc>>
      PROVE Finite' /\ CountsExact'
  BY <1>0 DEF Finite, CountsExact, Admitted, Active, Spawned, Dropped, In
<1>a. /\ Cardinality(Admitted) \in Nat /\ Cardinality(Active) \in Nat
      /\ Cardinality(Spawned) \in Nat /\ Cardinality(Dropped) \in Nat
  BY FS_CardinalityType DEF Finite
<1>1. ASSUME NEW q \in Queries, AnswerBorn(q) PROVE Finite' /\ CountsExact'
  <2>1. Admitted' = Admitted
    BY <1>1 DEF AnswerBorn, Admitted, In, Shape
  <2>2. Active' = Active
    BY <1>1 DEF AnswerBorn, Active, In, Shape
  <2>3. Spawned' = Spawned
    BY <1>1 DEF AnswerBorn, Spawned, In, Shape
  <2>4. Dropped' = Dropped
    BY <1>1 DEF AnswerBorn, Dropped, In, Shape
  <2>5. Finite'
    BY <2>1, <2>2, <2>3, <2>4 DEF Finite
  <2>6. CountsExact'
    BY <2>1, <2>2, <2>3, <2>4, <1>1, <1>a DEF AnswerBorn, CountsExact, Shape
  <2>7. QED
    BY <2>5, <2>6
<1>2. ASSUME NEW q \in Queries, AnswerRefused(q) PROVE Finite' /\ CountsExact'
  <2>1. q \in Admitted /\ Admitted' = Admitted \ {q}
    BY <1>2 DEF AnswerRefused, Admitted, In, Shape
  <2>2. Active' = Active
    BY <1>2 DEF AnswerRefused, Active, In, Shape
  <2>3. Spawned' = Spawned
    BY <1>2 DEF AnswerRefused, Spawned, In, Shape
  <2>4. Dropped' = Dropped
    BY <1>2 DEF AnswerRefused, Dropped, In, Shape
  <2>5. IsFiniteSet(Admitted') /\ Cardinality(Admitted') = Cardinality(Admitted) - 1
    BY <2>1, Leave, Zenon DEF Finite
  <2>6. Finite'
    BY <2>2, <2>3, <2>4, <2>5 DEF Finite
  <2>7. CountsExact'
    BY <2>2, <2>3, <2>4, <2>5, <1>2, <1>a DEF AnswerRefused, DecreaseProcs, PdnsdExit, CountsExact, Shape
  <2>8. QED
    BY <2>6, <2>7
<1>3. ASSUME NEW q \in Queries, AnswerStarts(q) PROVE Finite' /\ CountsExact'
  <2>1. Admitted' = Admitted
    BY <1>3 DEF AnswerStarts, Admitted, In, Shape
  <2>2. q \notin Active /\ Active' = Active \cup {q}
    BY <1>3 DEF AnswerStarts, Active, In, Shape
  <2>3. Spawned' = Spawned
    BY <1>3 DEF AnswerStarts, Spawned, In, Shape
  <2>4. Dropped' = Dropped
    BY <1>3 DEF AnswerStarts, Dropped, In, Shape
  <2>5. IsFiniteSet(Active') /\ Cardinality(Active') = Cardinality(Active) + 1
    BY <2>2, Enter, Zenon DEF Finite
  <2>6. Finite'
    BY <2>1, <2>3, <2>4, <2>5 DEF Finite
  <2>7. CountsExact'
    BY <2>1, <2>3, <2>4, <2>5, <1>3, <1>a DEF AnswerStarts, CountsExact, Shape
  <2>8. QED
    BY <2>6, <2>7
<1>4. ASSUME NEW q \in Queries, AnswerEnds(q) PROVE Finite' /\ CountsExact'
  <2>1. q \in Admitted /\ Admitted' = Admitted \ {q}
    BY <1>4 DEF AnswerEnds, Admitted, In, Shape
  <2>2. q \in Active /\ Active' = Active \ {q}
    BY <1>4 DEF AnswerEnds, Active, In, Shape
  <2>3. Spawned' = Spawned
    BY <1>4 DEF AnswerEnds, Spawned, In, Shape
  <2>4. Dropped' = Dropped
    BY <1>4 DEF AnswerEnds, Dropped, In, Shape
  <2>5. IsFiniteSet(Admitted') /\ Cardinality(Admitted') = Cardinality(Admitted) - 1
    BY <2>1, Leave, Zenon DEF Finite
  <2>6. IsFiniteSet(Active') /\ Cardinality(Active') = Cardinality(Active) - 1
    BY <2>2, Leave, Zenon DEF Finite
  <2>7. Finite'
    BY <2>3, <2>4, <2>5, <2>6 DEF Finite
  <2>8. CountsExact'
    BY <2>3, <2>4, <2>5, <2>6, <1>4, <1>a DEF AnswerEnds, DecreaseProcs, CountsExact, Shape
  <2>9. QED
    BY <2>7, <2>8
<1>5. ASSUME NEW s \in Servers, ServerStarts(s) PROVE Finite' /\ CountsExact'
  BY <1>5, <1>0 DEF ServerStarts
<1>6. ASSUME NEW s \in Servers, ServerRefused(s) PROVE Finite' /\ CountsExact'
  BY <1>6, <1>0 DEF ServerRefused, PdnsdExit
<1>7. ASSUME NEW s \in Servers, ServerMallocFails(s) PROVE Finite' /\ CountsExact'
  BY <1>7, <1>0 DEF ServerMallocFails
<1>8. ASSUME NEW s \in Servers, CreateAnswer(s) PROVE Finite' /\ CountsExact'
  <2>1. job[s] \in Queries /\ qpc[job[s]] = "admit" /\ job' = [job EXCEPT ![s] = NoQuery]
    BY <1>8 DEF CreateAnswer, JobsOK
  <2>2. Admitted' = Admitted
    BY <1>8, <2>1 DEF CreateAnswer, Admitted, In, Shape
  <2>3. Active' = Active
    BY <1>8, <2>1 DEF CreateAnswer, Active, In, Shape
  <2>4. Spawned' = Spawned
    BY <1>8, <2>1 DEF CreateAnswer, Spawned, In, Shape
  <2>5. Dropped' = Dropped
    BY <1>8, <2>1 DEF CreateAnswer, Dropped, In, Shape
  <2>6. Finite'
    BY <2>2, <2>3, <2>4, <2>5 DEF Finite
  <2>7. CountsExact'
    BY <2>2, <2>3, <2>4, <2>5, <1>8, <1>a DEF CreateAnswer, CountsExact, Shape
  <2>8. QED
    BY <2>6, <2>7
<1>9. ASSUME NEW s \in Servers, CreateFails(s) PROVE Finite' /\ CountsExact'
  BY <1>9, <1>0 DEF CreateFails
<1>10. ASSUME NEW s \in Servers, UndoAdmission(s) PROVE Finite' /\ CountsExact'
  <2>1. job[s] \in Queries /\ qpc[job[s]] = "admit" /\ job' = [job EXCEPT ![s] = NoQuery]
    BY <1>10 DEF UndoAdmission, JobsOK
  <2>2. job[s] \in Admitted /\ Admitted' = Admitted \ {job[s]}
    BY <1>10, <2>1 DEF UndoAdmission, Admitted, In, Shape
  <2>3. Active' = Active
    BY <1>10, <2>1 DEF UndoAdmission, Active, In, Shape
  <2>4. job[s] \in Spawned /\ Spawned' = Spawned \ {job[s]}
    BY <1>10, <2>1 DEF UndoAdmission, Spawned, In, Shape
  <2>5. job[s] \notin Dropped /\ Dropped' = Dropped \cup {job[s]}
    BY <1>10, <2>1 DEF UndoAdmission, Dropped, In, Shape
  <2>6. IsFiniteSet(Admitted') /\ Cardinality(Admitted') = Cardinality(Admitted) - 1
    BY <2>2, Leave, Zenon DEF Finite
  <2>7. IsFiniteSet(Spawned') /\ Cardinality(Spawned') = Cardinality(Spawned) - 1
    BY <2>4, Leave, Zenon DEF Finite
  <2>8. IsFiniteSet(Dropped') /\ Cardinality(Dropped') = Cardinality(Dropped) + 1
    BY <2>5, Enter, Zenon DEF Finite
  <2>9. Finite'
    BY <2>3, <2>6, <2>7, <2>8 DEF Finite
  <2>10. CountsExact'
    BY <2>3, <2>6, <2>7, <2>8, <1>10, <1>a DEF UndoAdmission, CountsExact, Shape
  <2>11. QED
    BY <2>9, <2>10
<1>11. ASSUME NEW s \in Servers, ServerCloses(s) PROVE Finite' /\ CountsExact'
  BY <1>11, <1>0 DEF ServerCloses
<1>12. ASSUME NEW s \in Servers, ServerEnds(s) PROVE Finite' /\ CountsExact'
  BY <1>12, <1>0 DEF ServerEnds, PdnsdExit
<1>13. ASSUME NEW s \in Servers, MainSkips(s) PROVE Finite' /\ CountsExact'
  BY <1>13, <1>0 DEF MainSkips
<1>14. ASSUME NEW s \in Servers, MainCreates(s) PROVE Finite' /\ CountsExact'
  BY <1>14, <1>0 DEF MainCreates
<1>15. ASSUME NEW s \in Servers, MainCreateFails(s) PROVE Finite' /\ CountsExact'
  BY <1>15, <1>0 DEF MainCreateFails, PdnsdExit
<1>16. ASSUME NEW s \in Servers, NEW q \in Queries, Admit(s, q) PROVE Finite' /\ CountsExact'
  <2>1. q \notin Admitted /\ Admitted' = Admitted \cup {q}
    BY <1>16 DEF Admit, Admitted, In, Shape
  <2>2. Active' = Active
    BY <1>16 DEF Admit, Active, In, Shape
  <2>3. q \notin Spawned /\ Spawned' = Spawned \cup {q}
    BY <1>16 DEF Admit, Spawned, In, Shape
  <2>4. Dropped' = Dropped
    BY <1>16 DEF Admit, Dropped, In, Shape
  <2>5. IsFiniteSet(Admitted') /\ Cardinality(Admitted') = Cardinality(Admitted) + 1
    BY <2>1, Enter, Zenon DEF Finite
  <2>6. IsFiniteSet(Spawned') /\ Cardinality(Spawned') = Cardinality(Spawned) + 1
    BY <2>3, Enter, Zenon DEF Finite
  <2>7. Finite'
    BY <2>2, <2>4, <2>5, <2>6 DEF Finite
  <2>8. CountsExact'
    BY <2>2, <2>4, <2>5, <2>6, <1>16, <1>a DEF Admit, CountsExact, Shape
  <2>9. QED
    BY <2>7, <2>8
<1>17. ASSUME NEW s \in Servers, NEW q \in Queries, Drop(s, q) PROVE Finite' /\ CountsExact'
  <2>1. Admitted' = Admitted
    BY <1>17 DEF Drop, Admitted, In, Shape
  <2>2. Active' = Active
    BY <1>17 DEF Drop, Active, In, Shape
  <2>3. Spawned' = Spawned
    BY <1>17 DEF Drop, Spawned, In, Shape
  <2>4. q \notin Dropped /\ Dropped' = Dropped \cup {q}
    BY <1>17 DEF Drop, Dropped, In, Shape
  <2>5. IsFiniteSet(Dropped') /\ Cardinality(Dropped') = Cardinality(Dropped) + 1
    BY <2>4, Enter, Zenon DEF Finite
  <2>6. Finite'
    BY <2>1, <2>2, <2>3, <2>5 DEF Finite
  <2>7. CountsExact'
    BY <2>1, <2>2, <2>3, <2>5, <1>17, <1>a DEF Drop, CountsExact, Shape
  <2>8. QED
    BY <2>6, <2>7
<1>18. ASSUME NEW p \in ProcLimits, NEW q \in ProcqLimits, ReloadBegins(p, q) PROVE Finite' /\ CountsExact'
  BY <1>18, <1>0 DEF ReloadBegins
<1>19. ASSUME ListenFails PROVE Finite' /\ CountsExact'
  BY <1>19, <1>0 DEF ListenFails
<1>20. ASSUME MainSigwait PROVE Finite' /\ CountsExact'
  BY <1>20, <1>0 DEF MainSigwait
<1>21. ASSUME MainExits PROVE Finite' /\ CountsExact'
  BY <1>21, <1>0 DEF MainExits
<1>22. ASSUME LastThreadEnds PROVE Finite' /\ CountsExact'
  BY <1>22, <1>0 DEF LastThreadEnds
<1>23. ASSUME ReloadProc PROVE Finite' /\ CountsExact'
  BY <1>23, <1>0 DEF ReloadProc
<1>24. ASSUME ReloadProcq PROVE Finite' /\ CountsExact'
  BY <1>24, <1>0 DEF ReloadProcq
<1>25. ASSUME Terminate PROVE Finite' /\ CountsExact'
  BY <1>25, <1>0 DEF Terminate
<1>26. CASE UNCHANGED vars
  BY <1>26, <1>0 DEF vars
<1>27. QED
  BY <1>1, <1>2, <1>3, <1>4, <1>5, <1>6, <1>7, <1>8, <1>9, <1>10, <1>11, <1>12, <1>13, <1>14, <1>15, <1>16, <1>17, <1>18, <1>19, <1>20, <1>21, <1>22, <1>23, <1>24, <1>25, <1>26 DEF Next, QueryStep, ServerStep, MainStep, Environment

(* The limits hold across every step, a reload between the two included. *)
LEMMA LimitsStep == Shape /\ LimitsHold /\ [Next]_vars => LimitsHold'
<1> SUFFICES ASSUME Shape, LimitsHold, [Next]_vars PROVE LimitsHold'
  OBVIOUS
<1> USE DEF LimitsHold
<1>a. PICK p1 \in ProcLimits, q1 \in ProcqLimits : qprocs <= p1 + q1
  OBVIOUS
<1>b. PICK p2 \in ProcLimits : procs <= p2
  OBVIOUS
<1>c. p1 \in Nat /\ q1 \in Nat /\ p2 \in Nat /\ proc_limit \in Nat /\ procq_limit \in Nat
  BY DEF Shape
<1>1. ASSUME NEW q \in Queries, AnswerBorn(q) PROVE LimitsHold'
  BY <1>1 DEF AnswerBorn
<1>2. ASSUME NEW q \in Queries, AnswerRefused(q) PROVE LimitsHold'
  <2>1. qprocs' <= p1 + q1 /\ procs' <= p2
    BY <1>2, <1>a, <1>b, <1>c DEF AnswerRefused, DecreaseProcs, PdnsdExit, Shape
  <2>2. QED
    BY <2>1, <1>a, <1>b DEF Shape
<1>3. ASSUME NEW q \in Queries, AnswerStarts(q) PROVE LimitsHold'
  <2>1. qprocs' <= p1 + q1 /\ procs' <= proc_limit
    BY <1>3, <1>a, <1>b, <1>c DEF AnswerStarts, Shape
  <2>2. QED
    BY <2>1, <1>a, <1>b DEF Shape
<1>4. ASSUME NEW q \in Queries, AnswerEnds(q) PROVE LimitsHold'
  <2>1. qprocs' <= p1 + q1 /\ procs' <= p2
    BY <1>4, <1>a, <1>b, <1>c DEF AnswerEnds, DecreaseProcs, Shape
  <2>2. QED
    BY <2>1, <1>a, <1>b DEF Shape
<1>5. ASSUME NEW s \in Servers, ServerStarts(s) PROVE LimitsHold'
  BY <1>5 DEF ServerStarts
<1>6. ASSUME NEW s \in Servers, ServerRefused(s) PROVE LimitsHold'
  BY <1>6 DEF ServerRefused, PdnsdExit
<1>7. ASSUME NEW s \in Servers, ServerMallocFails(s) PROVE LimitsHold'
  BY <1>7 DEF ServerMallocFails
<1>8. ASSUME NEW s \in Servers, CreateAnswer(s) PROVE LimitsHold'
  BY <1>8 DEF CreateAnswer
<1>9. ASSUME NEW s \in Servers, CreateFails(s) PROVE LimitsHold'
  BY <1>9 DEF CreateFails
<1>10. ASSUME NEW s \in Servers, UndoAdmission(s) PROVE LimitsHold'
  <2>1. qprocs' <= p1 + q1 /\ procs' <= p2
    BY <1>10, <1>a, <1>b, <1>c DEF UndoAdmission, Shape
  <2>2. QED
    BY <2>1, <1>a, <1>b DEF Shape
<1>11. ASSUME NEW s \in Servers, ServerCloses(s) PROVE LimitsHold'
  BY <1>11 DEF ServerCloses
<1>12. ASSUME NEW s \in Servers, ServerEnds(s) PROVE LimitsHold'
  BY <1>12 DEF ServerEnds, PdnsdExit
<1>13. ASSUME NEW s \in Servers, MainSkips(s) PROVE LimitsHold'
  BY <1>13 DEF MainSkips
<1>14. ASSUME NEW s \in Servers, MainCreates(s) PROVE LimitsHold'
  BY <1>14 DEF MainCreates
<1>15. ASSUME NEW s \in Servers, MainCreateFails(s) PROVE LimitsHold'
  BY <1>15 DEF MainCreateFails, PdnsdExit
<1>16. ASSUME NEW s \in Servers, NEW q \in Queries, Admit(s, q) PROVE LimitsHold'
  <2>1. qprocs' <= proc_limit + procq_limit /\ procs' <= p2
    BY <1>16, <1>a, <1>b, <1>c DEF Admit, Shape
  <2>2. QED
    BY <2>1, <1>a, <1>b DEF Shape
<1>17. ASSUME NEW s \in Servers, NEW q \in Queries, Drop(s, q) PROVE LimitsHold'
  BY <1>17 DEF Drop
<1>18. ASSUME NEW p \in ProcLimits, NEW q \in ProcqLimits, ReloadBegins(p, q) PROVE LimitsHold'
  BY <1>18 DEF ReloadBegins
<1>19. ASSUME ListenFails PROVE LimitsHold'
  BY <1>19 DEF ListenFails
<1>20. ASSUME MainSigwait PROVE LimitsHold'
  BY <1>20 DEF MainSigwait
<1>21. ASSUME MainExits PROVE LimitsHold'
  BY <1>21 DEF MainExits
<1>22. ASSUME LastThreadEnds PROVE LimitsHold'
  BY <1>22 DEF LastThreadEnds
<1>23. ASSUME ReloadProc PROVE LimitsHold'
  BY <1>23 DEF ReloadProc
<1>24. ASSUME ReloadProcq PROVE LimitsHold'
  BY <1>24 DEF ReloadProcq
<1>25. ASSUME Terminate PROVE LimitsHold'
  BY <1>25 DEF Terminate
<1>26. CASE UNCHANGED vars
  BY <1>26 DEF vars
<1>27. QED
  BY <1>1, <1>2, <1>3, <1>4, <1>5, <1>6, <1>7, <1>8, <1>9, <1>10, <1>11, <1>12, <1>13, <1>14, <1>15, <1>16, <1>17, <1>18, <1>19, <1>20, <1>21, <1>22, <1>23, <1>24, <1>25, <1>26 DEF Next, QueryStep, ServerStep, MainStep, Environment

(* The invariant is inductive. *)
LEMMA InvStep == Inv /\ [Next]_vars => Inv'
BY ShapeStep, FlagsStep, JobsStep, SocketsStep, CountsStep, LimitsStep DEF Inv

LEMMA Invariance == Spec => []Inv
<1>1. QED
  BY InitInv, InvStep, PTL DEF Spec

(* Under every interleaving, thread-creation failure, run_as failure and   *)
(* reload the counters under proc_lock are exact (decrease_procs and the   *)
(* admission code of both servers).                                        *)
THEOREM CountsExactHolds == Spec => []CountsExact
<1>1. Inv => CountsExact
  BY DEF Inv
<1>2. QED
  BY <1>1, Invariance, PTL

(* The variables keep their types: qprocs, spawned and dropped, which the  *)
(* code decrements without a test, never go below zero.                    *)
THEOREM TypeCorrect == Spec => []TypeOK
<1>1. Inv => TypeOK
  <2> SUFFICES ASSUME Inv PROVE TypeOK
    OBVIOUS
  <2>1. qprocs \in Nat /\ spawned \in Nat /\ dropped \in Nat
    BY FS_CardinalityType DEF Inv, Finite, CountsExact
  <2>2. QED
    BY <2>1 DEF Inv, Shape, Flags, TypeOK
<1>2. QED
  BY <1>1, Invariance, PTL

(* The admitted and the active threads stay within configured limits, even *)
(* when an admission reads one limit before and one after a reload.        *)
THEOREM LimitsHoldHolds == Spec => []LimitsHold
<1>1. Inv => LimitsHold
  BY DEF Inv
<1>2. QED
  BY <1>1, Invariance, PTL

(* The two server threads cannot both end without one of them, or whoever  *)
(* was refused its identity, calling pdnsd_exit.                           *)
THEOREM NoSilentServersHolds == Spec => []NoSilentServers
<1>1. Inv => NoSilentServers
  BY DEF Inv, SocketsOK, NoSilentServers, Shape, Flags
<1>2. QED
  BY <1>1, Invariance, PTL

(* An admission has one owner and the sockets tell which servers are left. *)
THEOREM ThreadsInvHolds == Spec => []ThreadsInv
<1>1. Inv => ThreadsInv
  BY DEF Inv, ThreadsInv
<1>2. QED
  BY <1>1, Invariance, PTL

(* As long as no thread was refused its identity, procs is the number of   *)
(* active threads and never exceeds a configured proc_limit: pdnsd serves  *)
(* at most "Maximum parallel queries served" (conff.c).                    *)
THEOREM ActiveBoundedHolds == Spec => []ActiveBounded
<1>1. Inv => ActiveBounded
  <2> SUFFICES ASSUME Inv, refused = 0
               PROVE /\ procs = Cardinality(Active)
                     /\ \E p \in ProcLimits : Cardinality(Active) <= p
    BY DEF ActiveBounded
  <2>1. Cardinality(Active) \in Nat
    BY FS_CardinalityType DEF Inv, Finite
  <2>2. procs = Cardinality(Active)
    BY <2>1 DEF Inv, CountsExact, Shape
  <2>3. QED
    BY <2>2 DEF Inv, LimitsHold
<1>2. QED
  BY <1>1, Invariance, PTL

------------------------------------------------------------------------------
(* The work of an answer thread: a query comes to an end (Compose). *)

CONSTANTS
    NameBuf, LabelLen, MaxOffset, AllocInitial, AllocChunk, NoLimit, Requests, Entries,
    TypeOrder, Failures, MaxHops, UdpBufSize, udpbufsize, RndRecs

VARIABLES
    req, limit, pc, m, rcode, aa, tc, ar, auth, question, qname, hops, i, sent

Reply == INSTANCE Compose WITH q <- question

(* The phases of a query are numbered in the order in which they are listed. *)
LEMMA PhaseOrder ==
    /\ Reply!Phase("receive") = 1 /\ Reply!Phase("questions") = 2
    /\ Reply!Phase("resolve") = 3 /\ Reply!Phase("authority") = 4
    /\ Reply!Phase("additional") = 5 /\ Reply!Phase("finish") = 6
    /\ Reply!Phase("send") = 7 /\ Reply!Phase("sent") = 8 /\ Reply!Phase("dropped") = 9
  BY DEF Reply!Phase, Reply!Phases

(* The counters that bound the work on a query. *)
Counters == question \in Nat /\ hops \in Nat /\ i \in Nat

(* compose_answer goes from an answer on to the next question or, if it was a
   CNAME, to the next name of the chain. *)
LEMMA ResolveLeads ==
    ASSUME Reply!Resolve
    PROVE  pc = "resolve" /\ i' = i /\ (Reply!Ask(question + 1) \/ \E n : Reply!Hop(n))
  BY Zenon DEF Reply!Resolve

(* hops is counted down only while it is not zero, and starts again from
   MAX_HOPS with each question. *)
LEMMA CountersStay ==
    ASSUME MaxHops \in Nat, Counters, [Reply!Next]_(Reply!vars)
    PROVE  Counters'
  <1>1. \A j \in Nat : Reply!Ask(j) => question' \in Nat /\ hops' \in Nat
    BY DEF Reply!Ask, Counters
  <1>2. CASE Reply!Questions BY <1>1, <1>2 DEF Reply!Questions, Counters, Reply!query
  <1>3. CASE Reply!Resolve
    <2>1. \A n : Reply!Hop(n) => question' \in Nat /\ hops' \in Nat
      BY <1>1 DEF Reply!Hop, Counters
    <2>2. QED BY <1>1, <1>3, <2>1, ResolveLeads DEF Counters
  <1>4. CASE Reply!AuthoritySection
    BY <1>4 DEF Reply!AuthoritySection, Counters, Reply!query
  <1>5. CASE Reply!add_additional_a
    BY <1>5 DEF Reply!add_additional_a, Counters, Reply!query
  <1>6. CASE \/ Reply!Receive \/ Reply!NoAnswer \/ Reply!Finish \/ Reply!OutOfMemory
             \/ Reply!Send \/ Reply!Done \/ UNCHANGED Reply!vars
    <2>1. question' = question /\ hops' = hops /\ i' = i
      BY <1>6, Zenon DEF Reply!Receive, Reply!NoAnswer, Reply!Finish, Reply!OutOfMemory,
                         Reply!Send, Reply!Done, Reply!vars, Reply!query
    <2>2. QED BY <2>1 DEF Counters
  <1>7. QED BY <1>2, <1>3, <1>4, <1>5, <1>6, Zenon DEF Reply!Next

(* A step of a query, as Progresses wants it. *)
Forward ==
    \/ Reply!Phase(pc') > Reply!Phase(pc)
    \/ pc' = pc /\ (question' > question \/ (question' = question /\ hops' < hops) \/ i' > i)

(* Every step that is not a stutter leads to a later phase, or within its phase
   to the next question, hop or element of ar. *)
LEMMA StepsForward ==
    ASSUME Counters, [Reply!Next]_(Reply!vars)
    PROVE  [Forward]_(Reply!vars)
  <1>1. CASE Reply!Receive
    <2>1. pc = "receive" /\ pc' \in {"questions", "dropped", "send"}
      BY <1>1 DEF Reply!Receive, Reply!mk_error_reply
    <2>2. QED BY <2>1, PhaseOrder DEF Forward
  <1>2. CASE Reply!Questions
    <2>1. pc = "questions" /\ pc' \in {"authority", "resolve", "send"}
      BY <1>2 DEF Reply!Questions, Reply!Ask
    <2>2. QED BY <2>1, PhaseOrder DEF Forward
  <1>3. CASE Reply!Resolve
    <2>1. pc = "resolve" /\ (Reply!Ask(question + 1) \/ \E n : Reply!Hop(n))
      BY <1>3, ResolveLeads
    <2>2. CASE Reply!Ask(question + 1)
      BY <2>1, <2>2, PhaseOrder DEF Reply!Ask, Forward, Counters
    <2>3. CASE \E n : Reply!Hop(n)
      BY <2>1, <2>2, <2>3 DEF Reply!Hop, Forward, Counters
    <2>4. QED BY <2>1, <2>2, <2>3
  <1>4. CASE Reply!NoAnswer \/ Reply!Finish \/ Reply!Send
    <2>1. \/ pc \in {"resolve", "additional", "finish"} /\ pc' = "send"
          \/ pc = "send" /\ pc' = "sent"
      BY <1>4, Zenon DEF Reply!NoAnswer, Reply!Finish, Reply!Send
    <2>2. QED BY <2>1, PhaseOrder DEF Forward
  <1>5. CASE Reply!AuthoritySection
    <2>1. pc = "authority" /\ pc' \in {"finish", "additional"}
      BY <1>5 DEF Reply!AuthoritySection
    <2>2. QED BY <2>1, PhaseOrder DEF Forward
  <1>6. CASE Reply!add_additional_a
    <2>1. pc' = pc /\ i' = i + 1 BY <1>6, Zenon DEF Reply!add_additional_a
    <2>2. QED BY <2>1 DEF Forward, Counters
  <1>7. CASE Reply!OutOfMemory
    <2>1. /\ pc \in {"questions", "resolve", "authority", "additional"}
          /\ pc' \in {"send", "dropped"}
      BY <1>7 DEF Reply!OutOfMemory, Reply!mk_error_reply
    <2>2. QED BY <2>1, PhaseOrder DEF Forward
  <1>8. CASE Reply!Done \/ UNCHANGED Reply!vars BY <1>8, Zenon DEF Reply!Done
  <1>9. QED BY <1>1, <1>2, <1>3, <1>4, <1>5, <1>6, <1>7, <1>8, Zenon DEF Reply!Next

(* Whatever is asked and whatever the cache holds, process_query moves a query
   forward with every step: CNAMEs that lead in a circle use up MAX_HOPS, and no
   phase is entered again. *)
THEOREM ProgressesHolds ==
    ASSUME MaxHops \in Nat
    PROVE  Reply!Spec => Reply!Progresses
  <1>1. Reply!Init => Counters BY DEF Reply!Init, Counters
  <1>2. Reply!Spec => [][Forward]_(Reply!vars)
    BY <1>1, CountersStay, StepsForward, PTL DEF Reply!Spec
  <1>3. QED BY <1>2, Zenon DEF Reply!Progresses, Forward

=============================================================================
