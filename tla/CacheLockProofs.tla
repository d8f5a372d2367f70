--------------------------- MODULE CacheLockProofs ---------------------------
(* Proofs about the cache lock, for any number of threads. *)
EXTENDS CacheLock, FiniteSetTheorems, TLAPS

(***************************************************************************)
(* Counting: when thread t moves to state s, the number of threads in the  *)
(* states A changes by what t adds and takes away.                         *)
(***************************************************************************)
LEMMA CountChange ==
    ASSUME pc \in [Threads -> ThreadStates],
           NEW t \in Threads, NEW s, Goto(t, s), NEW A
    PROVE  /\ Count(A) \in Nat
           /\ Count(A)' \in Nat
           /\ pc[t] \in A => Count(A) > 0
           /\ Count(A)' = Count(A) + (IF s \in A THEN 1 ELSE 0)
                                   - (IF pc[t] \in A THEN 1 ELSE 0)
<1> DEFINE S == {u \in Threads : pc[u] \in A}
           T == {u \in Threads : pc'[u] \in A}
           R == S \ {t}
<1>1. IsFiniteSet(S) /\ IsFiniteSet(T) /\ IsFiniteSet(R)
  BY ThreadsFinite, FS_Subset, S \subseteq Threads, T \subseteq Threads, R \subseteq Threads
<1>2. pc'[t] = s /\ \A u \in Threads \ {t} : pc'[u] = pc[u]
  BY DEF Goto
<1>3. S = (IF pc[t] \in A THEN R \cup {t} ELSE R) /\ T = (IF s \in A THEN R \cup {t} ELSE R)
  BY <1>2
<1>4. Cardinality(R) \in Nat /\ Cardinality(R \cup {t}) = Cardinality(R) + 1
  BY <1>1, FS_AddElement, FS_CardinalityType, t \notin R
<1>5. Count(A) = Cardinality(S) /\ Count(A)' = Cardinality(T)
  BY DEF Count
<1> HIDE DEF S, T, R
<1> QED BY <1>3, <1>4, <1>5

(* A positive count has a witness, a zero count has none. *)
LEMMA CountWitness ==
    ASSUME NEW A
    PROVE  /\ Count(A) \in Nat
           /\ Count(A) > 0 => \E t \in Threads : pc[t] \in A
           /\ Count(A) = 0 => \A t \in Threads : pc[t] \notin A
<1> DEFINE S == {u \in Threads : pc[u] \in A}
<1>1. IsFiniteSet(S)
  BY ThreadsFinite, FS_Subset, S \subseteq Threads
<1>2. Count(A) = Cardinality(S) /\ Cardinality(S) \in Nat
  BY <1>1, FS_CardinalityType DEF Count
<1>3. (Cardinality(S) = 0) <=> S = {}
  BY <1>1, FS_EmptySet
<1> QED BY <1>2, <1>3

(***************************************************************************)
(* Suspending readers takes at least three pending writers, and at most    *)
(* two of them can time out.                                               *)
(***************************************************************************)
LEMMA PatientWriter ==
    ASSUME PendingExact, SleepersWait, NEW r \in Nat \ {0}, rw_pend > SUSP_THRESH(r)
    PROVE  \E t \in Threads : pc[t] \in {"w_wait", "y_wait"}
<1> DEFINE S == {u \in Threads : pc[u] \in WriteWaiting}
<1>1. rw_pend = Cardinality(S)
  BY DEF PendingExact, Count
<1>2. IsFiniteSet(Emptiers) /\ Cardinality(Emptiers) \in Nat /\ Cardinality(Emptiers) <= 2
  BY ThreadsFinite, EmptiersFew, FS_Subset, FS_CardinalityType
<1>3. IsFiniteSet(S) /\ Cardinality(S) \in Nat
  BY ThreadsFinite, FS_Subset, FS_CardinalityType, S \subseteq Threads
<1>4. rw_pend > 2
  BY <1>1, <1>3 DEF SUSP_THRESH
<1>5. ~(S \subseteq Emptiers)
  <2> SUFFICES ASSUME S \subseteq Emptiers PROVE FALSE
    OBVIOUS
  <2>1. Cardinality(S) <= Cardinality(Emptiers)
    BY <1>2, FS_Subset
  <2> QED BY <2>1, <1>1, <1>2, <1>3, <1>4
<1>6. PICK t \in S : t \notin Emptiers
  BY <1>5
<1> QED BY <1>6 DEF SleepersWait, WriteWaiting

(* The sets of states that the invariant counts are disjoint. *)
LEMMA StatesDisjoint ==
    /\ "idle" \notin ReadWaiting \cup WriteWaiting \cup WriteHolding
    /\ "y_sleep" \notin ReadWaiting \cup WriteWaiting \cup WriteHolding
    /\ "r_held" \notin ReadWaiting \cup WriteWaiting \cup WriteHolding
    /\ ReadWaiting \cap WriteWaiting = {} /\ ReadWaiting \cap WriteHolding = {}
    /\ WriteWaiting \cap WriteHolding = {}
  BY DEF ReadWaiting, WriteWaiting, WriteHolding

(* The loop of lock_cache_r, entered for the first time or again. *)
LEMMA ReadLoop ==
    ASSUME LockInv, NEW t \in Threads, NEW rp, TryRead(t, rp),
           \/ pc[t] = "idle" /\ rp = r_pend + 1
           \/ pc[t] = "r_wait" /\ t \notin r_cond /\ rp = r_pend
    PROVE  LockInv'
<1> USE DEF LockInv
<1>t. rp \in Nat /\ rp > 0 /\ pc \in [Threads -> ThreadStates] /\ r_pend \in Nat
  <2>1. r_pend = Count(ReadWaiting) /\ r_pend \in Nat /\ pc \in [Threads -> ThreadStates]
    BY DEF PendingExact, TypeOK
  <2>2. pc[t] = "r_wait" => r_pend > 0
    BY <2>1, CountWitness DEF ReadWaiting
  <2> QED BY <2>1, <2>2
<1>o. \A u \in Threads : u # t => pc'[u] = pc[u]
  BY <1>t DEF TryRead, Goto
<1>s. CASE r_susp \/ rw_pend > SUSP_THRESH(rp) \/ cache_w_lock
  <2>1. /\ r_pend' = rp /\ r_cond' = r_cond \cup {t} /\ Goto(t, "r_wait")
        /\ r_susp' = (r_susp \/ rw_pend > SUSP_THRESH(rp))
        /\ UNCHANGED <<cache_r_lock, cache_w_lock, rw_pend, rw_cond, exitpc, tries>>
    BY <1>s DEF TryRead, mainVars
  <2>2. pc' = [pc EXCEPT ![t] = "r_wait"] /\ pc'[t] = "r_wait"
    BY <2>1, <1>t DEF Goto
  <2>3. TypeOK'
    BY <2>1, <2>2, <1>t DEF TypeOK, ThreadStates, ReadWaiting
  <2>4. PendingExact' /\ Count({"r_held"})' = Count({"r_held"})
    BY <2>1, <1>t, CountChange, StatesDisjoint DEF PendingExact, ReadWaiting
  <2>5. HoldersCounted'
    BY <2>1, <2>2, <2>4, <1>o, StatesDisjoint
    DEF HoldersCounted, Writing, MainWriting, MainReading, ReadWaiting
  <2>6. SleepersWait'
    BY <2>1, <2>2, <1>o DEF SleepersWait, ReadWaiting, TypeOK, WriteWaiting
  <2>7. ReadersNotStranded'
    <3>1. rw_pend > SUSP_THRESH(rp) => \E u \in Threads : pc[u] \in {"w_wait", "y_wait"}
      BY PatientWriter, <1>t
    <3>2. exitpc = "run" => cache_w_lock \/ \E u \in Threads : pc[u] \in {"w_wait", "y_wait"}
      BY <3>1, <1>s DEF ReadersNotStranded
    <3> QED BY <3>2, <2>1, <1>o DEF ReadersNotStranded
  <2>8. NoLostWakeup'
    <3> SUFFICES ASSUME exitpc = "run", ~Busy PROVE \E u \in Threads : Woken(u)'
      BY <2>1 DEF NoLostWakeup, Busy
    <3>1. PICK u \in Threads : pc[u] \in {"w_wait", "y_wait"} /\ u # t
      BY <2>7, <2>1, <2>2, <1>o DEF ReadersNotStranded, Busy
    <3>2. CASE u \notin rw_cond
      BY <3>1, <3>2, <2>1, <2>2, <1>o DEF Woken, SleepersWait, WriteWaiting, ReadWaiting
    <3>3. CASE u \in rw_cond
      <4>1. PICK v \in Threads : Woken(v)
        BY <3>3 DEF NoLostWakeup
      <4>2. CASE pc[v] \in WriteWaiting \ {"e_expired"}
        BY <4>1, <4>2, <2>1, <2>2, <1>o DEF Woken, WriteWaiting, ReadWaiting
      <4>3. CASE pc[v] \in ReadWaiting /\ ~r_susp /\ rw_pend <= SUSP_THRESH(r_pend)
        <5>1. ~(rw_pend > SUSP_THRESH(rp))
          BY <4>3, <1>t DEF SUSP_THRESH, TypeOK
        <5> QED BY <5>1, <4>3, <1>s DEF Busy
      <4> QED BY <4>1, <4>2, <4>3 DEF Woken
    <3> QED BY <3>2, <3>3
  <2> QED BY <2>3, <2>4, <2>5, <2>6, <2>7, <2>8
<1>e. CASE ~(r_susp \/ rw_pend > SUSP_THRESH(rp) \/ cache_w_lock)
  <2>1. /\ r_pend' = rp - 1 /\ cache_r_lock' = cache_r_lock + 1 /\ Goto(t, "r_held")
        /\ r_susp' = FALSE /\ ~r_susp
        /\ UNCHANGED <<r_cond, cache_w_lock, rw_pend, rw_cond, exitpc, tries>>
    BY <1>e DEF TryRead, mainVars
  <2>2. pc' = [pc EXCEPT ![t] = "r_held"] /\ pc'[t] = "r_held"
    BY <2>1, <1>t DEF Goto
  <2>3. TypeOK'
    <3>1. pc' \in [Threads -> ThreadStates]
      BY <2>2, <1>t DEF ThreadStates
    <3>2. r_susp' \in BOOLEAN
      BY <2>1
    <3>3. r_pend' \in Nat
      BY <2>1, <1>t
    <3> QED BY <2>1, <3>1, <3>2, <3>3 DEF TypeOK
  <2>4. PendingExact' /\ Count({"r_held"})' = Count({"r_held"}) + 1 /\ Count({"r_held"}) \in Nat
    BY <2>1, <1>t, CountChange, StatesDisjoint DEF PendingExact, ReadWaiting
  <2>5. HoldersCounted'
    <3>1. ~MainWriting /\ \A u \in Threads : ~Writing(u)
      BY <1>e DEF HoldersCounted
    <3>2. ~MainWriting' /\ ~cache_w_lock' /\ \A u \in Threads : ~Writing(u)'
      BY <3>1, <2>1, <2>2, <1>e, <1>o, StatesDisjoint DEF Writing, MainWriting
    <3>3. (Count({"r_held"}) + (IF MainReading THEN 1 ELSE 0) <= cache_r_lock)'
      BY <2>1, <2>4 DEF HoldersCounted, MainReading, TypeOK
    <3> QED BY <3>2, <3>3 DEF HoldersCounted
  <2>6. SleepersWait'
    BY <2>1, <2>2, <1>o DEF SleepersWait, ReadWaiting, TypeOK, WriteWaiting
  <2>7. ReadersNotStranded'
    BY <2>1, <2>2, <1>o DEF ReadersNotStranded
  <2>8. NoLostWakeup'
    BY <2>1 DEF NoLostWakeup, Busy, TypeOK
  <2> QED BY <2>3, <2>4, <2>5, <2>6, <2>7, <2>8
<1> QED BY <1>s, <1>e

(* The loop of the rw lock functions, entered for the first time or again. *)
LEMMA WriteLoop ==
    ASSUME LockInv, NEW t \in Threads, NEW wp,
           NEW w \in {"w_wait", "e_wait", "y_wait"}, NEW h \in {"w_held", "e_held"},
           TryWrite(t, wp, w, h), w = "e_wait" => t \in Emptiers,
           \/ pc[t] \in {"idle", "y_sleep"} /\ wp = rw_pend + 1
           \/ pc[t] = w /\ t \notin rw_cond /\ wp = rw_pend
    PROVE  LockInv'
<1> USE DEF LockInv
<1>t. wp \in Nat /\ wp > 0 /\ pc \in [Threads -> ThreadStates] /\ rw_pend \in Nat
  <2>1. rw_pend = Count(WriteWaiting) /\ rw_pend \in Nat /\ pc \in [Threads -> ThreadStates]
    BY DEF PendingExact, TypeOK
  <2>2. pc[t] = w => rw_pend > 0
    BY <2>1, CountWitness DEF WriteWaiting
  <2> QED BY <2>1, <2>2
<1>o. \A u \in Threads : u # t => pc'[u] = pc[u]
  BY <1>t DEF TryWrite, Goto
<1>d. /\ w \in WriteWaiting /\ w \notin ReadWaiting /\ w \notin WriteHolding /\ w # "r_held"
      /\ h \in WriteHolding /\ h \notin ReadWaiting /\ h \notin WriteWaiting /\ h # "r_held"
      /\ pc[t] \notin ReadWaiting /\ pc[t] # "r_held" /\ pc[t] \notin WriteHolding
  BY DEF ReadWaiting, WriteWaiting, WriteHolding
<1>w. pc[t] \in WriteWaiting <=> pc[t] = w
  BY DEF WriteWaiting
<1>s. CASE Busy
  <2>1. /\ rw_pend' = wp /\ rw_cond' = rw_cond \cup {t} /\ Goto(t, w)
        /\ UNCHANGED <<cache_r_lock, cache_w_lock, r_pend, r_susp, r_cond, exitpc, tries>>
    BY <1>s DEF TryWrite, mainVars
  <2>2. pc' = [pc EXCEPT ![t] = w] /\ pc'[t] = w
    BY <2>1, <1>t DEF Goto
  <2>3. TypeOK'
    <3>1. pc' \in [Threads -> ThreadStates]
      BY <2>2, <1>t, <1>d DEF ThreadStates
    <3> QED BY <2>1, <3>1, <1>t DEF TypeOK
  <2>4. PendingExact' /\ Count({"r_held"})' = Count({"r_held"})
    BY <2>1, <1>t, <1>d, <1>w, CountChange DEF PendingExact
  <2>5. HoldersCounted'
    BY <2>1, <2>2, <2>4, <1>o, <1>d DEF HoldersCounted, Writing, MainWriting, MainReading
  <2>6. SleepersWait'
    BY <2>1, <2>2, <1>o, <1>d DEF SleepersWait, TypeOK, WriteWaiting
  <2>7. ReadersNotStranded'
    BY <2>1, <2>2, <1>o DEF ReadersNotStranded
  <2>8. NoLostWakeup'
    BY <2>1, <1>s DEF NoLostWakeup, Busy
  <2> QED BY <2>3, <2>4, <2>5, <2>6, <2>7, <2>8
<1>e. CASE ~Busy
  <2>1. /\ rw_pend' = wp - 1 /\ cache_w_lock' = TRUE /\ Goto(t, h)
        /\ UNCHANGED <<cache_r_lock, rw_cond, r_pend, r_susp, r_cond, exitpc, tries>>
    BY <1>e DEF TryWrite, mainVars
  <2>2. pc' = [pc EXCEPT ![t] = h] /\ pc'[t] = h
    BY <2>1, <1>t DEF Goto
  <2>3. TypeOK'
    <3>1. pc' \in [Threads -> ThreadStates]
      BY <2>2, <1>t, <1>d DEF ThreadStates
    <3>2. rw_pend' \in Nat
      BY <2>1, <1>t
    <3> QED BY <2>1, <3>1, <3>2 DEF TypeOK
  <2>4. PendingExact' /\ Count({"r_held"})' = Count({"r_held"})
    BY <2>1, <1>t, <1>d, <1>w, CountChange DEF PendingExact
  <2>5. HoldersCounted'
    <3>1. cache_r_lock = 0 /\ ~MainWriting /\ \A u \in Threads : ~Writing(u)
      BY <1>e DEF HoldersCounted, Busy, TypeOK
    <3> QED BY <3>1, <2>1, <2>2, <2>4, <1>o, <1>d
            DEF HoldersCounted, Writing, MainWriting, MainReading
  <2>6. SleepersWait'
    BY <2>1, <2>2, <1>o, <1>d, <1>w DEF SleepersWait, TypeOK, WriteWaiting
  <2>7. ReadersNotStranded'
    BY <2>1 DEF ReadersNotStranded
  <2>8. NoLostWakeup'
    BY <2>1 DEF NoLostWakeup, Busy
  <2> QED BY <2>3, <2>4, <2>5, <2>6, <2>7, <2>8
<1> QED BY <1>s, <1>e

(* unlock_cache_r: the last reader signals a writer. *)
LEMMA ReaderLeaves ==
    ASSUME LockInv, NEW t \in Threads, UnlockR(t)
    PROVE  LockInv'
<1> USE DEF LockInv
<1>t. pc \in [Threads -> ThreadStates] /\ pc[t] = "r_held" /\ cache_r_lock \in Nat
  BY DEF TypeOK, UnlockR
<1>o. pc'[t] = "idle" /\ \A u \in Threads : u # t => pc'[u] = pc[u]
  BY <1>t DEF UnlockR, Goto
<1>1. /\ UNCHANGED <<cache_w_lock, r_pend, rw_pend, r_susp, r_cond, exitpc, tries>>
      /\ rw_cond' \subseteq rw_cond /\ Goto(t, "idle")
  BY DEF UnlockR, mainVars, Signal
<1>2. /\ PendingExact' /\ Count({"r_held"})' = Count({"r_held"}) - 1
      /\ Count({"r_held"}) > 0 /\ Count({"r_held"}) \in Nat
  BY <1>1, <1>t, CountChange, StatesDisjoint DEF PendingExact
<1>3. cache_r_lock > 0 /\ cache_r_lock' = cache_r_lock - 1 /\ ~cache_w_lock
  BY <1>2, <1>t DEF HoldersCounted, UnlockR
<1>4. TypeOK'
  <2>1. pc' \in [Threads -> ThreadStates]
    BY <1>1, <1>t DEF Goto, ThreadStates
  <2>2. cache_r_lock' \in Nat
    BY <1>3, <1>t
  <2> QED BY <1>1, <2>1, <2>2 DEF TypeOK
<1>5. HoldersCounted'
  <2>1. ~MainWriting /\ \A u \in Threads : ~Writing(u)
    BY <1>3 DEF HoldersCounted
  <2>2. ~MainWriting' /\ ~cache_w_lock' /\ \A u \in Threads : ~Writing(u)'
    BY <2>1, <1>1, <1>3, <1>o, StatesDisjoint DEF Writing, MainWriting
  <2>3. (Count({"r_held"}) + (IF MainReading THEN 1 ELSE 0) <= cache_r_lock)'
    BY <1>1, <1>2, <1>3, <1>t DEF HoldersCounted, MainReading
  <2> QED BY <2>2, <2>3 DEF HoldersCounted
<1>6. SleepersWait'
  BY <1>1, <1>o, <1>t DEF SleepersWait, TypeOK, WriteWaiting, ReadWaiting
<1>7. ReadersNotStranded'
  BY <1>1, <1>o, <1>t DEF ReadersNotStranded
<1>8. NoLostWakeup'
  <2> SUFFICES ASSUME exitpc = "run", cache_r_lock' = 0, r_cond' \cup rw_cond' # {}
               PROVE  \E u \in Threads : Woken(u)'
    BY <1>1, <1>4 DEF NoLostWakeup, Busy, TypeOK
  <2>1. CASE rw_cond # {}
    <3>1. PICK u \in rw_cond : rw_cond' = rw_cond \ {u}
      BY <2>1 DEF UnlockR, Signal
    <3>2. u \in Threads /\ u # t /\ pc[u] \in WriteWaiting \ {"e_expired"} /\ u \notin r_cond
      BY <3>1, <1>t, StatesDisjoint DEF SleepersWait, TypeOK, WriteWaiting
    <3> QED BY <3>1, <3>2, <1>1, <1>o DEF Woken
  <2>2. CASE rw_cond = {}
    <3>1. PICK u \in Threads : pc[u] \in {"w_wait", "y_wait"}
      BY <2>2, <1>1, <1>3 DEF ReadersNotStranded
    <3>2. u \notin r_cond' /\ u \notin rw_cond' /\ u # t
      BY <3>1, <2>2, <1>1, <1>t DEF SleepersWait, ReadWaiting
    <3> QED BY <3>1, <3>2, <1>o DEF Woken, WriteWaiting
  <2> QED BY <2>1, <2>2
<1> QED BY <1>2, <1>4, <1>5, <1>6, <1>7, <1>8

(* unlock_cache_rw and the first half of a yield. *)
LEMMA WriterLeaves ==
    ASSUME LockInv, NEW t \in Threads, NEW s \in {"idle", "y_sleep"},
           Writing(t), ReleaseWrite(t, s)
    PROVE  LockInv'
<1> USE DEF LockInv
<1>t. /\ pc \in [Threads -> ThreadStates] /\ pc[t] \in WriteHolding
      /\ cache_r_lock = 0 /\ r_pend \in Nat /\ rw_pend \in Nat
  BY DEF TypeOK, Writing, HoldersCounted
<1>o. pc'[t] = s /\ \A u \in Threads : u # t => pc'[u] = pc[u]
  BY <1>t DEF ReleaseWrite, Goto
<1>1. /\ UNCHANGED <<cache_r_lock, r_pend, rw_pend, exitpc, tries>>
      /\ cache_w_lock' = FALSE /\ r_susp' = FALSE /\ Goto(t, s)
      /\ rw_cond' \subseteq rw_cond /\ r_cond' \subseteq r_cond
  BY DEF ReleaseWrite, mainVars, Signal, Broadcast
<1>d. /\ s \notin WriteHolding /\ s \notin ReadWaiting /\ s \notin WriteWaiting /\ s # "r_held"
      /\ pc[t] \notin ReadWaiting /\ pc[t] \notin WriteWaiting /\ pc[t] # "r_held"
  BY <1>t, StatesDisjoint
<1>2. PendingExact' /\ Count({"r_held"})' = Count({"r_held"})
  BY <1>1, <1>t, <1>d, CountChange DEF PendingExact
<1>3. TypeOK'
  <2>1. pc' \in [Threads -> ThreadStates]
    BY <1>1, <1>t DEF Goto, ThreadStates
  <2> QED BY <1>1, <2>1 DEF TypeOK
<1>4. HoldersCounted'
  <2>1. ~MainWriting /\ \A u \in Threads : Writing(u) => u = t
    BY DEF HoldersCounted
  <2>2. ~MainWriting' /\ \A u \in Threads : ~Writing(u)'
    BY <2>1, <1>1, <1>o, <1>d DEF Writing, MainWriting
  <2> QED BY <2>2, <1>1, <1>2 DEF HoldersCounted, MainReading
<1>5. SleepersWait'
  <2>1. t \notin r_cond /\ t \notin rw_cond
    BY <1>d DEF SleepersWait
  <2> QED BY <2>1, <1>1, <1>o DEF SleepersWait, TypeOK
<1>7. r_cond' # {} => r_pend # 0 /\ rw_pend > SUSP_THRESH(r_pend)
  <2>1. r_cond # {} => r_pend # 0
    <3> SUFFICES ASSUME NEW u \in r_cond PROVE r_pend # 0
      OBVIOUS
    <3>1. u \in Threads /\ pc[u] \in ReadWaiting
      BY DEF SleepersWait, TypeOK
    <3> QED BY <3>1, <1>t, CountWitness DEF PendingExact
  <2> QED BY <2>1, <1>1 DEF ReleaseWrite, Broadcast
<1>8. r_cond' # {} => \E u \in Threads : pc[u] \in {"w_wait", "y_wait"} /\ u # t
  BY <1>7, <1>t, <1>d, PatientWriter DEF WriteWaiting
<1>9. ReadersNotStranded'
  BY <1>1, <1>8, <1>o DEF ReadersNotStranded
<1>10. NoLostWakeup'
  <2> SUFFICES ASSUME r_cond' \cup rw_cond' # {} PROVE \E u \in Threads : Woken(u)'
    BY DEF NoLostWakeup
  <2>1. CASE r_pend = 0 \/ rw_pend > SUSP_THRESH(r_pend)
    <3>1. CASE rw_cond # {}
      <4>1. PICK u \in rw_cond : rw_cond' = rw_cond \ {u}
        BY <2>1, <3>1 DEF ReleaseWrite, Signal
      <4>2. u \in Threads /\ u # t /\ pc[u] \in WriteWaiting \ {"e_expired"} /\ u \notin r_cond
        BY <4>1, <1>d, StatesDisjoint DEF SleepersWait, TypeOK
      <4> QED BY <4>1, <4>2, <1>1, <1>o DEF Woken
    <3>2. CASE rw_cond = {}
      <4>1. PICK u \in Threads : pc[u] \in {"w_wait", "y_wait"} /\ u # t
        BY <3>2, <1>1, <1>8
      <4>2. u \notin r_cond' /\ u \notin rw_cond'
        BY <4>1, <3>2, <1>1 DEF SleepersWait, ReadWaiting
      <4> QED BY <4>1, <4>2, <1>o DEF Woken, WriteWaiting
    <3> QED BY <3>1, <3>2
  <2>2. CASE ~(r_pend = 0 \/ rw_pend > SUSP_THRESH(r_pend))
    <3>1. PICK u \in Threads : pc[u] \in ReadWaiting
      BY <2>2, <1>t, CountWitness DEF PendingExact
    <3>2. u # t /\ u \notin rw_cond' /\ r_cond' = {}
      BY <3>1, <2>2, <1>1, <1>d, StatesDisjoint DEF SleepersWait, ReleaseWrite, Broadcast
    <3>3. rw_pend' <= SUSP_THRESH(r_pend')
      BY <2>2, <1>1, <1>t DEF SUSP_THRESH
    <3> QED BY <3>1, <3>2, <3>3, <1>1, <1>o DEF Woken, SUSP_THRESH
  <2> QED BY <2>1, <2>2
<1> QED BY <1>2, <1>3, <1>4, <1>5, <1>9, <1>10

(* A timed wait that expires, and the thread giving up. *)
LEMMA TimedOut ==
    ASSUME LockInv, NEW t \in Threads, Timeout(t)
    PROVE  LockInv'
<1> USE DEF LockInv
<1>t. pc \in [Threads -> ThreadStates] /\ rw_pend \in Nat
  BY DEF TypeOK
<1>1. CASE Expire(t)
  <2>1. /\ UNCHANGED <<cache_w_lock, cache_r_lock, r_pend, rw_pend, r_susp, r_cond, exitpc, tries>>
        /\ rw_cond' = rw_cond \ {t} /\ Goto(t, "e_expired") /\ pc[t] = "e_wait" /\ t \in rw_cond
    BY <1>1 DEF Expire, mainVars, lockVars
  <2>2. pc'[t] = "e_expired" /\ \A u \in Threads : u # t => pc'[u] = pc[u]
    BY <2>1, <1>t DEF Goto
  <2>3. TypeOK'
    <3>1. pc' \in [Threads -> ThreadStates]
      BY <2>1, <1>t DEF Goto, ThreadStates, WriteWaiting
    <3> QED BY <2>1, <3>1 DEF TypeOK
  <2>4. PendingExact' /\ Count({"r_held"})' = Count({"r_held"})
    BY <2>1, <1>t, CountChange DEF PendingExact, WriteWaiting, ReadWaiting
  <2>5. HoldersCounted'
    BY <2>1, <2>2, <2>4 DEF HoldersCounted, Writing, MainWriting, MainReading, WriteHolding
  <2>6. SleepersWait'
    BY <2>1, <2>2 DEF SleepersWait, TypeOK, WriteWaiting, ReadWaiting
  <2>7. ReadersNotStranded'
    BY <2>1, <2>2 DEF ReadersNotStranded
  <2>8. NoLostWakeup'
    <3> SUFFICES ASSUME exitpc = "run", ~Busy PROVE \E u \in Threads : Woken(u)'
      BY <2>1 DEF NoLostWakeup, Busy
    <3>1. PICK u \in Threads : Woken(u)
      BY <2>1 DEF NoLostWakeup
    <3>2. u # t
      BY <3>1, <2>1 DEF Woken
    <3> QED BY <3>1, <3>2, <2>1, <2>2 DEF Woken, SUSP_THRESH
  <2> QED BY <2>3, <2>4, <2>5, <2>6, <2>7, <2>8
<1>2. CASE GiveUp(t)
  <2>1. /\ UNCHANGED <<cache_w_lock, cache_r_lock, r_pend, r_susp, r_cond, rw_cond, exitpc, tries>>
        /\ rw_pend' = rw_pend - 1 /\ Goto(t, "idle") /\ pc[t] = "e_expired"
    BY <1>2 DEF GiveUp, mainVars, condVars
  <2>2. pc'[t] = "idle" /\ \A u \in Threads : u # t => pc'[u] = pc[u]
    BY <2>1, <1>t DEF Goto
  <2>3. /\ PendingExact' /\ Count({"r_held"})' = Count({"r_held"}) /\ rw_pend > 0
    BY <2>1, <1>t, CountChange DEF PendingExact, WriteWaiting, ReadWaiting
  <2>4. TypeOK'
    <3>1. pc' \in [Threads -> ThreadStates]
      BY <2>1, <1>t DEF Goto, ThreadStates
    <3>2. rw_pend' \in Nat
      BY <2>1, <2>3, <1>t
    <3> QED BY <2>1, <3>1, <3>2 DEF TypeOK
  <2>5. HoldersCounted'
    BY <2>1, <2>2, <2>3 DEF HoldersCounted, Writing, MainWriting, MainReading, WriteHolding
  <2>6. SleepersWait'
    BY <2>1, <2>2 DEF SleepersWait, TypeOK, WriteWaiting, ReadWaiting
  <2>7. ReadersNotStranded'
    BY <2>1, <2>2 DEF ReadersNotStranded
  <2>8. NoLostWakeup'
    <3> SUFFICES ASSUME exitpc = "run", ~Busy, r_cond \cup rw_cond # {}
                 PROVE  \E u \in Threads : Woken(u)'
      BY <2>1 DEF NoLostWakeup, Busy
    <3>1. PICK u \in Threads : Woken(u)
      BY <2>1 DEF NoLostWakeup
    <3>2. u # t
      BY <3>1, <2>1 DEF Woken, ReadWaiting
    <3>3. rw_pend <= SUSP_THRESH(r_pend) => rw_pend' <= SUSP_THRESH(r_pend')
      BY <2>1, <1>t DEF SUSP_THRESH, TypeOK
    <3> QED BY <3>1, <3>2, <3>3, <2>1, <2>2 DEF Woken
  <2> QED BY <2>3, <2>4, <2>5, <2>6, <2>7, <2>8
<1> QED BY <1>1, <1>2 DEF Timeout

(* The unlocked reads of yield_lock_cache_rw, and spurious wakeups. *)
LEMMA QuietSteps ==
    ASSUME LockInv, NEW t \in Threads,
           YieldReadR(t) \/ YieldReadRW(t) \/ SpuriousWakeup(t)
    PROVE  LockInv'
<1> USE DEF LockInv
<1>t. pc \in [Threads -> ThreadStates]
  BY DEF TypeOK
<1>1. CASE YieldReadR(t) \/ YieldReadRW(t)
  <2>1. PICK s \in WriteHolding : Goto(t, s)
    BY <1>1 DEF YieldReadR, YieldReadRW, WriteHolding
  <2>2. /\ UNCHANGED <<cache_w_lock, cache_r_lock, r_pend, rw_pend, r_susp, exitpc, tries>>
        /\ UNCHANGED <<r_cond, rw_cond>> /\ pc[t] \in WriteHolding
    BY <1>1 DEF YieldReadR, YieldReadRW, lockVars, condVars, mainVars, WriteHolding
  <2>3. pc'[t] = s /\ \A u \in Threads : u # t => pc'[u] = pc[u]
    BY <2>1, <1>t DEF Goto
  <2>d. /\ s \notin ReadWaiting /\ s \notin WriteWaiting /\ s # "r_held"
        /\ pc[t] \notin ReadWaiting /\ pc[t] \notin WriteWaiting /\ pc[t] # "r_held"
    BY <2>2, StatesDisjoint
  <2>4. TypeOK'
    <3>1. pc' \in [Threads -> ThreadStates]
      BY <2>1, <1>t DEF Goto, ThreadStates
    <3> QED BY <2>2, <3>1 DEF TypeOK
  <2>5. PendingExact' /\ Count({"r_held"})' = Count({"r_held"})
    BY <2>1, <2>2, <2>d, <1>t, CountChange DEF PendingExact
  <2>6. HoldersCounted'
    <3>1. \A u \in Threads : Writing(u)' <=> Writing(u)
      BY <2>1, <2>2, <2>3 DEF Writing
    <3> QED BY <3>1, <2>2, <2>5 DEF HoldersCounted, MainWriting, MainReading
  <2>7. SleepersWait'
    <3>1. t \notin r_cond /\ t \notin rw_cond
      BY <2>d DEF SleepersWait
    <3> QED BY <3>1, <2>2, <2>3, <2>d DEF SleepersWait, TypeOK, WriteWaiting
  <2>8. ReadersNotStranded'
    BY <2>2, <2>3, <2>d DEF ReadersNotStranded, WriteWaiting
  <2>9. NoLostWakeup'
    BY <2>2 DEF NoLostWakeup, Busy, HoldersCounted, Writing
  <2> QED BY <2>4, <2>5, <2>6, <2>7, <2>8, <2>9
<1>2. CASE SpuriousWakeup(t)
  <2>1. /\ UNCHANGED <<cache_w_lock, cache_r_lock, r_pend, rw_pend, r_susp, pc, exitpc, tries>>
        /\ r_cond' \subseteq r_cond /\ rw_cond' \subseteq rw_cond
    BY <1>2 DEF SpuriousWakeup, lockVars, mainVars
  <2>2. TypeOK' /\ SleepersWait'
    BY <2>1 DEF TypeOK, SleepersWait
  <2>3. PendingExact' /\ HoldersCounted'
    BY <2>1 DEF PendingExact, HoldersCounted, Count, Writing, MainWriting, MainReading
  <2>4. ReadersNotStranded'
    BY <2>1 DEF ReadersNotStranded
  <2>5. NoLostWakeup'
    <3> SUFFICES ASSUME exitpc = "run", ~Busy, r_cond \cup rw_cond # {}
                 PROVE  \E u \in Threads : Woken(u)'
      BY <2>1 DEF NoLostWakeup, Busy
    <3>1. PICK u \in Threads : Woken(u)
      BY DEF NoLostWakeup
    <3> QED BY <3>1, <2>1 DEF Woken, SUSP_THRESH
  <2> QED BY <2>2, <2>3, <2>4, <2>5
<1> QED BY <1>1, <1>2

(* The main thread's steps touch only the holder counts and its own state. *)
LEMMA ExitPath ==
    ASSUME LockInv, Main
    PROVE  LockInv'
<1> USE DEF LockInv
<1>1. /\ UNCHANGED <<r_pend, rw_pend, r_susp, r_cond, rw_cond, pc>>
      /\ exitpc' \in ExitStates \ {"run"}
  BY DEF Main, ExitSignal, WriteDiskCache, DestroyCache, Exit, SoftLockRW, SoftTry,
         SoftMutexFail, SoftUnlockRW, SoftLockR, SoftUnlockR, lockVars, condVars, ExitStates,
         TypeOK
<1>2. tries' \in 0 .. MaxTries - 1
  BY MaxTriesPositive
  DEF Main, ExitSignal, WriteDiskCache, DestroyCache, Exit, SoftLockRW, SoftTry,
      SoftMutexFail, SoftUnlockRW, SoftLockR, SoftUnlockR, TypeOK
<1>3. Count({"r_held"})' = Count({"r_held"}) /\ Count({"r_held"}) \in Nat
  BY <1>1, CountWitness DEF Count
<1>4. PendingExact' /\ SleepersWait' /\ ReadersNotStranded' /\ NoLostWakeup'
  BY <1>1 DEF PendingExact, Count, SleepersWait, ReadersNotStranded, NoLostWakeup
<1>5. \A t \in Threads : Writing(t)' <=> Writing(t)
  BY <1>1 DEF Writing
<1>6. cache_w_lock' \in BOOLEAN /\ cache_r_lock' \in Nat /\ HoldersCounted'
  <2>1. CASE ExitSignal
    BY <2>1, <1>3, <1>5
    DEF ExitSignal, lockVars, HoldersCounted, TypeOK, MainWriting, MainReading
  <2>2. ASSUME NEW from, NEW held \in {"purge", "destroy"}, SoftLockRW(from, held)
        PROVE  cache_w_lock' \in BOOLEAN /\ cache_r_lock' \in Nat /\ HoldersCounted'
    <3>1. /\ cache_w_lock' = TRUE /\ cache_r_lock' = cache_r_lock /\ exitpc' = held /\ ~Busy
      BY <2>2 DEF SoftLockRW
    <3>2. cache_r_lock = 0 /\ \A t \in Threads : ~Writing(t)
      BY <3>1 DEF Busy, HoldersCounted, TypeOK
    <3>3. ~MainReading'
      BY <3>1 DEF MainReading
    <3>4. Count({"r_held"}) <= cache_r_lock
      BY <1>3, <3>2 DEF HoldersCounted
    <3> QED BY <3>1, <3>2, <3>3, <3>4, <1>3, <1>5 DEF HoldersCounted, TypeOK
  <2>3. ASSUME UNCHANGED <<cache_w_lock, cache_r_lock>>, ~MainReading', ~MainWriting'
        PROVE  cache_w_lock' \in BOOLEAN /\ cache_r_lock' \in Nat /\ HoldersCounted'
    <3>1. Count({"r_held"}) <= cache_r_lock
      BY <1>3 DEF HoldersCounted, TypeOK
    <3> QED BY <2>3, <3>1, <1>3, <1>5 DEF HoldersCounted, TypeOK
  <2>4. ASSUME NEW from \in {"purge_lock", "write_lock", "destroy_lock"}, NEW busy,
               NEW fail \in {"destroy_lock", "dead"}, SoftTry(from, busy, fail)
        PROVE  cache_w_lock' \in BOOLEAN /\ cache_r_lock' \in Nat /\ HoldersCounted'
    BY <2>3, <2>4 DEF SoftTry, lockVars, MainReading, MainWriting
  <2>5. ASSUME NEW from, NEW fail \in {"destroy_lock", "dead"}, SoftMutexFail(from, fail)
        PROVE  cache_w_lock' \in BOOLEAN /\ cache_r_lock' \in Nat /\ HoldersCounted'
    BY <2>3, <2>5 DEF SoftMutexFail, lockVars, MainReading, MainWriting
  <2>6. CASE SoftUnlockRW
    <3>1. cache_w_lock' = FALSE /\ cache_r_lock' = cache_r_lock /\ exitpc = "purge"
          /\ exitpc' = "write_lock"
      BY <2>6 DEF SoftUnlockRW
    <3>2. \A t \in Threads : ~Writing(t)
      BY <3>1 DEF HoldersCounted, MainWriting
    <3> QED BY <3>1, <3>2, <1>3, <1>5 DEF HoldersCounted, TypeOK, MainReading, MainWriting
  <2>7. CASE SoftLockR
    <3>1. cache_w_lock' = cache_w_lock /\ ~cache_w_lock /\ cache_r_lock' = cache_r_lock + 1
          /\ exitpc' = "write" /\ exitpc = "write_lock"
      BY <2>7 DEF SoftLockR
    <3>2. \A t \in Threads : ~Writing(t)
      BY <3>1 DEF HoldersCounted
    <3>3. Count({"r_held"}) + 1 <= cache_r_lock' /\ cache_r_lock' \in Nat
      BY <3>1, <1>3 DEF HoldersCounted, TypeOK, MainReading
    <3> QED BY <3>1, <3>2, <3>3, <1>3, <1>5 DEF HoldersCounted, TypeOK, MainReading, MainWriting
  <2>8. CASE SoftUnlockR
    <3>1. cache_w_lock' = cache_w_lock /\ exitpc = "write" /\ exitpc' = "destroy_lock"
          /\ cache_r_lock' = IF cache_r_lock > 0 THEN cache_r_lock - 1 ELSE cache_r_lock
      BY <2>8 DEF SoftUnlockR
    <3>2. cache_r_lock > 0 /\ Count({"r_held"}) <= cache_r_lock - 1 /\ cache_r_lock \in Nat
      BY <3>1, <1>3 DEF HoldersCounted, MainReading, TypeOK
    <3>3. cache_r_lock' = cache_r_lock - 1
      BY <3>1, <3>2
    <3>4. ~cache_w_lock /\ \A t \in Threads : ~Writing(t)
      BY <3>2 DEF HoldersCounted
    <3> QED BY <3>1, <3>2, <3>3, <3>4, <1>3, <1>5
            DEF HoldersCounted, TypeOK, MainReading, MainWriting
  <2>9. CASE Exit
    BY <2>9, <2>3 DEF Exit, lockVars, MainReading, MainWriting
  <2> QED BY <2>1, <2>2, <2>4, <2>5, <2>6, <2>7, <2>8, <2>9
          DEF Main, WriteDiskCache, DestroyCache
<1>7. TypeOK'
  BY <1>1, <1>2, <1>6 DEF TypeOK
<1> QED BY <1>4, <1>6, <1>7

(***************************************************************************)
(* The counters, holders, sleepers and wakeups of the lock agree, in every *)
(* reachable state and for any number of threads (cache.c:235-365).        *)
(***************************************************************************)
THEOREM LockInvariance == Spec => []LockInv
<1>1. Init => LockInv
  <2> SUFFICES ASSUME Init PROVE LockInv
    OBVIOUS
  <2>1. TypeOK
    <3>1. cache_w_lock \in BOOLEAN /\ r_susp \in BOOLEAN
      BY DEF Init
    <3>2. tries \in 0 .. MaxTries - 1
      BY MaxTriesPositive DEF Init
    <3> QED BY <3>1, <3>2 DEF Init, TypeOK, ThreadStates, ExitStates
  <2>2. \A t \in Threads : pc[t] = "idle"
    BY DEF Init
  <2>3. Count(ReadWaiting) = 0 /\ Count(WriteWaiting) = 0 /\ Count({"r_held"}) = 0
    BY <2>2, CountWitness DEF ReadWaiting, WriteWaiting
  <2>4. PendingExact /\ HoldersCounted
    BY <2>2, <2>3 DEF Init, PendingExact, HoldersCounted, Writing, MainWriting, MainReading,
                      WriteHolding
  <2>5. SleepersWait /\ ReadersNotStranded /\ NoLostWakeup
    BY <2>2 DEF Init, SleepersWait, ReadersNotStranded, NoLostWakeup
  <2> QED BY <2>1, <2>4, <2>5 DEF LockInv
<1>2. LockInv /\ [Next]_vars => LockInv'
  <2> SUFFICES ASSUME LockInv, [Next]_vars PROVE LockInv'
    OBVIOUS
  <2>1. ASSUME NEW t \in Threads, LockR(t) \/ RetryR(t) PROVE LockInv'
    BY <2>1, ReadLoop DEF LockR, RetryR
  <2>2. ASSUME NEW t \in Threads,
               LockRW(t) \/ RetryRW(t) \/ TimedLockRW(t) \/ RetryTimed(t)
                 \/ YieldRelock(t) \/ YieldRetry(t)
        PROVE  LockInv'
    <3>1. pc[t] = "e_wait" => t \in Emptiers
      BY DEF LockInv, SleepersWait
    <3>2. CASE LockRW(t) \/ RetryRW(t)
      BY <3>2, WriteLoop DEF LockRW, RetryRW
    <3>3. CASE TimedLockRW(t) \/ RetryTimed(t)
      BY <3>1, <3>3, WriteLoop DEF TimedLockRW, RetryTimed
    <3>4. CASE YieldRelock(t) \/ YieldRetry(t)
      BY <3>4, WriteLoop DEF YieldRelock, YieldRetry
    <3> QED BY <2>2, <3>2, <3>3, <3>4
  <2>3. ASSUME NEW t \in Threads, UnlockRW(t) \/ YieldGive(t) PROVE LockInv'
    BY <2>3, WriterLeaves DEF UnlockRW, YieldGive, Writing, WriteHolding
  <2>4. CASE UNCHANGED vars
    BY <2>4 DEF LockInv, vars, lockVars, condVars, mainVars, TypeOK, PendingExact, Count,
                HoldersCounted, Writing, MainWriting, MainReading, SleepersWait,
                ReadersNotStranded, NoLostWakeup, Busy, Woken, SUSP_THRESH
  <2> QED BY <2>1, <2>2, <2>3, <2>4, ReaderLeaves, TimedOut, QuietSteps, ExitPath
          DEF Next, Step, Arrive, Release, Retry, Yield
<1> QED BY <1>1, <1>2, PTL DEF Spec

(***************************************************************************)
(* A writer of the cache is alone with it, for any number of threads       *)
(* (cache.c:263-268).                                                      *)
(***************************************************************************)
THEOREM MutualExclusionHolds == Spec => []MutualExclusion
<1>1. LockInv => MutualExclusion
  <2> SUFFICES ASSUME LockInv PROVE MutualExclusion
    OBVIOUS
  <2>1. ASSUME cache_w_lock PROVE ~MainReading /\ \A t \in Threads : ~Reading(t)
    <3>1. Count({"r_held"}) \in Nat /\ cache_r_lock = 0
      BY <2>1, CountWitness DEF LockInv, HoldersCounted
    <3>2. Count({"r_held"}) = 0 /\ ~MainReading
      BY <3>1 DEF LockInv, HoldersCounted
    <3> QED BY <3>2, CountWitness DEF Reading
  <2> QED BY <2>1 DEF LockInv, HoldersCounted, MutualExclusion
<1> QED BY <1>1, LockInvariance, PTL

(***************************************************************************)
(* No wakeup is lost and no reader is suspended for good, for any number   *)
(* of threads of which at most two can time out (cache.c:241, 311-325).    *)
(***************************************************************************)
THEOREM WakeupsHold == Spec => []NoLostWakeup /\ []ReadersNotStranded
<1>1. LockInv => NoLostWakeup /\ ReadersNotStranded
  BY DEF LockInv
<1> QED BY <1>1, LockInvariance, PTL

(***************************************************************************)
(* While readers are suspended none gets in, and only the end of a write   *)
(* lifts the suspension (cache.c:180-187, 317-318).                        *)
(***************************************************************************)
THEOREM SuspensionRespected == Spec => SuspensionHolds
<1> DEFINE Held == exitpc = "run" /\ r_susp
                     => /\ cache_r_lock' <= cache_r_lock
                        /\ ~r_susp' => cache_w_lock /\ ~cache_w_lock'
<1>1. LockInv /\ [Next]_vars => Held
  <2> SUFFICES ASSUME LockInv, [Next]_vars, exitpc = "run", r_susp PROVE Held
    OBVIOUS
  <2>t. cache_r_lock \in Nat
    BY DEF LockInv, TypeOK
  <2>k. ASSUME cache_r_lock' = cache_r_lock, r_susp' = r_susp PROVE Held
    <3>1. cache_r_lock' <= cache_r_lock
      BY <2>k, <2>t
    <3>2. r_susp'
      BY <2>k
    <3> QED BY <3>1, <3>2
  <2>1. ASSUME NEW t, NEW rp, TryRead(t, rp) PROVE Held
    <3>1. cache_r_lock' = cache_r_lock
      BY <2>1 DEF TryRead
    <3>2. r_susp'
      BY <2>1 DEF TryRead
    <3>3. cache_r_lock' <= cache_r_lock
      BY <3>1, <2>t
    <3> QED BY <3>2, <3>3
  <2>2. ASSUME NEW t, NEW wp, NEW w, NEW h, TryWrite(t, wp, w, h) PROVE Held
    BY <2>2, <2>t DEF TryWrite
  <2>3. ASSUME NEW t \in Threads, NEW s, Writing(t), ReleaseWrite(t, s) PROVE Held
    BY <2>3, <2>t DEF ReleaseWrite, LockInv, HoldersCounted
  <2>4. ASSUME NEW t \in Threads, UnlockR(t) PROVE Held
    BY <2>4, <2>t DEF UnlockR
  <2>5. ASSUME NEW t \in Threads, Timeout(t) PROVE Held
    BY <2>5, <2>k DEF Timeout, Expire, GiveUp, lockVars
  <2>6. ASSUME NEW t \in Threads, YieldReadR(t) \/ YieldReadRW(t) \/ SpuriousWakeup(t)
        PROVE  Held
    BY <2>6, <2>k DEF YieldReadR, YieldReadRW, SpuriousWakeup, lockVars
  <2>7. CASE Main
    <3>1. ExitSignal
      BY <2>7 DEF Main, ExitSignal, WriteDiskCache, DestroyCache, Exit, SoftLockRW, SoftTry,
                  SoftMutexFail, SoftUnlockRW, SoftLockR, SoftUnlockR
    <3> QED BY <3>1, <2>t DEF ExitSignal, lockVars
  <2>8. CASE UNCHANGED vars
    BY <2>8, <2>t DEF vars, lockVars
  <2>9. ASSUME NEW t \in Threads, UnlockRW(t) \/ YieldGive(t) PROVE Held
    BY <2>9, <2>3 DEF UnlockRW, YieldGive, Writing, WriteHolding
  <2>10. ASSUME NEW t \in Threads, Step(t) PROVE Held
    <3>1. CASE LockR(t) \/ RetryR(t)
      BY <3>1, <2>1 DEF LockR, RetryR
    <3>2. CASE LockRW(t) \/ RetryRW(t) \/ TimedLockRW(t) \/ RetryTimed(t)
      BY <3>2, <2>2 DEF LockRW, RetryRW, TimedLockRW, RetryTimed
    <3>3. CASE YieldRelock(t) \/ YieldRetry(t)
      BY <3>3, <2>2 DEF YieldRelock, YieldRetry
    <3> HIDE DEF Held
    <3> QED BY <3>1, <3>2, <3>3, <2>4, <2>5, <2>6, <2>9, <2>10
            DEF Step, Arrive, Release, Retry, Yield
  <2> HIDE DEF Held
  <2> QED BY <2>7, <2>8, <2>10 DEF Next
<1>2. LockInv /\ [Next]_vars => [Held]_vars
  BY <1>1
<1> QED BY <1>2, LockInvariance, PTL DEF Spec, SuspensionHolds

(***************************************************************************)
(* How a thread's move shows in the abstract lock: it enters or leaves as  *)
(* a reader or a writer, or the step is invisible.                         *)
(***************************************************************************)
LEMMA ThreadMove ==
    ASSUME pc \in [Threads -> ThreadStates], NEW t \in Threads, NEW s, Goto(t, s),
           exitpc' = exitpc
    PROVE  /\ ReaderSet' = IF s = "r_held" THEN ReaderSet \cup {t} ELSE ReaderSet \ {t}
           /\ WriterSet' = IF s \in WriteHolding THEN WriterSet \cup {t} ELSE WriterSet \ {t}
           /\ t \in ReaderSet <=> pc[t] = "r_held"
           /\ t \in WriterSet <=> pc[t] \in WriteHolding
<1>1. pc'[t] = s /\ \A u \in Threads : u # t => pc'[u] = pc[u]
  BY DEF Goto
<1>2. t # "main"
  BY MainIsNoThread
<1> QED BY <1>1, <1>2 DEF ReaderSet, WriterSet, Reading, Writing, MainReading, MainWriting

(* A free lock has no holder; a writer is the only holder. *)
LEMMA HoldersInv ==
    ASSUME LockInv
    PROVE  /\ ~Busy => ReaderSet = {} /\ WriterSet = {}
           /\ ~cache_w_lock => WriterSet = {}
           /\ \A p \in WriterSet : WriterSet = {p}
<1>1. cache_r_lock \in Nat /\ Count({"r_held"}) \in Nat
  BY CountWitness DEF LockInv, TypeOK
<1>2. cache_r_lock = 0 => ReaderSet = {}
  <2> SUFFICES ASSUME cache_r_lock = 0 PROVE ReaderSet = {}
    OBVIOUS
  <2>1. Count({"r_held"}) = 0 /\ ~MainReading
    BY <1>1 DEF LockInv, HoldersCounted
  <2> QED BY <2>1, CountWitness DEF ReaderSet, Reading
<1>3. ~cache_w_lock => WriterSet = {}
  BY DEF LockInv, HoldersCounted, WriterSet
<1>4. \A p \in WriterSet : WriterSet = {p}
  BY DEF LockInv, HoldersCounted, WriterSet
<1>5. ~Busy => ~cache_w_lock /\ cache_r_lock = 0
  BY <1>1 DEF Busy
<1> QED BY <1>2, <1>3, <1>4, <1>5

(***************************************************************************)
(* The lock of cache.c implements a reader/writer lock, for any number of  *)
(* threads and whatever the main thread does on exit (cache.c:226-441).    *)
(***************************************************************************)
THEOREM LockImplementsRWLock == Spec => ImplementsRWLock
<1>1. Init => AbstractLock!Init
  BY DEF Init, AbstractLock!Init, ReaderSet, WriterSet, Reading, Writing, MainReading,
         MainWriting, WriteHolding
<1>2. LockInv /\ [Next]_vars => [AbstractLock!Next]_(AbstractLock!vars)
  <2> SUFFICES ASSUME LockInv, [Next]_vars PROVE [AbstractLock!Next]_(AbstractLock!vars)
    OBVIOUS
  <2> USE DEF AbstractLock!vars
  <2>t. pc \in [Threads -> ThreadStates]
    BY DEF LockInv, TypeOK
  <2>q. ASSUME ReaderSet' = ReaderSet, WriterSet' = WriterSet
        PROVE  [AbstractLock!Next]_(AbstractLock!vars)
    BY <2>q
  <2>1. ASSUME NEW t \in Threads, NEW rp, TryRead(t, rp), pc[t] \in {"idle", "r_wait"}
        PROVE  [AbstractLock!Next]_(AbstractLock!vars)
    <3>1. exitpc' = exitpc
      BY <2>1 DEF TryRead, mainVars
    <3>2. CASE Goto(t, "r_wait")
      BY <3>1, <3>2, <2>t, <2>1, <2>q, ThreadMove, "r_wait" \notin WriteHolding,
         "idle" \notin WriteHolding DEF WriteHolding
    <3>3. CASE Goto(t, "r_held") /\ ~cache_w_lock
      <4>1. /\ ReaderSet' = ReaderSet \cup {t} /\ WriterSet' = WriterSet /\ WriterSet = {}
            /\ t \notin ReaderSet
        BY <3>1, <3>3, <2>t, <2>1, ThreadMove, HoldersInv DEF WriteHolding
      <4>2. AbstractLock!AcquireR(t)
        BY <4>1 DEF AbstractLock!AcquireR
      <4> QED BY <4>2 DEF AbstractLock!Next
    <3> QED BY <2>1, <3>2, <3>3 DEF TryRead
  <2>2. ASSUME NEW t \in Threads, NEW wp, NEW w \in {"w_wait", "e_wait", "y_wait"},
               NEW h \in {"w_held", "e_held"}, TryWrite(t, wp, w, h),
               pc[t] \notin WriteHolding, pc[t] # "r_held"
        PROVE  [AbstractLock!Next]_(AbstractLock!vars)
    <3>1. exitpc' = exitpc
      BY <2>2 DEF TryWrite, mainVars
    <3>2. CASE Goto(t, w)
      BY <3>1, <3>2, <2>t, <2>2, <2>q, ThreadMove DEF WriteHolding
    <3>3. CASE Goto(t, h) /\ ~Busy
      <4>1. /\ ReaderSet' = ReaderSet /\ WriterSet' = {t} /\ WriterSet = {} /\ ReaderSet = {}
        BY <3>1, <3>3, <2>t, <2>2, ThreadMove, HoldersInv DEF WriteHolding
      <4>2. AbstractLock!AcquireW(t)
        BY <4>1 DEF AbstractLock!AcquireW
      <4> QED BY <4>2 DEF AbstractLock!Next
    <3> QED BY <2>2, <3>2, <3>3 DEF TryWrite
  <2>3. ASSUME NEW t \in Threads, NEW s \in {"idle", "y_sleep"}, ReleaseWrite(t, s), Writing(t)
        PROVE  [AbstractLock!Next]_(AbstractLock!vars)
    <3>1. exitpc' = exitpc /\ Goto(t, s)
      BY <2>3 DEF ReleaseWrite, mainVars
    <3>2. /\ WriterSet' = WriterSet \ {t} /\ t \in WriterSet /\ ReaderSet' = ReaderSet
      BY <3>1, <2>t, <2>3, ThreadMove DEF WriteHolding, Writing
    <3>3. AbstractLock!ReleaseW(t)
      BY <3>2 DEF AbstractLock!ReleaseW
    <3> QED BY <3>3 DEF AbstractLock!Next
  <2>4. ASSUME NEW t \in Threads, UnlockR(t)
        PROVE  [AbstractLock!Next]_(AbstractLock!vars)
    <3>1. exitpc' = exitpc /\ Goto(t, "idle") /\ pc[t] = "r_held"
      BY <2>4 DEF UnlockR, mainVars
    <3>2. /\ ReaderSet' = ReaderSet \ {t} /\ t \in ReaderSet /\ WriterSet' = WriterSet
      BY <3>1, <2>t, ThreadMove DEF WriteHolding
    <3>3. AbstractLock!ReleaseR(t)
      BY <3>2 DEF AbstractLock!ReleaseR
    <3> QED BY <3>3 DEF AbstractLock!Next
  <2>5. ASSUME NEW t \in Threads, Timeout(t) \/ YieldReadR(t) \/ YieldReadRW(t)
        PROVE  [AbstractLock!Next]_(AbstractLock!vars)
    <3>1. exitpc' = exitpc
      BY <2>5 DEF Timeout, Expire, GiveUp, YieldReadR, YieldReadRW, mainVars
    <3>2. CASE Timeout(t)
      BY <3>1, <3>2, <2>t, <2>q, ThreadMove DEF Timeout, Expire, GiveUp, WriteHolding
    <3>3. CASE YieldReadR(t) \/ YieldReadRW(t)
      <4>1. PICK s \in WriteHolding : Goto(t, s)
        BY <3>3 DEF YieldReadR, YieldReadRW, WriteHolding
      <4>2. pc[t] \in WriteHolding
        BY <3>3 DEF YieldReadR, YieldReadRW, WriteHolding
      <4> QED BY <4>1, <4>2, <3>1, <2>t, <2>q, ThreadMove, StatesDisjoint, SMTT(30)
    <3> QED BY <2>5, <3>2, <3>3
  <2>6. ASSUME NEW t \in Threads, SpuriousWakeup(t)
        PROVE  [AbstractLock!Next]_(AbstractLock!vars)
    BY <2>6, <2>q DEF SpuriousWakeup, mainVars, ReaderSet, WriterSet, Reading, Writing,
                      MainReading, MainWriting
  <2>7. CASE UNCHANGED vars
    BY <2>7, <2>q DEF vars, mainVars, ReaderSet, WriterSet, Reading, Writing,
                      MainReading, MainWriting
  <2>8. CASE Main
    <3>1. pc' = pc
      BY <2>8 DEF Main, ExitSignal, WriteDiskCache, DestroyCache, Exit, SoftLockRW, SoftTry,
                  SoftMutexFail, SoftUnlockRW, SoftLockR, SoftUnlockR
    <3>2. /\ "main" \in ReaderSet <=> MainReading
          /\ "main" \in WriterSet <=> MainWriting
          /\ ReaderSet' = IF MainReading' THEN ReaderSet \cup {"main"} ELSE ReaderSet \ {"main"}
          /\ WriterSet' = IF MainWriting' THEN WriterSet \cup {"main"} ELSE WriterSet \ {"main"}
      BY <3>1, MainIsNoThread DEF ReaderSet, WriterSet, Reading, Writing
    <3>3. ASSUME MainReading' = MainReading, MainWriting' = MainWriting
          PROVE  [AbstractLock!Next]_(AbstractLock!vars)
      BY <3>2, <3>3, <2>q
    <3>4. ASSUME MainReading' = MainReading, MainWriting, ~MainWriting'
          PROVE  [AbstractLock!Next]_(AbstractLock!vars)
      <4>1. AbstractLock!ReleaseW("main")
        BY <3>2, <3>4 DEF AbstractLock!ReleaseW
      <4> QED BY <4>1 DEF AbstractLock!Next
    <3>5. ASSUME MainReading, ~MainReading', MainWriting' = MainWriting
          PROVE  [AbstractLock!Next]_(AbstractLock!vars)
      <4>1. AbstractLock!ReleaseR("main")
        BY <3>2, <3>5 DEF AbstractLock!ReleaseR
      <4> QED BY <4>1 DEF AbstractLock!Next
    <3>6. ASSUME NEW from \in {"purge_lock", "destroy_lock"}, NEW held \in {"purge", "destroy"},
                 SoftLockRW(from, held)
          PROVE  [AbstractLock!Next]_(AbstractLock!vars)
      <4>1. ~MainReading /\ ~MainReading' /\ MainWriting'
        BY <3>6 DEF SoftLockRW, MainReading, MainWriting
      <4>2. ReaderSet = {} /\ WriterSet = {}
        BY <3>6, HoldersInv DEF SoftLockRW
      <4>3. AbstractLock!AcquireW("main")
        BY <3>2, <4>1, <4>2 DEF AbstractLock!AcquireW
      <4> QED BY <4>3 DEF AbstractLock!Next
    <3>7. CASE SoftLockR
      <4>1. ~MainReading /\ MainReading' /\ ~MainWriting' /\ ~MainWriting
        BY <3>7 DEF SoftLockR, MainReading, MainWriting
      <4>2. WriterSet = {}
        BY <3>7, HoldersInv DEF SoftLockR
      <4>3. AbstractLock!AcquireR("main")
        BY <3>2, <4>1, <4>2 DEF AbstractLock!AcquireR
      <4> QED BY <4>3 DEF AbstractLock!Next
    <3>8. CASE SoftUnlockR \/ SoftMutexFail("write", "destroy_lock")
      BY <3>5, <3>8 DEF SoftUnlockR, SoftMutexFail, MainReading, MainWriting
    <3>9. CASE SoftUnlockRW \/ SoftMutexFail("purge", "destroy_lock") \/ Exit
      BY <3>4, <3>9 DEF SoftUnlockRW, SoftMutexFail, Exit, MainReading, MainWriting
    <3>10. CASE \/ ExitSignal
                \/ \E from \in {"purge_lock", "write_lock", "destroy_lock"},
                      fail \in {"destroy_lock", "dead"} :
                    \/ SoftMutexFail(from, fail)
                    \/ \E busy \in BOOLEAN : SoftTry(from, busy, fail)
      BY <3>3, <3>10 DEF ExitSignal, SoftMutexFail, SoftTry, MainReading, MainWriting
    <3>11. Busy \in BOOLEAN /\ cache_w_lock \in BOOLEAN
      BY DEF Busy, LockInv, TypeOK
    <3> QED BY <2>8, <3>6, <3>7, <3>8, <3>9, <3>10, <3>11 DEF Main, WriteDiskCache, DestroyCache
  <2>9. ASSUME NEW t \in Threads, Step(t) PROVE [AbstractLock!Next]_(AbstractLock!vars)
    <3>1. CASE LockR(t) \/ RetryR(t)
      BY <3>1, <2>1 DEF LockR, RetryR
    <3>2. CASE LockRW(t) \/ RetryRW(t) \/ TimedLockRW(t) \/ RetryTimed(t)
      BY <3>2, <2>2 DEF LockRW, RetryRW, TimedLockRW, RetryTimed, WriteHolding
    <3>3. CASE YieldRelock(t) \/ YieldRetry(t)
      BY <3>3, <2>2 DEF YieldRelock, YieldRetry, WriteHolding
    <3>4. CASE UnlockRW(t) \/ YieldGive(t)
      BY <3>4, <2>3 DEF UnlockRW, YieldGive, Writing, WriteHolding
    <3> QED BY <3>1, <3>2, <3>3, <3>4, <2>4, <2>5, <2>6, <2>9
            DEF Step, Arrive, Release, Retry, Yield
  <2> QED BY <2>7, <2>8, <2>9 DEF Next
<1> QED BY <1>1, <1>2, LockInvariance, PTL DEF Spec, ImplementsRWLock, AbstractLock!Spec
=============================================================================
