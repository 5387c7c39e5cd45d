---------------------------- MODULE GraphLockProof ----------------------------
(***************************************************************************)
(* For any finite set of threads the condition-variable lock keeps readers *)
(* and the writer apart, loses no wake-up, and implements the abstract     *)
(* readers-writer lock.  The parts of IInv need each other: the counter    *)
(* speaks for the threads inside only if it counts them, and it counts     *)
(* them only if a writer is alone.                                         *)
(***************************************************************************)
EXTENDS GraphLock, FiniteSetTheorems, TLAPS

IInv == TypeOK /\ HoldersCounted /\ Exclusion /\ NoLostWakeup

\* At any moment each place holds finitely many threads, a natural number of them.
LEMMA PlacesFinite ==
    \A p : IsFiniteSet(In(p)) /\ Cardinality(In(p)) \in Nat
<1> TAKE p
<1>1. In(p) \subseteq Thread
    BY DEF In
<1>2. IsFiniteSet(In(p))
    BY <1>1, ThreadAssumption, FS_Subset
<1> QED
    BY <1>2, FS_CardinalityType

LEMMA InitIInv == Init => IInv
<1> SUFFICES ASSUME Init PROVE IInv
    OBVIOUS
<1>1. TypeOK
    BY DEF Init, TypeOK, Places
<1>2. In("inShared") = {} /\ In("inExclusive") = {}
    BY DEF Init, In
<1>3. Cardinality({}) = 0
    BY FS_EmptySet
<1>4. HoldersCounted
    BY <1>2, <1>3 DEF Init, HoldersCounted
<1>5. Exclusion
    BY DEF Init, Exclusion
<1>6. NoLostWakeup
    BY DEF Init, NoLostWakeup
<1> QED
    BY <1>1, <1>4, <1>5, <1>6 DEF IInv

LEMMA AskKeepsIInv ==
    ASSUME IInv, NEW t \in Thread, Ask(t) PROVE IInv'
<1> USE DEF IInv
<1>1. PICK want \in {"wantShared", "wantExclusive"} : at' = [at EXCEPT ![t] = want]
    BY DEF Ask
<1>2. TypeOK'
    BY <1>1 DEF Ask, TypeOK, Places
<1>3. In("inShared")' = In("inShared") /\ In("inExclusive")' = In("inExclusive")
    BY <1>1 DEF Ask, TypeOK, In
<1>4. HoldersCounted'
    BY <1>3 DEF Ask, HoldersCounted
<1>5. Exclusion'
    BY <1>1 DEF Ask, Exclusion, TypeOK
<1>6. t \notin waiters
    BY DEF Ask, NoLostWakeup
<1>7. NoLostWakeup'
    BY <1>1, <1>6 DEF Ask, NoLostWakeup, TypeOK
<1> QED
    BY <1>2, <1>4, <1>5, <1>7

LEMMA AcquireSharedKeepsIInv ==
    ASSUME IInv, NEW t \in Thread, AcquireShared(t) PROVE IInv'
<1> USE DEF IInv
<1>1. TypeOK'
    BY DEF AcquireShared, TypeOK, Places
<1>2. /\ In("inShared")' = In("inShared") \cup {t}
      /\ t \notin In("inShared")
      /\ In("inExclusive")' = In("inExclusive")
    BY DEF AcquireShared, TypeOK, In
<1>3. Cardinality(In("inShared")') = Cardinality(In("inShared")) + 1
    BY <1>2, PlacesFinite, FS_AddElement
<1>4. HoldersCounted'
    BY <1>2, <1>3 DEF AcquireShared, HoldersCounted
<1>5. In("inExclusive") = {}
    BY DEF AcquireShared, MayShare, HoldersCounted
<1>6. Exclusion'
    BY <1>2, <1>5 DEF Exclusion, In
<1>7. NoLostWakeup'
    BY DEF AcquireShared, MayShare, NoLostWakeup, TypeOK
<1> QED
    BY <1>1, <1>4, <1>6, <1>7

LEMMA AcquireExclusiveKeepsIInv ==
    ASSUME IInv, NEW t \in Thread, AcquireExclusive(t) PROVE IInv'
<1> USE DEF IInv
<1>1. TypeOK'
    BY DEF AcquireExclusive, TypeOK, Places
<1>2. /\ In("inExclusive")' = In("inExclusive") \cup {t}
      /\ In("inShared")' = In("inShared")
    BY DEF AcquireExclusive, TypeOK, In
<1>3. In("inExclusive") = {} /\ shared = 0
    BY DEF AcquireExclusive, MayExclude, HoldersCounted
<1>4. In("inShared") = {}
    BY <1>3, PlacesFinite, FS_EmptySet DEF HoldersCounted
<1>5. In("inExclusive")' = {t} /\ Cardinality({t}) = 1
    BY <1>2, <1>3, FS_Singleton
<1>6. HoldersCounted'
    BY <1>2, <1>5 DEF AcquireExclusive, HoldersCounted
<1>7. Exclusion'
    BY <1>2, <1>4, <1>5 DEF Exclusion, In
<1>8. NoLostWakeup'
    BY DEF AcquireExclusive, NoLostWakeup, TypeOK
<1> QED
    BY <1>1, <1>6, <1>7, <1>8

LEMMA WaitKeepsIInv ==
    ASSUME IInv, NEW t \in Thread, Wait(t) PROVE IInv'
<1> USE DEF IInv
<1>1. TypeOK'
    BY DEF Wait, TypeOK
<1>2. HoldersCounted' /\ Exclusion'
    BY DEF Wait, HoldersCounted, Exclusion, In
<1>3. NoLostWakeup'
    BY DEF Wait, MayShare, MayExclude, NoLostWakeup, TypeOK
<1> QED
    BY <1>1, <1>2, <1>3

LEMMA ReleaseSharedKeepsIInv ==
    ASSUME IInv, NEW t \in Thread, ReleaseShared(t) PROVE IInv'
<1> USE DEF IInv
<1>1. /\ In("inShared")' = In("inShared") \ {t}
      /\ In("inExclusive")' = In("inExclusive")
    BY DEF ReleaseShared, TypeOK, In
<1>2. t \in In("inShared")
    BY DEF ReleaseShared, In
<1>3. Cardinality(In("inShared") \ {t}) = Cardinality(In("inShared")) - 1
    BY <1>2, PlacesFinite, FS_RemoveElement
<1>4. shared' = Cardinality(In("inShared")')
    BY <1>1, <1>3 DEF ReleaseShared, HoldersCounted
<1>5. IsFiniteSet(In("inShared")')
    BY <1>1, PlacesFinite, FS_RemoveElement
<1>6. shared' \in Nat
    BY <1>4, <1>5, FS_CardinalityType
<1>7. TypeOK'
    BY <1>6 DEF ReleaseShared, TypeOK, Places
<1>8. HoldersCounted'
    BY <1>1, <1>4 DEF ReleaseShared, HoldersCounted
<1>9. Exclusion'
    BY DEF ReleaseShared, Exclusion, TypeOK
<1>10. NoLostWakeup'
    BY <1>6 DEF ReleaseShared, NoLostWakeup, TypeOK
<1> QED
    BY <1>7, <1>8, <1>9, <1>10

LEMMA ReleaseExclusiveKeepsIInv ==
    ASSUME IInv, NEW t \in Thread, ReleaseExclusive(t) PROVE IInv'
<1> USE DEF IInv
<1>1. TypeOK'
    BY DEF ReleaseExclusive, TypeOK, Places
<1>2. /\ In("inExclusive")' = In("inExclusive") \ {t}
      /\ In("inShared")' = In("inShared")
    BY DEF ReleaseExclusive, TypeOK, In
<1>3. In("inExclusive") \subseteq {t}
    BY DEF ReleaseExclusive, Exclusion, In
<1>4. In("inExclusive")' = {} /\ Cardinality({}) = 0
    BY <1>2, <1>3, FS_EmptySet
<1>5. HoldersCounted'
    BY <1>2, <1>4 DEF ReleaseExclusive, HoldersCounted
<1>6. Exclusion'
    BY <1>4 DEF Exclusion, In
<1>7. NoLostWakeup'
    BY DEF ReleaseExclusive, NoLostWakeup
<1> QED
    BY <1>1, <1>5, <1>6, <1>7

LEMMA NextKeepsIInv == IInv /\ [Next]_vars => IInv'
<1> SUFFICES ASSUME IInv, [Next]_vars PROVE IInv'
    OBVIOUS
<1>1. CASE UNCHANGED vars
    BY <1>1 DEF vars, IInv, TypeOK, HoldersCounted, Exclusion, NoLostWakeup, In
<1>2. ASSUME NEW t \in Thread, Ask(t) \/ Step(t) PROVE IInv'
    BY <1>2, AskKeepsIInv, AcquireSharedKeepsIInv, AcquireExclusiveKeepsIInv, WaitKeepsIInv,
       ReleaseSharedKeepsIInv, ReleaseExclusiveKeepsIInv DEF Step
<1> QED
    BY <1>1, <1>2 DEF Next

\* Every reachable state of the lock satisfies the inductive invariant.
THEOREM LockInvariant == Spec => []IInv
BY InitIInv, NextKeepsIInv, PTL DEF Spec

\* The variables keep their types; the counter never goes below zero.
THEOREM LockTypes == Spec => []TypeOK
<1>1. IInv => TypeOK
    BY DEF IInv
<1> QED
    BY <1>1, LockInvariant, PTL

\* _shared and _exclusive count exactly the threads that are inside.
THEOREM LockCountsHolders == Spec => []HoldersCounted
<1>1. IInv => HoldersCounted
    BY DEF IInv
<1> QED
    BY <1>1, LockInvariant, PTL

\* A linker run is alone in the lock (_GraphLock's docstring).
THEOREM LockExclusion == Spec => []Exclusion
<1>1. IInv => Exclusion
    BY DEF IInv
<1> QED
    BY <1>1, LockInvariant, PTL

\* No thread sleeps in wait() without a holder that still has to notify.
THEOREM LockLosesNoWakeup == Spec => []NoLostWakeup
<1>1. IInv => NoLostWakeup
    BY DEF IInv
<1> QED
    BY <1>1, LockInvariant, PTL

------------------------------------------------------------------------------
\* Each step of the condition variable is a step of the abstract lock or hidden.
LEMMA StepRefines ==
    ASSUME IInv, NEW t \in Thread, Ask(t) \/ Step(t)
    PROVE  [Lock!LockNext]_(Lock!lockVars)
<1> USE DEF Lock!lockVars, Lock!LockNext
<1>1. CASE Ask(t)
    <2>1. In("inShared")' = In("inShared") /\ In("inExclusive")' = In("inExclusive")
        BY <1>1 DEF IInv, Ask, TypeOK, In
    <2> QED
        BY <2>1
<1>2. CASE AcquireShared(t)
    <2>1. /\ In("inShared")' = In("inShared") \cup {t}
          /\ t \notin In("inShared")
          /\ In("inExclusive")' = In("inExclusive")
        BY <1>2 DEF IInv, AcquireShared, TypeOK, In
    <2>2. In("inExclusive") = {}
        BY <1>2 DEF IInv, AcquireShared, MayShare, HoldersCounted
    <2>3. Lock!AcquireShared(t)
        BY <2>1, <2>2 DEF Lock!AcquireShared
    <2> QED
        BY <2>3
<1>3. CASE AcquireExclusive(t)
    <2>1. /\ In("inExclusive")' = In("inExclusive") \cup {t}
          /\ In("inShared")' = In("inShared")
        BY <1>3 DEF IInv, AcquireExclusive, TypeOK, In
    <2>2. In("inExclusive") = {} /\ shared = 0
        BY <1>3 DEF IInv, AcquireExclusive, MayExclude, HoldersCounted
    <2>3. In("inShared") = {}
        BY <2>2, PlacesFinite, FS_EmptySet DEF IInv, HoldersCounted
    <2>4. Lock!AcquireExclusive(t)
        BY <2>1, <2>2, <2>3 DEF Lock!AcquireExclusive
    <2> QED
        BY <2>4
<1>4. CASE Wait(t)
    BY <1>4 DEF Wait, In
<1>5. CASE ReleaseShared(t)
    <2>1. /\ In("inShared")' = In("inShared") \ {t}
          /\ In("inExclusive")' = In("inExclusive")
        BY <1>5 DEF IInv, ReleaseShared, TypeOK, In
    <2>2. t \in In("inShared")
        BY <1>5 DEF ReleaseShared, In
    <2>3. Lock!ReleaseShared(t)
        BY <2>1, <2>2 DEF Lock!ReleaseShared
    <2> QED
        BY <2>3
<1>6. CASE ReleaseExclusive(t)
    <2>1. /\ In("inExclusive")' = In("inExclusive") \ {t}
          /\ In("inShared")' = In("inShared")
        BY <1>6 DEF IInv, ReleaseExclusive, TypeOK, In
    <2>2. t \in In("inExclusive")
        BY <1>6 DEF ReleaseExclusive, In
    <2>3. Lock!ReleaseExclusive(t)
        BY <2>1, <2>2 DEF Lock!ReleaseExclusive
    <2> QED
        BY <2>3
<1> QED
    BY <1>1, <1>2, <1>3, <1>4, <1>5, <1>6 DEF Step

\* The condition variable, its counter and its flag implement the
\* readers-writer lock that the job queue is modelled with.
THEOREM LockRefinement == Spec => Implements
<1>1. Init => Lock!LockInit
    BY DEF Init, Lock!LockInit, In
<1>2. IInv /\ [Next]_vars => [Lock!LockNext]_(Lock!lockVars)
    <2> SUFFICES ASSUME IInv, [Next]_vars PROVE [Lock!LockNext]_(Lock!lockVars)
        OBVIOUS
    <2>1. CASE UNCHANGED vars
        BY <2>1 DEF vars, In, Lock!lockVars
    <2>2. CASE Next
        BY <2>2, StepRefines DEF Next
    <2> QED
        BY <2>1, <2>2
<1> QED
    BY <1>1, <1>2, LockInvariant, PTL DEF Spec, Implements, Lock!LockSpec
===============================================================================
