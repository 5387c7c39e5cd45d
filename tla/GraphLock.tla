------------------------------ MODULE GraphLock ------------------------------
(***************************************************************************)
(* _GraphLock of services/job_queue.py: a readers-writer lock built on one *)
(* condition variable, a counter and a flag.  Each "with self._cond" block *)
(* is one action: the condition's mutex makes it atomic.  A thread whose   *)
(* test fails joins the waiters and gives the mutex up; notify_all empties *)
(* the waiters, and a notified thread tests again.                         *)
(***************************************************************************)
EXTENDS Naturals, FiniteSets

CONSTANT Thread              \* the queue's worker threads

ASSUME ThreadAssumption == IsFiniteSet(Thread)

VARIABLES shared,            \* self._shared, how many threads are inside shared()
          exclusive,         \* self._exclusive
          waiters,           \* threads blocked in self._cond.wait()
          at                 \* where each thread is with respect to the lock

vars == <<shared, exclusive, waiters, at>>

Places == {"outside", "wantShared", "inShared", "wantExclusive", "inExclusive"}

In(place) == {t \in Thread : at[t] = place}

Init ==
    /\ shared = 0
    /\ exclusive = FALSE
    /\ waiters = {}
    /\ at = [t \in Thread |-> "outside"]

------------------------------------------------------------------------------
\* A thread reaches acquire_shared or acquire_exclusive.
Ask(t) ==
    /\ at[t] = "outside"
    /\ \E want \in {"wantShared", "wantExclusive"} : at' = [at EXCEPT ![t] = want]
    /\ UNCHANGED <<shared, exclusive, waiters>>

\* Mutant: acquire_shared never tests the flag.
MayShare_Always == TRUE

MayShare == ~exclusive
\* Mutant: acquire_exclusive tests the flag and forgets the readers.
MayExclude_IgnoresReaders == ~exclusive

MayExclude == ~exclusive /\ shared = 0

AcquireShared(t) ==
    /\ at[t] = "wantShared" /\ t \notin waiters
    /\ MayShare
    /\ shared' = shared + 1
    /\ at' = [at EXCEPT ![t] = "inShared"]
    /\ UNCHANGED <<exclusive, waiters>>

AcquireExclusive(t) ==
    /\ at[t] = "wantExclusive" /\ t \notin waiters
    /\ MayExclude
    /\ exclusive' = TRUE
    /\ at' = [at EXCEPT ![t] = "inExclusive"]
    /\ UNCHANGED <<shared, waiters>>

\* self._cond.wait(): the loop's test failed, so the thread joins the waiters.
Wait(t) ==
    /\ t \notin waiters
    /\ \/ at[t] = "wantShared" /\ ~MayShare
       \/ at[t] = "wantExclusive" /\ ~MayExclude
    /\ waiters' = waiters \cup {t}
    /\ UNCHANGED <<shared, exclusive, at>>

\* Mutant: the last reader notifies nobody.
ReleaseShared_NotifiesNobody(t) ==
    /\ at[t] = "inShared"
    /\ shared' = shared - 1
    /\ at' = [at EXCEPT ![t] = "outside"]
    /\ UNCHANGED <<exclusive, waiters>>

\* Only the last reader to leave wakes the waiters.
ReleaseShared(t) ==
    /\ at[t] = "inShared"
    /\ shared' = shared - 1
    /\ waiters' = IF shared' = 0 THEN {} ELSE waiters
    /\ at' = [at EXCEPT ![t] = "outside"]
    /\ UNCHANGED exclusive

\* Mutant: notify() for notify_all().
ReleaseExclusive_NotifiesOne(t) ==
    /\ at[t] = "inExclusive"
    /\ exclusive' = FALSE
    /\ IF waiters = {} THEN UNCHANGED waiters
       ELSE \E u \in waiters : waiters' = waiters \ {u}
    /\ at' = [at EXCEPT ![t] = "outside"]
    /\ UNCHANGED shared

ReleaseExclusive(t) ==
    /\ at[t] = "inExclusive"
    /\ exclusive' = FALSE
    /\ waiters' = {}
    /\ at' = [at EXCEPT ![t] = "outside"]
    /\ UNCHANGED shared

------------------------------------------------------------------------------
Step(t) ==
    \/ AcquireShared(t)
    \/ AcquireExclusive(t)
    \/ Wait(t)
    \/ ReleaseShared(t)
    \/ ReleaseExclusive(t)

Next == \E t \in Thread : Ask(t) \/ Step(t)

Spec == Init /\ [][Next]_vars

\* A thread inside the lock or entitled to test runs on; nobody has to ask.
FairSpec == Spec /\ \A t \in Thread : WF_vars(Step(t))

------------------------------------------------------------------------------
TypeOK ==
    /\ shared \in Nat
    /\ exclusive \in BOOLEAN
    /\ waiters \in SUBSET Thread
    /\ at \in [Thread -> Places]

\* The counter and the flag count the threads that are inside (_shared and
\* _exclusive are all the lock knows of its holders, job_queue.py:53-79).
HoldersCounted ==
    /\ shared = Cardinality(In("inShared"))
    /\ exclusive <=> In("inExclusive") # {}
    /\ Cardinality(In("inExclusive")) <= 1

\* Many ingests or one linker run, never both (the docstring of _GraphLock).
Exclusion ==
    \A t, u \in Thread :
        at[t] = "inExclusive" /\ at[u] \in {"inShared", "inExclusive"} => t = u

\* No lost wake-up: a thread asleep in wait() is always owed a notify_all by a
\* thread that is still inside, although only the last reader notifies.
NoLostWakeup ==
    \A t \in waiters :
        \/ at[t] = "wantShared" /\ exclusive
        \/ at[t] = "wantExclusive" /\ (exclusive \/ shared > 0)

\* Once new threads stop arriving, every thread that wants in gets in.  With
\* arrivals this is not promised: a stream of readers may starve a writer.
Drains ==
    <>[][~\E t \in Thread : Ask(t)]_vars
        => \A t \in Thread : /\ at[t] = "wantShared" ~> at[t] = "inShared"
                             /\ at[t] = "wantExclusive" ~> at[t] = "inExclusive"

\* The condition variable implements the readers-writer lock.
Lock == INSTANCE ReadWriteLock WITH
            readers <- In("inShared"), writers <- In("inExclusive")

Implements == Lock!LockSpec
==============================================================================
