---------------------------- MODULE ReadWriteLock ----------------------------
(***************************************************************************)
(* What the job queue asks of its graph lock: any number of ingests        *)
(* inside, or one linker run inside, never both.  GraphLock is the         *)
(* condition-variable implementation; JobQueue uses this module's actions. *)
(***************************************************************************)
CONSTANT Thread              \* everything that may take the lock

VARIABLES readers,           \* threads inside shared()
          writers            \* threads inside exclusive()

lockVars == <<readers, writers>>

LockInit == readers = {} /\ writers = {}

AcquireShared(t) ==
    /\ t \notin readers
    /\ writers = {}
    /\ readers' = readers \cup {t}
    /\ UNCHANGED writers

ReleaseShared(t) ==
    /\ t \in readers
    /\ readers' = readers \ {t}
    /\ UNCHANGED writers

AcquireExclusive(t) ==
    /\ readers = {}
    /\ writers = {}
    /\ writers' = {t}
    /\ UNCHANGED readers

ReleaseExclusive(t) ==
    /\ t \in writers
    /\ writers' = writers \ {t}
    /\ UNCHANGED readers

LockNext == \E t \in Thread :
    \/ AcquireShared(t)
    \/ ReleaseShared(t)
    \/ AcquireExclusive(t)
    \/ ReleaseExclusive(t)

LockSpec == LockInit /\ [][LockNext]_lockVars
==============================================================================
