------------------------------ MODULE SpinLock ------------------------------
(***************************************************************************)
(* SpinLock and SpinGuard (spinlock.h, spinlock.cpp).  Each thread owns    *)
(* one SpinGuard over one shared SpinLock and calls Acquire and Release on *)
(* it in any order, any number of times: SpinGuard's m_held makes repeated *)
(* calls harmless.  Lock() makes SpinTries attempts back to back and then  *)
(* keeps trying with a YieldCpu() between attempts.                        *)
(*                                                                         *)
(* pc[t] is the point the thread has reached:                              *)
(*   "out"      in the caller's code                                       *)
(*   "burst"    in the bounded loop of Lock()                              *)
(*   "yield"    in the yielding loop of Lock()                             *)
(*   "locked"   Lock() has returned, m_held not yet written                *)
(*   "unlocked" Unlock() has returned, m_held not yet cleared              *)
(***************************************************************************)
EXTENDS Naturals

CONSTANTS Threads,   \* the threads, each with a guard of its own
          NoThread,  \* the holder of a free lock
          SpinTries  \* attempts before Lock() starts to yield (64 in the code)

ASSUME NoThreadAssumption == NoThread \notin Threads
ASSUME SpinTriesAssumption == SpinTries \in Nat \ {0}

VARIABLES m_lock,  \* SpinLock::m_lock
          m_held,  \* SpinGuard::m_held, by thread
          pc,
          tries    \* the loop counter of Lock(), by thread

vars == <<m_lock, m_held, pc, tries>>

Init == /\ m_lock = FALSE
        /\ m_held = [t \in Threads |-> FALSE]
        /\ pc = [t \in Threads |-> "out"]
        /\ tries = [t \in Threads |-> 0]

Goto(t, from, to) == /\ pc[t] = from
                     /\ pc' = [pc EXCEPT ![t] = to]

(***************************************************************************)
(* SpinGuard::Acquire: nothing to do when the guard already holds.         *)
(***************************************************************************)
Acquire(t) == /\ ~m_held[t]
              /\ Goto(t, "out", "burst")
              /\ tries' = [tries EXCEPT ![t] = 0]
              /\ UNCHANGED <<m_lock, m_held>>

\* Mutant: TryLock forgets what the exchange returned.
TryAlwaysSucceeds(t) == /\ pc[t] \in {"burst", "yield"}
                        /\ pc' = [pc EXCEPT ![t] = "locked"]
                        /\ m_lock' = TRUE
                        /\ UNCHANGED <<m_held, tries>>

(***************************************************************************)
(* TryLock exchanges TRUE into m_lock; it succeeded iff the old value was  *)
(* FALSE.                                                                  *)
(***************************************************************************)
TrySucceeds(t) == /\ ~m_lock
                  /\ pc[t] \in {"burst", "yield"}
                  /\ pc' = [pc EXCEPT ![t] = "locked"]
                  /\ m_lock' = TRUE
                  /\ UNCHANGED <<m_held, tries>>

\* Mutant: the bounded loop runs once too often.
TryFailsOnceMore(t) == /\ m_lock
                       /\ tries[t] < SpinTries
                       /\ Goto(t, "burst", "burst")
                       /\ tries' = [tries EXCEPT ![t] = @ + 1]
                       /\ UNCHANGED <<m_lock, m_held>>

\* A failed attempt: in the burst it counts, afterwards it only yields.
TryFails(t) == /\ m_lock
               /\ \/ /\ tries[t] < SpinTries - 1
                     /\ Goto(t, "burst", "burst")
                     /\ tries' = [tries EXCEPT ![t] = @ + 1]
                  \/ /\ tries[t] = SpinTries - 1
                     /\ Goto(t, "burst", "yield")
                     /\ tries' = tries
               /\ UNCHANGED <<m_lock, m_held>>

MarkHeld(t) == /\ Goto(t, "locked", "out")
               /\ m_held' = [m_held EXCEPT ![t] = TRUE]
               /\ UNCHANGED <<m_lock, tries>>

\* Mutant: Release forgets to look at m_held.
ReleaseUnheld(t) == /\ Goto(t, "out", "unlocked")
                    /\ m_lock' = FALSE
                    /\ UNCHANGED <<m_held, tries>>

\* Mutant: Unlock leaves the flag set.
ReleaseKeepsFlag(t) == /\ m_held[t]
                       /\ Goto(t, "out", "unlocked")
                       /\ UNCHANGED <<m_lock, m_held, tries>>

(***************************************************************************)
(* SpinGuard::Release: Unlock, then forget; nothing to do when not held.   *)
(***************************************************************************)
Release(t) == /\ m_held[t]
              /\ Goto(t, "out", "unlocked")
              /\ m_lock' = FALSE
              /\ UNCHANGED <<m_held, tries>>

MarkReleased(t) == /\ Goto(t, "unlocked", "out")
                   /\ m_held' = [m_held EXCEPT ![t] = FALSE]
                   /\ UNCHANGED <<m_lock, tries>>

\* The steps a thread takes inside SpinGuard and SpinLock once it called them.
Inside(t) == \/ TrySucceeds(t)
             \/ TryFails(t)
             \/ MarkHeld(t)
             \/ MarkReleased(t)

Next == \E t \in Threads : Acquire(t) \/ Release(t) \/ Inside(t)

(***************************************************************************)
(* A thread inside the lock code keeps running, and every guarded section  *)
(* of the program is finite, so a held guard is released.  Nothing makes a *)
(* thread call Acquire, and nothing makes the lock fair between threads.   *)
(***************************************************************************)
Fairness == \A t \in Threads : WF_vars(Inside(t)) /\ WF_vars(Release(t))

Spec == Init /\ [][Next]_vars

FairSpec == Spec /\ Fairness

-----------------------------------------------------------------------------
Points == {"out", "burst", "yield", "locked", "unlocked"}

TypeOK == /\ m_lock \in BOOLEAN
          /\ m_held \in [Threads -> BOOLEAN]
          /\ pc \in [Threads -> Points]
          /\ tries \in [Threads -> 0 .. SpinTries - 1]

\* The thread is between a successful exchange and its Unlock.
Inner(t) == pc[t] = "locked" \/ (m_held[t] /\ pc[t] # "unlocked")

(***************************************************************************)
(* Two guards of one lock never both let their owner through: TryLock,     *)
(* the late writes of m_held and Unlock never leave two threads inside.    *)
(***************************************************************************)
MutualExclusion == \A t, u \in Threads : Inner(t) /\ Inner(u) => t = u

(***************************************************************************)
(* The flag is set exactly while somebody is inside, so no release is      *)
(* lost and no Release of one guard frees the lock under another.          *)
(***************************************************************************)
FlagMatchesHolder == m_lock <=> \E t \in Threads : Inner(t)

Holder == IF \E t \in Threads : Inner(t)
            THEN CHOOSE t \in Threads : Inner(t)
            ELSE NoThread

M == INSTANCE Mutex WITH holder <- Holder

\* The spinning implementation behaves as the abstract mutex.
ImplementsMutex == M!Spec

(***************************************************************************)
(* Lock() is not fair, yet it never stalls everybody: while threads want   *)
(* the lock, one of them gets it.                                          *)
(***************************************************************************)
SomebodyGetsIn == (\E t \in Threads : pc[t] \in {"burst", "yield"})
                    ~> (\E t \in Threads : pc[t] = "locked")
=============================================================================
