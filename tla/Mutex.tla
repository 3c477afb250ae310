------------------------------- MODULE Mutex -------------------------------
(* src/src/threading/Mutex.rs: the futex mutex (FutexImpl), as Linux and     *)
(* OpenHarmony build it, wrapped in the debug build's owner check            *)
(* (DebugImpl).  One action per atomic access or system call.                *)
EXTENDS Futex

CONSTANTS Threads,     \* the threads that share the mutex
          NoThread     \* locking_thread = 0

ASSUME ThreadsAssumption == NoThread \notin Threads

VARIABLES state,           \* FutexImpl.state
          lockingThread,   \* DebugImpl.locking_thread
          loc              \* where each thread is in lock, try_lock or unlock

mutexVars == <<state, lockingThread, loc>>

UNLOCKED  == 0
LOCKED    == 1
CONTENDED == 3

Trying  == {"try", "load", "wait", "asleep", "swap"}
Holding == {"own", "cs", "release"}

TypeOK ==
    /\ state \in {UNLOCKED, LOCKED, CONTENDED}
    /\ lockingThread \in Threads \cup {NoThread}
    /\ loc \in [Threads -> {"idle", "wake", "panicked"} \cup Trying \cup Holding]

MutexInit ==
    /\ state = UNLOCKED
    /\ lockingThread = NoThread
    /\ loc = [t \in Threads |-> "idle"]

Goto(t, label) == loc' = [loc EXCEPT ![t] = label]

-----------------------------------------------------------------------------
(* Plausible slips, each in place of the action it is named after; a property
   below fails under each of them. *)

(* The slow path acquires with the LOCKED value of the fast path. *)
SlipSwapLocked(t) ==
    /\ loc[t] = "swap"
    /\ state' = IF state = UNLOCKED THEN LOCKED ELSE CONTENDED
    /\ Goto(t, IF state = UNLOCKED THEN "own" ELSE "wait")
    /\ UNCHANGED lockingThread

(* The slow path takes any word that is not CONTENDED for a free one. *)
SlipSwapNotContended(t) ==
    /\ loc[t] = "swap"
    /\ state' = CONTENDED
    /\ Goto(t, IF state # CONTENDED THEN "own" ELSE "wait")
    /\ UNCHANGED lockingThread

(* unlock does not clear the owner. *)
SlipKeepOwner(t) ==
    /\ loc[t] = "cs"
    /\ Goto(t, "release")
    /\ UNCHANGED <<state, lockingThread>>

(* unlock forgets the wake. *)
SlipReleaseSilently(t) ==
    /\ loc[t] = "release"
    /\ state' = UNLOCKED
    /\ Goto(t, "idle")
    /\ UNCHANGED lockingThread

-----------------------------------------------------------------------------
(* lock() *)

(* DebugImpl::lock: the owner check of the debug build, then the real lock. *)
LockCall(t) ==
    /\ loc[t] = "idle"
    /\ Goto(t, IF lockingThread = t THEN "panicked" ELSE "try")
    /\ UNCHANGED <<state, lockingThread>>

(* try_lock on a free word: fetch_or on x86, a weak compare-exchange
   elsewhere. *)
TryLockSucceeds(t) ==
    /\ loc[t] = "try"
    /\ state = UNLOCKED
    /\ state' = LOCKED
    /\ Goto(t, "own")
    /\ UNCHANGED lockingThread

(* try_lock on a taken word leaves the word as it is (CONTENDED contains the
   LOCKED bit), and the weak compare-exchange may fail on a free one too. *)
TryLockFails(t) ==
    /\ loc[t] = "try"
    /\ Goto(t, "load")
    /\ UNCHANGED <<state, lockingThread>>

(* lock_slow: the load that avoids a needless swap. *)
LoadState(t) ==
    /\ loc[t] = "load"
    /\ Goto(t, IF state = CONTENDED THEN "wait" ELSE "swap")
    /\ UNCHANGED <<state, lockingThread>>

(* lock_slow: swap(CONTENDED), which takes the lock if it was free. *)
SwapContended(t) ==
    /\ loc[t] = "swap"
    /\ state' = CONTENDED
    /\ Goto(t, IF state = UNLOCKED THEN "own" ELSE "wait")
    /\ UNCHANGED lockingThread

(* Futex::wait_forever(&state, CONTENDED): the kernel compares and sleeps in
   one step. *)
FutexWait(t) ==
    /\ loc[t] = "wait"
    /\ Goto(t, IF state = CONTENDED THEN "asleep" ELSE "swap")
    /\ UNCHANGED <<state, lockingThread>>

(* The wait returns without a wake (EINTR). *)
SpuriousReturn(t) ==
    /\ loc[t] = "asleep"
    /\ Goto(t, "swap")
    /\ UNCHANGED <<state, lockingThread>>

(* DebugImpl: locking_thread.store(current_id) once the lock is held. *)
StoreOwner(t) ==
    /\ loc[t] = "own"
    /\ lockingThread' = t
    /\ Goto(t, "cs")
    /\ UNCHANGED state

-----------------------------------------------------------------------------
(* try_lock() called by itself; one that fails changes nothing. *)
TryLockCall(t) ==
    /\ loc[t] = "idle"
    /\ state = UNLOCKED
    /\ state' = LOCKED
    /\ Goto(t, "own")
    /\ UNCHANGED lockingThread

-----------------------------------------------------------------------------
(* unlock_raw() *)

(* DebugImpl::unlock_raw: the owner is cleared while the lock is still held. *)
ClearOwner(t) ==
    /\ loc[t] = "cs"
    /\ lockingThread' = NoThread
    /\ Goto(t, "release")
    /\ UNCHANGED state

(* FutexImpl::unlock_raw: swap(UNLOCKED), the last access to the mutex. *)
Release(t) ==
    /\ loc[t] = "release"
    /\ state' = UNLOCKED
    /\ Goto(t, IF state = CONTENDED THEN "wake" ELSE "idle")
    /\ UNCHANGED lockingThread

(* Futex::wake_raw(state, 1), keyed on the address only. *)
FutexWake(t) ==
    /\ loc[t] = "wake"
    /\ \E woken \in WakeOne({u \in Threads : loc[u] = "asleep"}) :
          loc' = [u \in Threads |-> IF u = t THEN "idle"
                                    ELSE IF u \in woken THEN "swap" ELSE loc[u]]
    /\ UNCHANGED <<state, lockingThread>>

-----------------------------------------------------------------------------
LockStep(t) ==
    TryLockSucceeds(t) \/ TryLockFails(t) \/ LoadState(t) \/ SwapContended(t)
        \/ FutexWait(t) \/ StoreOwner(t)

UnlockStep(t) == ClearOwner(t) \/ Release(t) \/ FutexWake(t)

MutexNext == \E t \in Threads :
    \/ LockCall(t)
    \/ TryLockCall(t)
    \/ LockStep(t)
    \/ SpuriousReturn(t)
    \/ UnlockStep(t)

MutexSpec == MutexInit /\ [][MutexNext]_mutexVars

(* A thread inside lock or unlock is scheduled again, and critical sections
   end.  Nobody has to call lock, and no spurious return has to happen. *)
MutexFairness == \A t \in Threads : WF_mutexVars(LockStep(t)) /\ WF_mutexVars(UnlockStep(t))

FairSpec == MutexSpec /\ MutexFairness

-----------------------------------------------------------------------------
(* Properties *)

(* No two threads are between their acquiring access and the releasing swap
   of unlock_raw, and the word is UNLOCKED exactly while nobody is: unlock_raw's
   debug_assert(state != UNLOCKED) cannot fail. *)
MutualExclusion ==
    /\ \A t, u \in Threads : loc[t] \in Holding /\ loc[u] \in Holding => t = u
    /\ state = UNLOCKED <=> \A t \in Threads : loc[t] \notin Holding

(* The debug build's owner check is exact: locking_thread names t exactly while
   t is in its critical section, so "Deadlock detected" is raised for no thread
   that does not hold the lock, and unlock_raw's debug_assert on the owner and
   assert_held never fail for the one that does. *)
OwnerExact ==
    \A t \in Threads : /\ lockingThread = t <=> loc[t] = "cs"
                       /\ loc[t] # "panicked"

(* A thread asleep on the futex always has somebody who will see to it: the
   word is CONTENDED, so that the holder's unlock will wake; or an unlock is on
   its way to the wake call; or a woken thread is about to swap CONTENDED back
   in, which makes the next unlock wake. *)
NoStrandedSleeper ==
    (\E t \in Threads : loc[t] = "asleep") =>
        \/ state = CONTENDED
        \/ \E u \in Threads : loc[u] \in {"wake", "swap"}

(* Every lock() call returns once other threads stop barging in: the lock is
   lost to no one, although a steady stream of new callers may starve one. *)
LockersServed ==
    (<>[][\A t \in Threads : ~LockCall(t) /\ ~TryLockCall(t)]_mutexVars)
        => \A t \in Threads : loc[t] \in Trying ~> loc[t] = "cs"

(* The mutex implements the abstract lock. *)
LockAbs == INSTANCE Lock WITH
    owner   <- IF \E t \in Threads : loc[t] \in Holding
                 THEN CHOOSE t \in Threads : loc[t] \in Holding
                 ELSE NoThread,
    waiting <- {t \in Threads : loc[t] \in Trying}

(* Seen from outside, lock, try_lock and unlock behave as the lock of module
   Lock, whose progress clause says that a free lock with callers waiting for it
   is taken: no wakeup that matters is ever lost. *)
ImplementsLock == LockAbs!LockSpec
=============================================================================
