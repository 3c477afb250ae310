-------------------------- MODULE ThreadingProofs --------------------------
(* Proofs about three modules of src/src/threading that do not use each      *)
(* other: Mutex for any set of threads, WaitGroup for any finite set of      *)
(* tasks, UnboundedQueue for any producers and any finite set of nodes.      *)
EXTENDS Mutex, WaitGroup, UnboundedQueue, FiniteSetTheorems, SequenceTheorems,
        WellFoundedInduction, TLAPS

-----------------------------------------------------------------------------
(* Mutex.  Its invariants are inductive together.                            *)

(* A wake call releases only threads that sleep. *)
LEMMA WakeOneSubset ==
    ASSUME NEW sleepers, NEW woken \in WakeOne(sleepers)
    PROVE  woken \subseteq sleepers
  BY DEF WakeOne

(* The words and the program counters keep their types. *)
THEOREM MutexTypeCorrect == MutexSpec => []TypeOK
<1>1. MutexInit => TypeOK
  BY DEF MutexInit, TypeOK, UNLOCKED, LOCKED, CONTENDED, Trying, Holding
<1>2. TypeOK /\ [MutexNext]_mutexVars => TypeOK'
  <2> SUFFICES ASSUME TypeOK, [MutexNext]_mutexVars PROVE TypeOK'
    OBVIOUS
  <2> USE DEF TypeOK, UNLOCKED, LOCKED, CONTENDED, Trying, Holding, Goto
  <2>1. ASSUME NEW t \in Threads, LockCall(t) PROVE TypeOK'
    BY <2>1 DEF LockCall
  <2>2. ASSUME NEW t \in Threads, TryLockCall(t) PROVE TypeOK'
    BY <2>2 DEF TryLockCall
  <2>3. ASSUME NEW t \in Threads, LockStep(t) PROVE TypeOK'
    BY <2>3 DEF LockStep, TryLockSucceeds, TryLockFails, LoadState, SwapContended,
                FutexWait, StoreOwner
  <2>4. ASSUME NEW t \in Threads, SpuriousReturn(t) PROVE TypeOK'
    BY <2>4 DEF SpuriousReturn
  <2>5. ASSUME NEW t \in Threads, UnlockStep(t) PROVE TypeOK'
    BY <2>5 DEF UnlockStep, ClearOwner, Release, FutexWake
  <2>6. CASE UNCHANGED mutexVars
    BY <2>6 DEF mutexVars
  <2> QED
    BY <2>1, <2>2, <2>3, <2>4, <2>5, <2>6 DEF MutexNext
<1> QED
  BY <1>1, <1>2, PTL DEF MutexSpec

-----------------------------------------------------------------------------
(* Mutual exclusion, an exact owner and the care for sleepers are inductive
   together: OwnerExact needs that a thread storing its name is alone. *)
SafetyInv == TypeOK /\ MutualExclusion /\ OwnerExact /\ NoStrandedSleeper

(* The inductive invariant holds of a mutex nobody has touched. *)
LEMMA SafetyInit == MutexInit => SafetyInv
  BY ThreadsAssumption
  DEF MutexInit, SafetyInv, TypeOK, MutualExclusion, OwnerExact, NoStrandedSleeper,
      UNLOCKED, LOCKED, CONTENDED, Trying, Holding

(* Every step of lock, lock_slow and unlock keeps it, one case for each. *)
LEMMA SafetyStep == SafetyInv /\ [MutexNext]_mutexVars => SafetyInv'
<1> SUFFICES ASSUME SafetyInv, [MutexNext]_mutexVars PROVE SafetyInv'
  OBVIOUS
<1> USE ThreadsAssumption
    DEF SafetyInv, TypeOK, MutualExclusion, OwnerExact, NoStrandedSleeper,
        UNLOCKED, LOCKED, CONTENDED, Trying, Holding, Goto
<1>1. ASSUME NEW t \in Threads, LockCall(t) PROVE SafetyInv'
  BY <1>1 DEF LockCall
<1>2. ASSUME NEW t \in Threads, TryLockCall(t) PROVE SafetyInv'
  BY <1>2 DEF TryLockCall
<1>3. ASSUME NEW t \in Threads, TryLockSucceeds(t) PROVE SafetyInv'
  BY <1>3 DEF TryLockSucceeds
<1>4. ASSUME NEW t \in Threads, TryLockFails(t) PROVE SafetyInv'
  BY <1>4 DEF TryLockFails
<1>5. ASSUME NEW t \in Threads, LoadState(t) PROVE SafetyInv'
  BY <1>5 DEF LoadState
<1>6. ASSUME NEW t \in Threads, SwapContended(t) PROVE SafetyInv'
  BY <1>6 DEF SwapContended
<1>7. ASSUME NEW t \in Threads, FutexWait(t) PROVE SafetyInv'
  BY <1>7 DEF FutexWait
<1>8. ASSUME NEW t \in Threads, StoreOwner(t) PROVE SafetyInv'
  BY <1>8 DEF StoreOwner
<1>9. ASSUME NEW t \in Threads, SpuriousReturn(t) PROVE SafetyInv'
  BY <1>9 DEF SpuriousReturn
<1>10. ASSUME NEW t \in Threads, ClearOwner(t) PROVE SafetyInv'
  BY <1>10 DEF ClearOwner
<1>11. ASSUME NEW t \in Threads, Release(t) PROVE SafetyInv'
  BY <1>11 DEF Release
<1>12. ASSUME NEW t \in Threads, FutexWake(t) PROVE SafetyInv'
  <2> DEFINE sleepers == {u \in Threads : loc[u] = "asleep"}
  <2>1. PICK woken \in WakeOne(sleepers) :
            loc' = [u \in Threads |-> IF u = t THEN "idle"
                                      ELSE IF u \in woken THEN "swap" ELSE loc[u]]
    BY <1>12 DEF FutexWake
  <2>2. woken \subseteq sleepers
    BY <2>1, WakeOneSubset
  <2>3. sleepers # {} => \E u \in sleepers : u \in woken
    BY <2>1 DEF WakeOne
  <2>4. TypeOK' /\ MutualExclusion' /\ OwnerExact'
    BY <1>12, <2>1, <2>2 DEF FutexWake
  <2>5. NoStrandedSleeper'
    BY <1>12, <2>1, <2>2, <2>3 DEF FutexWake
  <2> QED
    BY <2>4, <2>5
<1>13. CASE UNCHANGED mutexVars
  BY <1>13 DEF mutexVars
<1> QED
  BY <1>1, <1>2, <1>3, <1>4, <1>5, <1>6, <1>7, <1>8, <1>9, <1>10, <1>11, <1>12, <1>13
  DEF MutexNext, LockStep, UnlockStep

(* At most one thread holds the mutex, and the word tells whether one does. *)
THEOREM MutexExcludes == MutexSpec => []MutualExclusion
  BY SafetyInit, SafetyStep, PTL DEF MutexSpec, SafetyInv

(* The debug build's deadlock check and owner asserts are exact. *)
THEOREM OwnerIsExact == MutexSpec => []OwnerExact
  BY SafetyInit, SafetyStep, PTL DEF MutexSpec, SafetyInv

(* Nobody sleeps on the futex without a wakeup on its way. *)
THEOREM SleepersAreSeenTo == MutexSpec => []NoStrandedSleeper
  BY SafetyInit, SafetyStep, PTL DEF MutexSpec, SafetyInv

-----------------------------------------------------------------------------
Owner == IF \E t \in Threads : loc[t] \in Holding
           THEN CHOOSE t \in Threads : loc[t] \in Holding
           ELSE NoThread

Waiting == {t \in Threads : loc[t] \in Trying}

(* The abstract lock's steps over Owner and Waiting. *)
Request(t) == t \notin Waiting /\ Owner # t /\ Waiting' = Waiting \cup {t} /\ Owner' = Owner
Take(t)    == Owner = NoThread /\ Owner' = t
GiveUp(t)  == Owner = t /\ Owner' = NoThread /\ Waiting' = Waiting

(* Every step of the mutex is a step of the abstract lock or leaves it as it is:
   what the code does refines module Lock's safety part. *)
THEOREM RefinesLock == MutexSpec => LockAbs!LockSafety
<1>1. MutexInit => LockAbs!LockInit
  BY DEF MutexInit, LockAbs!LockInit, Trying, Holding
<1>2. SafetyInv /\ SafetyInv' /\ [MutexNext]_mutexVars => [LockAbs!LockNext]_(LockAbs!vars)
  <2> SUFFICES ASSUME SafetyInv, SafetyInv', [MutexNext]_mutexVars
               PROVE  \/ \E t \in Threads :
                            \/ Request(t)
                            \/ Take(t) /\ t \in Waiting /\ Waiting' = Waiting \ {t}
                            \/ Take(t) /\ t \notin Waiting /\ Waiting' = Waiting
                            \/ GiveUp(t)
                      \/ Owner' = Owner /\ Waiting' = Waiting
    BY DEF LockAbs!LockNext, LockAbs!vars, LockAbs!Request, LockAbs!Acquire,
           LockAbs!TryAcquire, LockAbs!Release,
           Owner, Waiting, Request, Take, GiveUp
  <2>1. \A t \in Threads : /\ loc[t] \in Holding => Owner = t
                           /\ loc'[t] \in Holding => Owner' = t
    BY DEF SafetyInv, MutualExclusion, Owner
  <2>2. /\ state = UNLOCKED => Owner = NoThread
        /\ state' = UNLOCKED => Owner' = NoThread
    BY DEF SafetyInv, MutualExclusion, Owner
  <2>3. ASSUME NEW t \in Threads, LockCall(t) PROVE Request(t)
    <3>1. Waiting' = Waiting \cup {t} /\ t \notin Waiting
      BY <2>3 DEF LockCall, Goto, Waiting, Trying, SafetyInv, TypeOK, OwnerExact
    <3>2. \A u \in Threads : loc'[u] \in Holding <=> loc[u] \in Holding
      BY <2>3 DEF LockCall, Goto, Holding, SafetyInv, TypeOK
    <3>3. Owner # t
      BY <2>1, <2>3, ThreadsAssumption DEF LockCall, Owner, Holding
    <3> QED
      BY <2>1, <3>1, <3>2, <3>3 DEF Request, Owner
  <2>4. ASSUME NEW t \in Threads, TryLockCall(t)
        PROVE  Take(t) /\ t \notin Waiting /\ Waiting' = Waiting
    BY <2>1, <2>2, <2>4
    DEF TryLockCall, Goto, Take, Waiting, Trying, Holding, SafetyInv, TypeOK
  <2>5. ASSUME NEW t \in Threads, TryLockSucceeds(t) \/ (SwapContended(t) /\ state = UNLOCKED)
        PROVE  Take(t) /\ t \in Waiting /\ Waiting' = Waiting \ {t}
    BY <2>1, <2>2, <2>5
    DEF TryLockSucceeds, SwapContended, Goto, Take, Waiting, Trying, Holding, SafetyInv, TypeOK
  <2>6. ASSUME NEW t \in Threads, Release(t) PROVE GiveUp(t)
    BY <2>1, <2>2, <2>6
    DEF Release, Goto, GiveUp, Waiting, Trying, Holding, SafetyInv, TypeOK
  <2>7. ASSUME \A u \in Threads : /\ loc'[u] \in Holding <=> loc[u] \in Holding
                                  /\ loc'[u] \in Trying <=> loc[u] \in Trying
        PROVE  Owner' = Owner /\ Waiting' = Waiting
    BY <2>1, <2>7 DEF Owner, Waiting
  <2>8. ASSUME NEW t \in Threads,
               \/ TryLockFails(t) \/ LoadState(t) \/ FutexWait(t) \/ SpuriousReturn(t)
               \/ StoreOwner(t) \/ ClearOwner(t) \/ (SwapContended(t) /\ state # UNLOCKED)
        PROVE  Owner' = Owner /\ Waiting' = Waiting
    BY <2>7, <2>8
    DEF TryLockFails, LoadState, FutexWait, SpuriousReturn, StoreOwner, ClearOwner,
        SwapContended, Goto, Trying, Holding, SafetyInv, TypeOK
  <2>9. ASSUME NEW t \in Threads, FutexWake(t)
        PROVE  Owner' = Owner /\ Waiting' = Waiting
    <3>1. PICK woken \in WakeOne({u \in Threads : loc[u] = "asleep"}) :
              loc' = [u \in Threads |-> IF u = t THEN "idle"
                                        ELSE IF u \in woken THEN "swap" ELSE loc[u]]
      BY <2>9 DEF FutexWake
    <3>2. woken \subseteq {u \in Threads : loc[u] = "asleep"}
      BY <3>1, WakeOneSubset
    <3> QED
      BY <2>7, <2>9, <3>1, <3>2 DEF FutexWake, Trying, Holding
  <2>10. CASE UNCHANGED mutexVars
    BY <2>10 DEF mutexVars, Owner, Waiting
  <2> QED
    BY <2>3, <2>4, <2>5, <2>6, <2>8, <2>9, <2>10 DEF MutexNext, LockStep, UnlockStep
<1> QED
  BY <1>1, <1>2, SafetyInit, SafetyStep, PTL DEF MutexSpec, LockAbs!LockSafety

-----------------------------------------------------------------------------
(* WaitGroup.  Every step is a step of the condition variable or leaves it   *)
(* alone, so the invariant of ConditionProofs holds of the group's mutex and *)
(* condition.                                                                *)

CP == INSTANCE ConditionProofs WITH Threads <- Members, NoThread <- Nobody, Timed <- {}

(* Where a task of the group can be in the mutex and the condition: it never
   waits on the condition, and from its last decrement to its unlock it holds
   the mutex. *)
TaskPlace(t) ==
    /\ at[t] \in {"unborn", "counted", "run", "finish", "done"} => cv[t] = "out"
    /\ at[t] = "last" => cv[t] \in {"out", "in"}
    /\ at[t] = "signal" => cv[t] = "in"
    /\ at[t] = "unlock" => cv[t] \in {"in", "epoch", "wake"} /\ owner = t
    /\ at[t] \notin {"push", "wait", "freed"}

(* The owner of the group is in the mutex and the condition only during wait. *)
WaiterPlace ==
    /\ at[Waiter] \in {"push", "wait", "freed"}
    /\ at[Waiter] \in {"push", "freed"} => cv[Waiter] = "out"
    /\ cv[Waiter] \notin {"epoch", "wake"}

(* Tasks that raw_count counts. *)
Unpublished == {t \in Tasks : at[t] \in {"counted", "run", "finish", "last"}}

(* The last decrement cannot take raw_count below zero. *)
CountExact == rawCount = Cardinality(Unpublished)

AtType ==
    at \in [Members -> {"unborn", "counted", "run", "done", "push", "wait", "freed"}
                          \cup Finishing]

GroupInv ==
    /\ CP!SignalInv
    /\ AtType /\ rawCount \in Nat /\ CountExact
    /\ \A t \in Tasks : TaskPlace(t)
    /\ WaiterPlace
    /\ NoUseAfterFree

-----------------------------------------------------------------------------
(* The assumption of module Condition holds of the group's threads. *)
LEMMA GroupThreads ==
    /\ CP!ConditionAssumption
    /\ \A S \in SUBSET Tasks : IsFiniteSet(S) /\ Cardinality(S) \in Nat
  <1>1. IsFiniteSet(Members) /\ Nobody \notin Members
    BY WaitGroupAssumption, FS_AddElement DEF Members
  <1>2. CP!ConditionAssumption
    BY <1>1 DEF IsFiniteSet, CP!IsFiniteSet
  <1>3. \A S \in SUBSET Tasks : IsFiniteSet(S) /\ Cardinality(S) \in Nat
    BY WaitGroupAssumption, FS_Subset, FS_CardinalityType
  <1> QED
    BY <1>2, <1>3

(* The condition inside the group and the one ConditionProofs is about take the
   same steps. *)
LEMMA SameCondition == (C!Init => CP!Init) /\ (C!Next => CP!Next)
  BY DEF C!Init, CP!Init, C!Next, CP!Next, C!Goto, CP!Goto, C!Lock, CP!Lock,
         C!Unlock, CP!Unlock, C!WaitCall, CP!WaitCall, C!WaitStep, CP!WaitStep,
         C!Register, CP!Register, C!WaitUnlock, CP!WaitUnlock, C!FutexWait, CP!FutexWait,
         C!Expire, CP!Expire, C!ReloadEpoch, CP!ReloadEpoch,
         C!ConsumeSignal, CP!ConsumeSignal, C!SpuriousReturn, CP!SpuriousReturn,
         C!DeadlinePasses, CP!DeadlinePasses, C!Relock, CP!Relock,
         C!PostSignals, CP!PostSignals, C!WakeStep, CP!WakeStep,
         C!BumpEpoch, CP!BumpEpoch, C!FutexWake, CP!FutexWake,
         C!WakeUpTo, CP!WakeUpTo, C!Cardinality, CP!Cardinality,
         C!IsFiniteSet, CP!IsFiniteSet

(* Every step of the group is a step of its mutex and condition variable or
   leaves them alone. *)
LEMMA GroupUsesCondition == [GroupNext]_groupVars => C!Next \/ UNCHANGED condVars
  <1> SUFFICES ASSUME [GroupNext]_groupVars PROVE C!Next \/ UNCHANGED condVars
    OBVIOUS
  <1> USE DEF C!Next, Members
  <1>1. CASE Acquire
    BY <1>1 DEF Acquire, LockMutex
  <1>2. CASE Block \/ FreeGroup \/ WaiterSpuriousReturn
    BY <1>2 DEF Block, FreeGroup, WaiterSpuriousReturn
  <1>3. ASSUME NEW t \in Tasks, TaskStep(t) PROVE C!Next \/ UNCHANGED condVars
    BY <1>3 DEF TaskStep, FinishCall, FinishFast, FinishSlow, FinishLast, FinishSignal, FinishUnlock
  <1>4. CASE OwnerGoesOn
    BY <1>4 DEF OwnerGoesOn, WaitBegins, AddOne, ScheduleTask
  <1>5. ASSUME NEW t \in Members, InCondition(t) PROVE C!Next \/ UNCHANGED condVars
    BY <1>5 DEF InCondition
  <1>6. CASE UNCHANGED groupVars
    BY <1>6 DEF groupVars
  <1> QED
    BY <1>1, <1>2, <1>3, <1>4, <1>5, <1>6 DEF GroupNext

(* The condition variable's invariant is kept by every step of the group. *)
LEMMA GroupCondition ==
    (GroupInit => CP!SignalInv) /\ (CP!SignalInv /\ [GroupNext]_groupVars => CP!SignalInv')
  <1>1. GroupInit => CP!SignalInv
    BY CP!SignalInvariant, GroupThreads, SameCondition DEF GroupInit
  <1>2. CP!SignalInv /\ (C!Next \/ UNCHANGED condVars) => CP!SignalInv'
    BY CP!SignalInvariant, GroupThreads, SameCondition DEF condVars, CP!vars
  <1> QED
    BY <1>1, <1>2, GroupUsesCondition

-----------------------------------------------------------------------------
(* Nobody has finished at the start. *)
LEMMA GroupInvInit == GroupInit => GroupInv
  <1> SUFFICES ASSUME GroupInit PROVE GroupInv
    OBVIOUS
  <1>1. AtType /\ WaiterPlace /\ NoUseAfterFree /\ \A t \in Tasks : TaskPlace(t)
    BY WaitGroupAssumption
    DEF GroupInit, C!Init, AtType, Finishing, WaiterPlace, NoUseAfterFree, TaskPlace, Members
  <1>2. Unpublished = Started
    BY WaitGroupAssumption DEF GroupInit, Unpublished, Members
  <1>3. rawCount \in Nat /\ CountExact
    BY <1>2, GroupThreads, WaitGroupAssumption DEF GroupInit, CountExact, Unpublished
  <1> QED
    BY <1>1, <1>3, GroupCondition DEF GroupInv

(* A step that moves no task into or out of the counted ones. *)
LEMMA RawCountKept ==
    ASSUME GroupInv, rawCount' = rawCount, Unpublished' = Unpublished
    PROVE  rawCount' \in Nat /\ CountExact'
  BY DEF GroupInv, CountExact, Unpublished

(* A task that publishes its end takes one off the count, which is above zero. *)
LEMMA RawCountDrops ==
    ASSUME GroupInv, NEW t \in Tasks, t \in Unpublished, Unpublished' = Unpublished \ {t},
           rawCount' = rawCount - 1
    PROVE  rawCount' \in Nat /\ CountExact'
  <1>1. /\ IsFiniteSet(Unpublished) /\ Cardinality(Unpublished) \in Nat
        /\ Cardinality(Unpublished') \in Nat
    BY GroupThreads DEF Unpublished
  <1>2. Cardinality(Unpublished') = Cardinality(Unpublished) - 1
    BY <1>1, FS_RemoveElement
  <1> QED
    BY <1>1, <1>2 DEF GroupInv, CountExact, Unpublished

(* The count, the mutex and the life of the group stay consistent in every step. *)
LEMMA GroupInvStep == GroupInv /\ [GroupNext]_groupVars => GroupInv'
<1> SUFFICES ASSUME GroupInv, [GroupNext]_groupVars PROVE GroupInv'
  OBVIOUS
<1> DEFINE Places == AtType /\ (\A t \in Tasks : TaskPlace(t)) /\ WaiterPlace /\ NoUseAfterFree
           Counts == rawCount \in Nat /\ CountExact
<1>cond. CP!SignalInv'
  BY GroupCondition DEF GroupInv
<1>inv. /\ Places /\ rawCount \in Nat
        /\ cv \in [Members -> {"out", "in", "register", "epoch", "wake", "unlock", "wait",
                               "asleep", "reload", "consume", "expired", "relock"}]
        /\ \A t \in Members : cv[t] \in {"in", "register", "unlock"} => owner = t
  BY DEF GroupInv, CP!SignalInv, CP!CoreInv, CP!TypeOK, CP!Waiting, CP!Registered, CP!OwnerMatches
<1> SUFFICES Places' /\ Counts'
  BY <1>cond DEF GroupInv
<1> USE <1>inv, WaitGroupAssumption
    DEF Members, AtType, Finishing, TaskPlace, WaiterPlace, NoUseAfterFree, At, C!Goto
<1>1. CASE Acquire
  <2>1. Places'
    BY <1>1 DEF Acquire, LockMutex, C!Lock, C!Relock
  <2>2. rawCount' = rawCount /\ Unpublished' = Unpublished
    BY <1>1 DEF Acquire, LockMutex, Unpublished
  <2> QED
    BY <2>1, <2>2, RawCountKept
<1>2. CASE Block \/ WaiterSpuriousReturn
  <2>1. Places'
    BY <1>2 DEF Block, WaiterSpuriousReturn, C!WaitCall, C!SpuriousReturn
  <2>2. rawCount' = rawCount /\ Unpublished' = Unpublished
    BY <1>2 DEF Block, WaiterSpuriousReturn, Unpublished
  <2> QED
    BY <2>1, <2>2, RawCountKept
<1>3. CASE FreeGroup
  <2>1. Unpublished = {}
    BY <1>3, GroupThreads, FS_EmptySet DEF FreeGroup, GroupInv, CountExact, Unpublished
  <2>2. \A t \in Tasks : at[t] \notin {"signal", "unlock"}
    BY <1>3 DEF FreeGroup, C!Unlock
  <2>3. Places'
    BY <1>3, <2>1, <2>2 DEF FreeGroup, C!Unlock, Unpublished
  <2>4. rawCount' = rawCount /\ Unpublished' = Unpublished
    BY <1>3 DEF FreeGroup, Unpublished
  <2> QED
    BY <2>3, <2>4, RawCountKept
<1>4. ASSUME NEW t \in Tasks, FinishCall(t) \/ FinishSlow(t) \/ FinishSignal(t) \/ FinishUnlock(t)
      PROVE  Places' /\ Counts'
  <2>1. Places'
    BY <1>4 DEF FinishCall, FinishSlow, FinishSignal, FinishUnlock, C!PostSignals, C!Unlock, condVars
  <2>2. rawCount' = rawCount /\ Unpublished' = Unpublished
    BY <1>4 DEF FinishCall, FinishSlow, FinishSignal, FinishUnlock, Unpublished
  <2> QED
    BY <2>1, <2>2, RawCountKept
<1>5. ASSUME NEW t \in Tasks, FinishFast(t) \/ FinishLast(t) PROVE Places' /\ Counts'
  <2>1. Places'
    BY <1>5 DEF FinishFast, FinishLast, condVars
  <2>2. /\ t \in Unpublished /\ Unpublished' = Unpublished \ {t}
        /\ rawCount' = rawCount - 1
    BY <1>5 DEF FinishFast, FinishLast, Unpublished
  <2> QED
    BY <2>1, <2>2, RawCountDrops
<1>6. ASSUME NEW t \in Tasks, AddOne(t) PROVE Places' /\ Counts'
  <2>1. Places'
    BY <1>6 DEF AddOne, condVars
  <2>2. /\ t \notin Unpublished /\ Unpublished' = Unpublished \cup {t}
        /\ rawCount' = rawCount + 1
    BY <1>6 DEF AddOne, Unpublished
  <2>3. IsFiniteSet(Unpublished)
    BY GroupThreads DEF Unpublished
  <2>4. Cardinality(Unpublished') = Cardinality(Unpublished) + 1
    BY <2>2, <2>3, FS_AddElement
  <2> QED
    BY <2>1, <2>2, <2>4 DEF GroupInv, CountExact
<1>9. ASSUME NEW t \in Tasks, ScheduleTask(t) PROVE Places' /\ Counts'
  <2>1. Places'
    BY <1>9 DEF ScheduleTask, condVars
  <2>2. rawCount' = rawCount /\ Unpublished' = Unpublished
    BY <1>9 DEF ScheduleTask, Unpublished
  <2> QED
    BY <2>1, <2>2, RawCountKept
<1>10. CASE WaitBegins
  <2>1. Places'
    BY <1>10 DEF WaitBegins, condVars
  <2>2. rawCount' = rawCount /\ Unpublished' = Unpublished
    BY <1>10 DEF WaitBegins, Unpublished
  <2> QED
    BY <2>1, <2>2, RawCountKept
<1>7. ASSUME NEW t \in Members, InCondition(t) PROVE Places' /\ Counts'
  <2>1. rawCount' = rawCount /\ at' = at
    BY <1>7 DEF InCondition
  <2>2. CASE C!WaitStep(t)
    BY <1>7, <2>1, <2>2, RawCountKept
    DEF C!WaitStep, C!Register, C!WaitUnlock, C!FutexWait, C!Expire, C!ReloadEpoch,
        C!ConsumeSignal, Unpublished
  <2>3. CASE C!BumpEpoch(t)
    BY <1>7, <2>1, <2>3, RawCountKept DEF C!BumpEpoch, Unpublished
  <2>4. CASE C!FutexWake(t)
    <3>1. PICK woken \in SUBSET {u \in Members : cv[u] = "asleep"} :
              cv' = [u \in Members |->
                       IF u = t THEN (IF owner = t THEN "in" ELSE "out")
                       ELSE IF u \in woken THEN "reload" ELSE cv[u]]
      BY <2>4 DEF C!FutexWake, C!WakeUpTo
    <3> QED
      BY <2>1, <2>4, <3>1, RawCountKept DEF C!FutexWake, Unpublished
  <2> QED
    BY <1>7, <2>2, <2>3, <2>4 DEF InCondition, C!WakeStep
<1>8. CASE UNCHANGED groupVars
  BY <1>8 DEF groupVars, condVars, GroupInv, CountExact, Unpublished
<1> QED
  BY <1>1, <1>2, <1>3, <1>4, <1>5, <1>6, <1>7, <1>8, <1>9, <1>10
  DEF GroupNext, TaskStep, OwnerGoesOn

-----------------------------------------------------------------------------
(* When the count is zero and the owner is registered with the condition, its
   wakeup is posted, or the finisher that published the zero has yet to post it.
   The owner registers under the mutex, with a count above zero. *)
SignalOwed ==
    /\ cv[Waiter] = "register" => rawCount > 0
    /\ rawCount = 0 /\ cv[Waiter] \in CP!Registered =>
         signals > 0 \/ \E t \in Tasks : at[t] = "signal"

(* Every step keeps it: who publishes zero holds the mutex, who finds as many
   signals as waiters finds one for the owner, and only the owner takes it. *)
LEMMA SignalOwedStep == GroupInv /\ SignalOwed /\ [GroupNext]_groupVars => SignalOwed'
<1> SUFFICES ASSUME GroupInv, SignalOwed, [GroupNext]_groupVars PROVE SignalOwed'
  OBVIOUS
<1>inv. /\ AtType /\ (\A t \in Tasks : TaskPlace(t)) /\ WaiterPlace /\ rawCount \in Nat
        /\ cv \in [Members -> {"out", "in", "register", "epoch", "wake", "unlock", "wait",
                               "asleep", "reload", "consume", "expired", "relock"}]
        /\ waiters \in Nat /\ signals \in Nat
        /\ \A t \in Members : cv[t] \in {"in", "register", "unlock"} => owner = t
  BY DEF GroupInv, CP!SignalInv, CP!CoreInv, CP!TypeOK, CP!Waiting, CP!Registered, CP!OwnerMatches
<1>reg. cv[Waiter] \in CP!Registered => waiters > 0
  <2> SUFFICES ASSUME cv[Waiter] \in CP!Registered PROVE waiters > 0
    OBVIOUS
  <2> DEFINE R == {t \in Members : cv[t] \in CP!Registered}
  <2>1. IsFiniteSet(R) /\ Waiter \in R
    <3>1. IsFiniteSet(Members)
      BY WaitGroupAssumption, FS_AddElement DEF Members
    <3> QED
      BY <3>1, FS_Subset DEF Members
  <2>2. waiters = Cardinality(R)
    BY DEF GroupInv, CP!SignalInv, CP!CoreInv, CP!SignalsCovered, CP!Cardinality, Cardinality
  <2>3. Cardinality(R) # 0
    BY <2>1, FS_EmptySet
  <2> QED
    BY <1>inv, <2>2, <2>3
<1> USE <1>inv, WaitGroupAssumption
    DEF SignalOwed, Members, AtType, Finishing, TaskPlace, WaiterPlace, At, C!Goto, CP!Registered
<1>1. CASE Acquire
  BY <1>1 DEF Acquire, LockMutex, C!Lock, C!Relock
<1>2. CASE Block \/ WaiterSpuriousReturn
  BY <1>2 DEF Block, WaiterSpuriousReturn, C!WaitCall, C!SpuriousReturn
<1>3. CASE FreeGroup
  BY <1>3 DEF FreeGroup, C!Unlock
<1>4. ASSUME NEW t \in Tasks, FinishCall(t) \/ FinishSlow(t) \/ FinishUnlock(t) PROVE SignalOwed'
  BY <1>4 DEF FinishCall, FinishSlow, FinishUnlock, C!Unlock, condVars
<1>5. ASSUME NEW t \in Tasks, FinishFast(t) \/ FinishLast(t) PROVE SignalOwed'
  BY <1>5 DEF FinishFast, FinishLast, condVars
<1>6. ASSUME NEW t \in Tasks, FinishSignal(t) PROVE SignalOwed'
  <2>1. cv[Waiter] \in CP!Registered => signals' > 0
    BY <1>6, <1>reg DEF FinishSignal, C!PostSignals, condVars
  <2>2. cv'[Waiter] = cv[Waiter] /\ rawCount' = rawCount
    BY <1>6 DEF FinishSignal, C!PostSignals, condVars
  <2> QED
    BY <2>1, <2>2
<1>7. CASE OwnerGoesOn
  BY <1>7 DEF OwnerGoesOn, WaitBegins, AddOne, ScheduleTask, condVars
<1>8. ASSUME NEW t \in Members, InCondition(t) PROVE SignalOwed'
  <2>1. rawCount' = rawCount /\ at' = at
    BY <1>8 DEF InCondition
  <2>2. CASE C!WaitStep(t)
    BY <2>1, <2>2
    DEF C!WaitStep, C!Register, C!WaitUnlock, C!FutexWait, C!Expire, C!ReloadEpoch, C!ConsumeSignal
  <2>3. CASE C!BumpEpoch(t)
    BY <2>1, <2>3 DEF C!BumpEpoch
  <2>4. CASE C!FutexWake(t)
    <3>1. PICK woken \in SUBSET {u \in Members : cv[u] = "asleep"} :
              cv' = [u \in Members |->
                       IF u = t THEN (IF owner = t THEN "in" ELSE "out")
                       ELSE IF u \in woken THEN "reload" ELSE cv[u]]
      BY <2>4 DEF C!FutexWake, C!WakeUpTo
    <3> QED
      BY <2>1, <2>4, <3>1 DEF C!FutexWake
  <2> QED
    BY <1>8, <2>2, <2>3, <2>4 DEF InCondition, C!WakeStep
<1>9. CASE UNCHANGED groupVars
  BY <1>9 DEF groupVars, condVars
<1> QED
  BY <1>1, <1>2, <1>3, <1>4, <1>5, <1>6, <1>7, <1>8, <1>9 DEF GroupNext, TaskStep

-----------------------------------------------------------------------------
(* When wait() has returned, no task touches the group any more: its owner may
   free it. *)
THEOREM GroupMayBeFreed == GroupSpec => []NoUseAfterFree
  BY GroupInvInit, GroupInvStep, PTL DEF GroupSpec, GroupInv

(* The condition inside the group keeps its promise: a signal posted by a task's
   end stays matched by a waiter that will look at it. *)
THEOREM GroupSignalsAreSeenTo == GroupSpec => []CP!NoStrandedSignal
  <1>1. GroupInv => CP!NoStrandedSignal
    BY CP!MatchedIsSeen, GroupThreads DEF GroupInv
  <1> QED
    BY <1>1, GroupInvInit, GroupInvStep, PTL DEF GroupSpec

(* The last finisher's wakeup reaches the owner, whatever signals earlier finishers
   have posted: it is owed, and what is posted is seen to. *)
THEOREM WaiterIsSeenTo == GroupSpec => []NoForgottenWaiter
<1>1. GroupInit => SignalOwed
  BY DEF GroupInit, C!Init, SignalOwed, CP!Registered, Members
<1>2. GroupInv /\ SignalOwed => NoForgottenWaiter
  <2> SUFFICES ASSUME GroupInv, SignalOwed, rawCount = 0, cv[Waiter] = "asleep",
                      \A t \in Tasks : at[t] # "signal"
               PROVE  \E t \in Tasks : cv[t] \in {"epoch", "wake"}
    BY DEF NoForgottenWaiter
  <2>1. signals > 0
    BY DEF SignalOwed, CP!Registered
  <2>2. PICK t \in Members : \/ cv[t] \in {"epoch", "wake", "reload", "consume", "expired"}
                             \/ cv[t] \in {"unlock", "wait"} /\ ~fresh[t]
    BY <2>1, CP!MatchedIsSeen, GroupThreads DEF GroupInv, CP!NoStrandedSignal
  <2>3. t \in Tasks
    BY <2>2 DEF Members
  <2>4. cv[t] \in {"out", "in", "epoch", "wake"}
    BY <2>3, WaitGroupAssumption DEF GroupInv, AtType, TaskPlace, Finishing, Members
  <2> QED
    BY <2>2, <2>3, <2>4
<1> QED
  BY <1>1, <1>2, GroupInvInit, GroupInvStep, SignalOwedStep, PTL DEF GroupSpec

-----------------------------------------------------------------------------
(* UnboundedQueue.  At every moment the pointers spell one sequence q of     *)
(* distinct nodes, of which the consumer has cut off the first k (Spelled):  *)
(* links that are stored, links a producer is about to store, the two ends   *)
(* and the consumer's locals all agree on it.  From that follow both that no *)
(* pointer leads out of the queue and that every access is a step of the     *)
(* abstract queue.  Trail and what pop_batch returns are recursive           *)
(* functions; what they compute is proved with the least number principle.   *)

(* Every set of numbers that is not empty has a least one: induction over
   positions, in the form the provers can use. *)
LEMMA LeastNumber == ASSUME NEW T, T \subseteq Nat, T # {} PROVE \E x \in T : \A y \in T : ~(y < x)
<1> DEFINE R == OpToRel(<, Nat)
<1>1. IsWellFoundedOn(R, Nat)
  BY NatLessThanWellFounded
<1>2. \A x, y \in Nat : y < x => <<y, x>> \in R
  BY DEF OpToRel
<1> HIDE DEF R
<1>3. \E x \in T : \A y \in T : ~(<<y, x>> \in R)
  BY <1>1, WFMin
<1> QED
  BY <1>2, <1>3

(* A sequence that begins with n and goes on with the successors is the trail
   from n: the recursive definition has one solution. *)
LEMMA TrailIs ==
    ASSUME NEW n, NEW w,
           w = [i \in 1..Cardinality(Nodes) |->
                  IF i = 1 THEN n ELSE IF w[i - 1] = NULL THEN NULL ELSE Successor(w[i - 1])]
    PROVE  Trail(n) = w
<1> DEFINE N == Cardinality(Nodes)
           Body(g) == [i \in 1..N |->
                  IF i = 1 THEN n ELSE IF g[i - 1] = NULL THEN NULL ELSE Successor(g[i - 1])]
           trail == CHOOSE g : g = Body(g)
<1>1. Trail(n) = trail
  BY DEF Trail
<1>2. trail = Body(trail)
  OBVIOUS
<1> HIDE DEF trail
<1>3. N \in Nat
  BY UnboundedQueueAssumption, FS_CardinalityType
<1> DEFINE Bad == {i \in 1..N : trail[i] # w[i]}
<1>4. Bad = {}
  <2> SUFFICES ASSUME Bad # {} PROVE FALSE
    OBVIOUS
  <2>1. PICK i \in Bad : \A j \in Bad : ~(j < i)
    <3>1. Bad \subseteq Nat
      BY <1>3
    <3> QED
      BY <3>1, LeastNumber
  <2>2. i \in 1..N /\ (i = 1 \/ (i - 1 \in 1..N /\ i - 1 < i))
    BY <1>3
  <2>3. i # 1 => trail[i - 1] = w[i - 1]
    BY <2>1, <2>2
  <2>4. trail[i] = Body(trail)[i] /\ w[i] = Body(w)[i]
    BY <1>2
  <2> QED
    BY <2>1, <2>2, <2>3, <2>4
<1>5. trail = [i \in 1..N |-> trail[i]]
  BY ONLY <1>2
<1>6. w = [i \in 1..N |-> w[i]]
  <2>1. w = Body(w)
    OBVIOUS
  <2> QED
    BY ONLY <2>1
<1> QED
  BY ONLY <1>1, <1>4, <1>5, <1>6

-----------------------------------------------------------------------------
(* Distinct nodes that are each other's successors, the last one without one,
   are the chain from the first. *)
LEMMA ChainIs ==
    ASSUME NEW x \in Seq(Nodes), \A i, j \in 1..Len(x) : x[i] = x[j] => i = j,
           NEW n, n = IF x = <<>> THEN NULL ELSE x[1],
           \A i \in 1..Len(x) : Successor(x[i]) = IF i = Len(x) THEN NULL ELSE x[i + 1]
    PROVE  Chain(n) = x
<1> DEFINE N == Cardinality(Nodes)
           w == [i \in 1..N |-> IF i <= Len(x) THEN x[i] ELSE NULL]
<1>1. N \in Nat /\ Len(x) \in Nat /\ \A i \in 1..Len(x) : x[i] \in Nodes /\ x[i] # NULL
  BY UnboundedQueueAssumption, FS_CardinalityType
<1>2. Len(x) <= N
  <2>1. x \in Injection(1..Len(x), Nodes)
    BY DEF Injection, IsInjective
  <2>2. Cardinality(1..Len(x)) <= N
    BY <2>1, UnboundedQueueAssumption, FS_Injection
  <2>3. 1 \in Int /\ Len(x) \in Int
    BY <1>1
  <2>4. Cardinality(1..Len(x)) = IF 1 > Len(x) THEN 0 ELSE Len(x) - 1 + 1
    BY <2>3, FS_Interval
  <2> QED
    BY <1>1, <2>2, <2>4
<1>3. \A i \in 1..N : w[i] = IF i = 1 THEN n ELSE IF w[i - 1] = NULL THEN NULL ELSE Successor(w[i - 1])
  <2> SUFFICES ASSUME NEW i \in 1..N
               PROVE  w[i] = IF i = 1 THEN n ELSE IF w[i - 1] = NULL THEN NULL ELSE Successor(w[i - 1])
    OBVIOUS
  <2>1. CASE i = 1
    BY <1>1, <2>1
  <2>2. CASE i # 1 /\ i - 1 <= Len(x)
    <3>1. i - 1 \in 1..Len(x) /\ i - 1 \in 1..N
      BY <1>1, <2>2
    <3>2. w[i - 1] = x[i - 1] /\ x[i - 1] # NULL
      BY <1>1, <3>1
    <3>3. Successor(x[i - 1]) = IF i - 1 = Len(x) THEN NULL ELSE x[i]
      BY <1>1, <3>1
    <3>4. w[i] = IF i - 1 = Len(x) THEN NULL ELSE x[i]
      BY <1>1, <3>1
    <3> QED
      BY <2>2, <3>2, <3>3, <3>4
  <2>3. CASE i # 1 /\ ~(i - 1 <= Len(x))
    <3>1. w[i - 1] = NULL /\ w[i] = NULL
      BY <1>1, <2>3
    <3> QED
      BY <2>3, <3>1
  <2> QED
    BY <2>1, <2>2, <2>3
<1>4. Trail(n) = w
  <2> DEFINE W == [i \in 1..N |-> IF i = 1 THEN n ELSE IF w[i - 1] = NULL THEN NULL ELSE Successor(w[i - 1])]
  <2>1. w = W
    BY <1>3
  <2> HIDE DEF w
  <2> QED
    BY ONLY <2>1, TrailIs, ZenonT(60)
<1>5. {i \in 1..N : w[i] # NULL} = 1..Len(x)
  BY <1>1, <1>2
<1>6. Cardinality(1..Len(x)) = Len(x)
  <2>1. 1 \in Int /\ Len(x) \in Int
    BY <1>1
  <2>2. Cardinality(1..Len(x)) = IF 1 > Len(x) THEN 0 ELSE Len(x) - 1 + 1
    BY <2>1, FS_Interval
  <2> QED
    BY <1>1, <2>2
<1>7. Chain(n) = SubSeq(w, 1, Len(x))
  BY <1>4, <1>5, <1>6 DEF Chain
<1>8. \A i \in 1..Len(x) : w[i] = x[i]
  BY <1>1, <1>2
<1> HIDE DEF w
<1>9. SubSeq(w, 1, Len(x)) = [i \in 1..Len(x) |-> w[i]]
  BY <1>1
<1> QED
  BY <1>1, <1>7, <1>8, <1>9

-----------------------------------------------------------------------------
(* The nodes of the pushes under way. *)
Unlinked == {pushing[p].node : p \in Pushing}

(* The types of the variables. *)
QueueTypes ==
    /\ next \in [Nodes -> Nodes \cup {NULL}]
    /\ pushing \in [Producers -> [node : Nodes \cup {NULL}, oldBack : Nodes \cup {NULL}]]
    /\ pc \in {"idle", "cas", "clear", "spin", "batch", "walk"}
    /\ count \in Nat

(* q are distinct nodes, of which the consumer has cut off the first k. *)
DistinctNodes(q, k) ==
    /\ q \in Seq(Nodes) /\ k \in 0..Len(q)
    /\ \A i, j \in 1..Len(q) : q[i] = q[j] => i = j

(* Every push under way is of one of them, behind the one before it; no two
   are of the same. What the consumer has cut off begins with a linked node. *)
Pushes(q, k) ==
    /\ \A p \in Pushing : \E i \in 1..Len(q) :
          /\ i = 1 => k = 0
          /\ pushing[p].node = q[i]
          /\ pushing[p].oldBack = IF i = k + 1 THEN NULL ELSE q[i - 1]
    /\ \A p, r \in Pushing : pushing[p].node = pushing[r].node => p = r

(* The links lead from each to the next but over the cut, where a push under
   way has not stored its link yet. *)
Links(q, k) ==
    /\ \A i \in 2..Len(q) :
          i # k + 1 => next[q[i - 1]] = IF q[i] \in Unlinked THEN NULL ELSE q[i]
    /\ \A i \in 1..Len(q) : i \in {k, Len(q)} => next[q[i]] = NULL

(* The ends. Between its two exchanges the consumer has taken front and not
   yet back. *)
Ends(q, k) ==
    /\ front = IF k = Len(q) THEN NULL ELSE IF q[k + 1] \in Unlinked THEN NULL ELSE q[k + 1]
    /\ IF pc \in {"clear", "spin", "batch"}
       THEN k = Len(q) /\ k # 0 /\ back = q[k]
       ELSE back = IF k = Len(q) THEN NULL ELSE q[Len(q)]

(* The consumer's locals. *)
Locals(q, k) ==
    /\ pc \in {"idle", "cas"} => k = 0
    /\ pc = "cas" =>
          /\ q # <<>> /\ q[1] \notin Unlinked /\ first = q[1]
          /\ nextItem # NULL => Len(q) > 1 /\ q[2] \notin Unlinked /\ nextItem = q[2]
    /\ pc \in {"clear", "spin", "batch", "walk"} => k # 0 /\ first = q[1]
    /\ pc = "walk" =>
          /\ last = q[k] /\ count \in 1..k /\ nextItem = q[count]
          /\ \A i \in 2..count : q[i] \notin Unlinked

Spelled(q, k) == DistinctNodes(q, k) /\ Pushes(q, k) /\ Links(q, k) /\ Ends(q, k) /\ Locals(q, k)

QueueInv == QueueTypes /\ \E q \in Seq(Nodes), k \in Nat : Spelled(q, k)

-----------------------------------------------------------------------------
(* What the spelling says about the nodes alone. *)
LEMMA NodeFacts ==
    ASSUME NEW q, NEW k, DistinctNodes(q, k)
    PROVE  /\ q \in Seq(Nodes) /\ Len(q) \in Nat /\ k \in Nat /\ k <= Len(q)
           /\ \A i \in 1..Len(q) : q[i] \in Nodes /\ q[i] # NULL
           /\ \A i, j \in 1..Len(q) : q[i] = q[j] => i = j
  BY UnboundedQueueAssumption DEF DistinctNodes

(* The push that found the i-th node as the old back is the one of the node
   after it, if that one is not linked yet. *)
LEMMA BehindNode ==
    ASSUME NEW q, NEW k, DistinctNodes(q, k), Pushes(q, k), NEW i \in 1..Len(q)
    PROVE  PushedBehind(q[i]) =
               IF i \in {k, Len(q)} THEN {} ELSE IF q[i + 1] \in Unlinked THEN {q[i + 1]} ELSE {}
<1>0. /\ q \in Seq(Nodes) /\ Len(q) \in Nat /\ k \in Nat /\ k <= Len(q)
      /\ \A n \in 1..Len(q) : q[n] \in Nodes /\ q[n] # NULL
      /\ \A n, m \in 1..Len(q) : q[n] = q[m] => n = m
  BY NodeFacts
<1> USE <1>0
<1>1. ASSUME NEW p \in Pushing, pushing[p].oldBack = q[i]
      PROVE  i \notin {k, Len(q)} /\ pushing[p].node = q[i + 1]
  <2>1. PICK j \in 1..Len(q) : /\ j = 1 => k = 0
                               /\ pushing[p].node = q[j]
                               /\ pushing[p].oldBack = IF j = k + 1 THEN NULL ELSE q[j - 1]
    BY DEF Pushes
  <2>2. j # k + 1 /\ j # 1
    <3>1. q[i] # NULL
      OBVIOUS
    <3>2. j # k + 1
      BY <1>1, <2>1, <3>1
    <3> QED
      BY <2>1, <3>2
  <2>3. j - 1 \in 1..Len(q) /\ q[j - 1] = q[i]
    BY <1>1, <2>1, <2>2
  <2>4. j - 1 = i
    BY <2>3
  <2> QED
    BY <2>1, <2>2, <2>4
<1>2. ASSUME i \notin {k, Len(q)}, q[i + 1] \in Unlinked
      PROVE  q[i + 1] \in PushedBehind(q[i])
  <2>1. PICK p \in Pushing : pushing[p].node = q[i + 1]
    BY <1>2 DEF Unlinked
  <2>2. PICK j \in 1..Len(q) : /\ j = 1 => k = 0
                               /\ pushing[p].node = q[j]
                               /\ pushing[p].oldBack = IF j = k + 1 THEN NULL ELSE q[j - 1]
    BY DEF Pushes
  <2>3. i + 1 \in 1..Len(q)
    BY <1>2
  <2>5. j = i + 1
    BY <2>1, <2>2, <2>3
  <2>4. pushing[p].oldBack = q[i]
    BY <1>2, <2>2, <2>5
  <2> QED
    BY <2>1, <2>4 DEF PushedBehind
<1>3. \A m \in PushedBehind(q[i]) : i \notin {k, Len(q)} /\ m = q[i + 1] /\ m \in Unlinked
  BY <1>1 DEF PushedBehind, Unlinked
<1> QED
  BY <1>2, <1>3

(* The push that found back null is the one of the first node that is not cut
   off, if it is not linked yet. *)
LEMMA BehindNull ==
    ASSUME NEW q, NEW k, DistinctNodes(q, k), Pushes(q, k)
    PROVE  PushedBehind(NULL) =
               IF k = Len(q) THEN {} ELSE IF q[k + 1] \in Unlinked THEN {q[k + 1]} ELSE {}
<1>0. /\ q \in Seq(Nodes) /\ Len(q) \in Nat /\ k \in Nat /\ k <= Len(q)
      /\ \A n \in 1..Len(q) : q[n] \in Nodes /\ q[n] # NULL
      /\ \A n, m \in 1..Len(q) : q[n] = q[m] => n = m
  BY NodeFacts
<1> USE <1>0
<1>1. ASSUME NEW p \in Pushing, pushing[p].oldBack = NULL
      PROVE  k # Len(q) /\ pushing[p].node = q[k + 1]
  <2>1. PICK j \in 1..Len(q) : /\ j = 1 => k = 0
                               /\ pushing[p].node = q[j]
                               /\ pushing[p].oldBack = IF j = k + 1 THEN NULL ELSE q[j - 1]
    BY DEF Pushes
  <2>2. j = k + 1
    <3> SUFFICES ASSUME j # k + 1 PROVE FALSE
      OBVIOUS
    <3>1. j - 1 \in 1..Len(q)
      BY <2>1
    <3> QED
      BY <1>1, <2>1, <3>1
  <2> QED
    BY <2>1, <2>2
<1>2. ASSUME k # Len(q), q[k + 1] \in Unlinked
      PROVE  q[k + 1] \in PushedBehind(NULL)
  <2>1. PICK p \in Pushing : pushing[p].node = q[k + 1]
    BY <1>2 DEF Unlinked
  <2>2. PICK j \in 1..Len(q) : /\ j = 1 => k = 0
                               /\ pushing[p].node = q[j]
                               /\ pushing[p].oldBack = IF j = k + 1 THEN NULL ELSE q[j - 1]
    BY DEF Pushes
  <2>3. k + 1 \in 1..Len(q)
    BY <1>2
  <2>5. j = k + 1
    BY <2>1, <2>2, <2>3
  <2>4. pushing[p].oldBack = NULL
    BY <1>2, <2>2, <2>5
  <2> QED
    BY <2>1, <2>4 DEF PushedBehind
<1>3. \A m \in PushedBehind(NULL) : k # Len(q) /\ m = q[k + 1] /\ m \in Unlinked
  BY <1>1 DEF PushedBehind, Unlinked
<1> QED
  BY <1>2, <1>3

(* The node after the i-th is found by its link or by the push that is about to
   store it; the cut and the end have none behind them. *)
LEMMA SuccessorOf ==
    ASSUME NEW q, NEW k, DistinctNodes(q, k), Pushes(q, k), Links(q, k), NEW i \in 1..Len(q)
    PROVE  Successor(q[i]) = IF i \in {k, Len(q)} THEN NULL ELSE q[i + 1]
<1>0. /\ q \in Seq(Nodes) /\ Len(q) \in Nat /\ k \in Nat /\ k <= Len(q)
      /\ \A n \in 1..Len(q) : q[n] \in Nodes /\ q[n] # NULL
      /\ \A n, m \in 1..Len(q) : q[n] = q[m] => n = m
  BY NodeFacts
<1> USE <1>0
<1>1. PushedBehind(q[i]) =
          IF i \in {k, Len(q)} THEN {} ELSE IF q[i + 1] \in Unlinked THEN {q[i + 1]} ELSE {}
  BY BehindNode
<1>2. CASE i \in {k, Len(q)}
  BY <1>1, <1>2 DEF Successor, Links
<1>3. CASE i \notin {k, Len(q)}
  <2>1. i + 1 \in 2..Len(q) /\ i + 1 # k + 1 /\ i + 1 - 1 = i
    BY <1>3
  <2>2. next[q[i]] = IF q[i + 1] \in Unlinked THEN NULL ELSE q[i + 1]
    BY <2>1 DEF Links
  <2>3. q[i + 1] # NULL /\ q[i] # NULL
    BY <2>1
  <2> QED
    BY <1>1, <1>3, <2>2, <2>3 DEF Successor
<1> QED
  BY <1>2, <1>3

(* The sequence that the pointers spell is the queue of the refinement, and the
   cut tells what the consumer has detached of it. *)
LEMMA SpelledQueue ==
    ASSUME NEW q, NEW k, Spelled(q, k), QueueTypes
    PROVE  /\ Detached = SubSeq(q, 1, k)
           /\ Attached = SubSeq(q, k + 1, Len(q))
           /\ Queued = q
<1> USE DEF Spelled
<1>0. /\ q \in Seq(Nodes) /\ Len(q) \in Nat /\ k \in Nat /\ k <= Len(q)
      /\ \A n \in 1..Len(q) : q[n] \in Nodes /\ q[n] # NULL
      /\ \A n, m \in 1..Len(q) : q[n] = q[m] => n = m
  BY NodeFacts
<1> USE <1>0
<1>1. \A i \in 1..Len(q) : Successor(q[i]) = IF i \in {k, Len(q)} THEN NULL ELSE q[i + 1]
  BY SuccessorOf
<1> DEFINE d == SubSeq(q, 1, k)
           e == SubSeq(q, k + 1, Len(q))
<1>2. d \in Seq(Nodes) /\ Len(d) = k /\ \A i \in 1..k : d[i] = q[i]
  OBVIOUS
<1>3. /\ e \in Seq(Nodes) /\ Len(e) = Len(q) - k
      /\ \A i \in 1..(Len(q) - k) : e[i] = q[k + i] /\ k + i \in 1..Len(q)
  OBVIOUS
<1>4. Detached = d
  <2>1. CASE pc \in {"clear", "spin", "batch", "walk"}
    <3>1. k # 0 /\ first = q[1]
      BY <2>1 DEF Locals
    <3>2. d # <<>> /\ first = d[1]
      BY <1>2, <3>1
    <3>3. \A i, j \in 1..Len(d) : d[i] = d[j] => i = j
      BY <1>2
    <3>4. \A i \in 1..Len(d) : Successor(d[i]) = IF i = Len(d) THEN NULL ELSE d[i + 1]
      BY <1>1, <1>2
    <3> HIDE DEF d
    <3>5. Chain(first) = d
      BY <1>2, <3>2, <3>3, <3>4, ChainIs
    <3> QED
      BY <2>1, <3>5 DEF Detached
  <2>2. CASE pc \notin {"clear", "spin", "batch", "walk"}
    <3>1. k = 0
      BY <2>2 DEF Locals, QueueTypes
    <3> QED
      BY <1>2, <2>2, <3>1 DEF Detached
  <2> QED
    BY <2>1, <2>2
<1>5. Attached = e
  <2> DEFINE n == IF front # NULL THEN front ELSE Successor(NULL)
  <2>1. n = IF e = <<>> THEN NULL ELSE e[1]
    <3>1. PushedBehind(NULL) =
               IF k = Len(q) THEN {} ELSE IF q[k + 1] \in Unlinked THEN {q[k + 1]} ELSE {}
      BY BehindNull
    <3>2. n = IF k = Len(q) THEN NULL ELSE q[k + 1]
      <4>1. CASE k = Len(q)
        BY <3>1, <4>1 DEF Ends, Successor
      <4>2. CASE k # Len(q) /\ q[k + 1] \in Unlinked
        BY <3>1, <4>2 DEF Ends, Successor
      <4>3. CASE k # Len(q) /\ q[k + 1] \notin Unlinked
        BY <3>1, <4>3 DEF Ends, Successor
      <4> QED
        BY <4>1, <4>2, <4>3
    <3>3. e = <<>> <=> k = Len(q)
      <4> HIDE DEF e
      <4>1. e = <<>> <=> Len(e) = 0
        BY <1>3
      <4> QED
        BY <1>3, <4>1
    <3>4. k # Len(q) => e[1] = q[k + 1]
      BY <1>3
    <3> QED
      BY <3>2, <3>3, <3>4
  <2>2. \A i, j \in 1..Len(e) : e[i] = e[j] => i = j
    <3> HIDE DEF e
    <3> SUFFICES ASSUME NEW i \in 1..Len(e), NEW j \in 1..Len(e), e[i] = e[j] PROVE i = j
      OBVIOUS
    <3>1. q[k + i] = q[k + j] /\ k + i \in 1..Len(q) /\ k + j \in 1..Len(q)
      BY <1>3
    <3>2. k + i = k + j
      BY <3>1
    <3> QED
      BY <3>2
  <2>3. \A i \in 1..Len(e) : Successor(e[i]) = IF i = Len(e) THEN NULL ELSE e[i + 1]
    <3> SUFFICES ASSUME NEW i \in 1..Len(e)
                 PROVE  Successor(e[i]) = IF i = Len(e) THEN NULL ELSE e[i + 1]
      OBVIOUS
    <3>1. k + i \in 1..Len(q) /\ e[i] = q[k + i] /\ k + i # k
      BY <1>3
    <3>2. i # Len(e) => e[i + 1] = q[k + i + 1] /\ k + i # Len(q)
      BY <1>3
    <3>3. i = Len(e) => k + i = Len(q)
      BY <1>3
    <3> QED
      BY <1>1, <3>1, <3>2, <3>3
  <2> HIDE DEF n, e
  <2>4. Chain(n) = e
    BY <1>3, <2>1, <2>2, <2>3, ChainIs
  <2> QED
    BY <2>4 DEF Attached, n
<1>6. d \o e = q
  <2>1. \A i \in 1..Len(q) : IF i <= k THEN d[i] = q[i] ELSE e[i - k] = q[i]
    BY <1>2, <1>3
  <2> HIDE DEF d, e
  <2>2. d \in Seq(Nodes) /\ e \in Seq(Nodes) /\ Len(d) = k /\ Len(d) + Len(e) = Len(q)
    BY <1>2, <1>3
  <2>3. /\ d \o e \in Seq(Nodes)
        /\ Len(d \o e) = Len(d) + Len(e)
        /\ \A i \in 1..Len(d) + Len(e) :
              (d \o e)[i] = IF i <= Len(d) THEN d[i] ELSE e[i - Len(d)]
    BY ONLY <2>2, ConcatProperties, Zenon
  <2>4. \A i \in 1..Len(q) : (d \o e)[i] = q[i]
    BY ONLY <2>1, <2>2, <2>3
  <2> QED
    BY <2>2, <2>3, <2>4, SeqEqual
<1> QED
  BY <1>4, <1>5, <1>6 DEF Queued

-----------------------------------------------------------------------------
(* The consumer cuts off a front it has seen linked. *)
LEMMA HeadLinked ==
    ASSUME NEW q, NEW k, DistinctNodes(q, k), Pushes(q, k), k # 0
    PROVE  q[1] \notin Unlinked
<1> SUFFICES ASSUME q[1] \in Unlinked PROVE FALSE
  OBVIOUS
<1>1. /\ Len(q) \in Nat /\ k \in Nat /\ k <= Len(q)
      /\ \A n, m \in 1..Len(q) : q[n] = q[m] => n = m
  BY NodeFacts
<1>2. PICK p \in Pushing : pushing[p].node = q[1]
  BY DEF Unlinked
<1>3. PICK i \in 1..Len(q) : (i = 1 => k = 0) /\ pushing[p].node = q[i]
  BY DEF Pushes
<1>4. 1 \in 1..Len(q) /\ q[1] = q[i]
  BY <1>1, <1>2, <1>3
<1>5. i = 1
  BY <1>1, <1>4
<1> QED
  BY <1>3, <1>5

(* A step of the consumer leaves the pushes under way alone. *)
LEMMA QuietProducers ==
    ASSUME pushing' = pushing
    PROVE  Pushing' = Pushing /\ Unlinked' = Unlinked
  BY DEF Pushing, Unlinked

(* A step of the consumer's locals keeps what is said of nodes, pushes and links. *)
LEMMA KeptParts ==
    ASSUME NEW q, NEW k, Spelled(q, k), UNCHANGED <<pushing, next>>
    PROVE  DistinctNodes(q, k)' /\ Pushes(q, k)' /\ Links(q, k)'
  BY QuietProducers DEF Spelled, DistinctNodes, Pushes, Links

(* The exchange of front for null cuts off everything that is there. *)
LEMMA Cut ==
    ASSUME NEW q, Spelled(q, 0), UNCHANGED <<pushing, next>>, q # <<>>, q[1] \notin Unlinked
    PROVE  DistinctNodes(q, Len(q))' /\ Pushes(q, Len(q))' /\ Links(q, Len(q))'
<1>0. /\ q \in Seq(Nodes) /\ Len(q) \in Nat /\ Len(q) # 0
      /\ \A i \in 1..Len(q) : q[i] \in Nodes /\ q[i] # NULL
      /\ \A i, j \in 1..Len(q) : q[i] = q[j] => i = j
  BY NodeFacts DEF Spelled
<1>1. DistinctNodes(q, Len(q))'
  BY <1>0 DEF DistinctNodes
<1>2. Pushes(q, Len(q))'
  <2> SUFFICES ASSUME NEW p \in Pushing
               PROVE  \E i \in 1..Len(q) :
                        /\ i = 1 => Len(q) = 0
                        /\ pushing[p].node = q[i]
                        /\ pushing[p].oldBack = IF i = Len(q) + 1 THEN NULL ELSE q[i - 1]
    BY QuietProducers DEF Pushes, Spelled
  <2>1. PICK i \in 1..Len(q) :
                        /\ i = 1 => 0 = 0
                        /\ pushing[p].node = q[i]
                        /\ pushing[p].oldBack = IF i = 0 + 1 THEN NULL ELSE q[i - 1]
    BY DEF Pushes, Spelled
  <2>2. i # 1
    BY <2>1 DEF Unlinked
  <2>3. i # Len(q) + 1 /\ i # 0 + 1
    BY <1>0, <2>2
  <2> QED
    BY <2>1, <2>2, <2>3
<1>3. Links(q, Len(q))'
  <2>1. \A i \in 2..Len(q) : next[q[i - 1]] = IF q[i] \in Unlinked THEN NULL ELSE q[i]
    BY <1>0 DEF Links, Spelled
  <2>2. \A i \in 1..Len(q) : i = Len(q) => next[q[i]] = NULL
    BY DEF Links, Spelled
  <2> QED
    BY <2>1, <2>2, QuietProducers DEF Links
<1> QED
  BY <1>1, <1>2, <1>3

(* Handing out a linked prefix up to the cut leaves a queue of the rest. *)
LEMMA Drop ==
    ASSUME NEW q, NEW k, Spelled(q, k), UNCHANGED <<pushing, next>>,
           NEW m \in 1..Len(q), k \in {0, m, Len(q)},
           \A i \in 1..m : q[i] \notin Unlinked,
           m < Len(q) => m = k \/ q[m + 1] \notin Unlinked
    PROVE  LET r == SubSeq(q, m + 1, Len(q))
           IN  /\ r \in Seq(Nodes) /\ Len(r) = Len(q) - m
               /\ \A i \in 1..Len(r) : m + i \in 1..Len(q) /\ r[i] = q[m + i]
               /\ DistinctNodes(r, 0)' /\ Pushes(r, 0)' /\ Links(r, 0)'
<1> DEFINE r == SubSeq(q, m + 1, Len(q))
<1>0. /\ q \in Seq(Nodes) /\ Len(q) \in Nat /\ k \in Nat /\ k <= Len(q)
      /\ \A i \in 1..Len(q) : q[i] \in Nodes /\ q[i] # NULL
      /\ \A i, j \in 1..Len(q) : q[i] = q[j] => i = j
  BY NodeFacts DEF Spelled
<1>1. r \in Seq(Nodes) /\ Len(r) = Len(q) - m
  BY <1>0
<1>2. \A i \in 1..Len(r) : m + i \in 1..Len(q) /\ r[i] = q[m + i]
  BY <1>0
<1> HIDE DEF r
<1>3. DistinctNodes(r, 0)'
  <2> SUFFICES ASSUME NEW i \in 1..Len(r), NEW j \in 1..Len(r), r[i] = r[j] PROVE i = j
    BY <1>0, <1>1 DEF DistinctNodes
  <2>1. q[m + i] = q[m + j] /\ m + i \in 1..Len(q) /\ m + j \in 1..Len(q)
    BY <1>2
  <2>2. m + i = m + j
    BY <1>0, <2>1
  <2> QED
    BY <1>0, <1>1, <2>2
<1>4. Pushes(r, 0)'
  <2> SUFFICES ASSUME NEW p \in Pushing
               PROVE  \E i \in 1..Len(r) :
                        /\ pushing[p].node = r[i]
                        /\ pushing[p].oldBack = IF i = 1 THEN NULL ELSE r[i - 1]
    BY QuietProducers DEF Pushes, Spelled
  <2>1. PICK i \in 1..Len(q) :
                        /\ i = 1 => k = 0
                        /\ pushing[p].node = q[i]
                        /\ pushing[p].oldBack = IF i = k + 1 THEN NULL ELSE q[i - 1]
    BY DEF Pushes, Spelled
  <2>2. q[i] \in Unlinked
    BY <2>1 DEF Unlinked
  <2>3. i > m
    BY <1>0, <2>2
  <2>4. i - m \in 1..Len(r) /\ r[i - m] = q[i]
    BY <1>0, <1>1, <1>2, <2>3
  <2>5. CASE i = m + 1
    <3>1. m < Len(q)
      BY <1>0, <2>5
    <3>2. i = k + 1
      BY <1>0, <2>2, <2>5, <3>1
    <3>3. i - m = 1
      BY <2>5
    <3> QED
      BY <2>1, <2>4, <3>2, <3>3
  <2>6. CASE i # m + 1
    <3>1. i # k + 1
      BY <1>0, <2>3, <2>6
    <3>2. i - m # 1 /\ i - m - 1 \in 1..Len(r) /\ r[i - m - 1] = q[i - 1]
      BY <1>0, <1>1, <1>2, <2>3, <2>6
    <3> QED
      BY <2>1, <2>4, <3>1, <3>2
  <2> QED
    BY <2>5, <2>6
<1>5. Links(r, 0)'
  <2>1. ASSUME NEW i \in 2..Len(r)
        PROVE  next[r[i - 1]] = IF r[i] \in Unlinked THEN NULL ELSE r[i]
    <3>1. r[i] = q[m + i] /\ i - 1 \in 1..Len(r) /\ m + i \in 2..Len(q)
      BY <1>0, <1>1, <1>2
    <3>2. r[i - 1] = q[m + i - 1]
      BY <1>0, <1>1, <1>2, <3>1
    <3>3. m + i # k + 1
      BY <1>0, <3>1
    <3>4. next[q[m + i - 1]] = IF q[m + i] \in Unlinked THEN NULL ELSE q[m + i]
      BY <3>1, <3>3 DEF Links, Spelled
    <3> QED
      BY <3>1, <3>2, <3>4
  <2>2. ASSUME NEW i \in 1..Len(r), i = Len(r)
        PROVE  next[r[i]] = NULL
    <3>1. m + i = Len(q) /\ r[i] = q[Len(q)] /\ Len(q) \in 1..Len(q)
      BY <1>0, <1>1, <1>2, <2>2
    <3> QED
      BY <3>1 DEF Links, Spelled
  <2>3. \A i \in 1..Len(r) : i \in {0, Len(r)} => next[r[i]] = NULL
    BY <1>0, <1>1, <2>2
  <2> QED
    BY <2>1, <2>3, QuietProducers DEF Links
<1> QED
  BY <1>1, <1>2, <1>3, <1>4, <1>5 DEF r

-----------------------------------------------------------------------------
(* push: the swap of back appends the node, behind the cut if all of the queue is
   cut off, and the node is not linked yet. *)
LEMMA PushStep ==
    ASSUME NEW q, NEW k, Spelled(q, k), QueueTypes, Queued = q,
           NEW p \in Producers, NEW n \in Nodes, Push(p, n)
    PROVE  /\ QueueTypes'
           /\ Unlinked' = Unlinked \cup {n}
           /\ \E j \in {k, k + 1} : Spelled(Append(q, n), j)'
<1> DEFINE r == Append(q, n)
<1>0. /\ q \in Seq(Nodes) /\ Len(q) \in Nat /\ k \in Nat /\ k <= Len(q)
      /\ \A i \in 1..Len(q) : q[i] \in Nodes /\ q[i] # NULL
      /\ \A i, j \in 1..Len(q) : q[i] = q[j] => i = j
  BY NodeFacts DEF Spelled
<1>1. n # NULL /\ \A i \in 1..Len(q) : q[i] # n
  BY <1>0, UnboundedQueueAssumption DEF Push, Range
<1>2. r \in Seq(Nodes) /\ Len(r) = Len(q) + 1 /\ r[Len(q) + 1] = n /\ \A i \in 1..Len(q) : r[i] = q[i]
  BY <1>0
<1>3. back \in Nodes \cup {NULL}
  BY <1>0 DEF Ends, Spelled
<1>4. /\ p \notin Pushing /\ pushing'[p] = [node |-> n, oldBack |-> back]
      /\ \A s \in Producers : s # p => pushing'[s] = pushing[s]
  BY DEF Push, QueueTypes
<1>5. Pushing' = Pushing \cup {p}
  <2>1. [node |-> n, oldBack |-> back] # NoPush
    BY <1>1 DEF NoPush
  <2> QED
    BY <1>4, <2>1 DEF Pushing
<1>6. \A s \in Pushing : s # p /\ pushing'[s] = pushing[s]
  BY <1>4 DEF Pushing
<1>7. Unlinked' = Unlinked \cup {n}
  BY <1>4, <1>5, <1>6 DEF Unlinked
<1>8. QueueTypes'
  BY <1>3 DEF QueueTypes, Push
<1>9. next'[n] = NULL /\ \A m \in Nodes : m # n => next'[m] = next[m]
  BY DEF Push, QueueTypes
<1> HIDE DEF r
<1>10. PICK j \in {k, k + 1} : j = IF pc \in {"clear", "spin", "batch"} THEN k + 1 ELSE k
  OBVIOUS
<1>11. j # k => k = Len(q) /\ k # 0
  BY <1>0, <1>10 DEF Ends, Spelled
<1>12. DistinctNodes(r, j)'
  <2>1. j \in 0..Len(r)
    BY <1>0, <1>2, <1>11
  <2>2. \A a, b \in 1..Len(r) : r[a] = r[b] => a = b
    BY <1>0, <1>1, <1>2
  <2> QED
    BY <1>2, <2>1, <2>2 DEF DistinctNodes
<1>13. Pushes(r, j)'
  <2>1. ASSUME NEW s \in Pushing
        PROVE  \E i \in 1..Len(r) :
                  /\ i = 1 => j = 0
                  /\ pushing'[s].node = r[i]
                  /\ pushing'[s].oldBack = IF i = j + 1 THEN NULL ELSE r[i - 1]
    <3>1. PICK i \in 1..Len(q) :
                  /\ i = 1 => k = 0
                  /\ pushing[s].node = q[i]
                  /\ pushing[s].oldBack = IF i = k + 1 THEN NULL ELSE q[i - 1]
      BY DEF Pushes, Spelled
    <3>2. i \in 1..Len(r) /\ r[i] = q[i] /\ (i = 1 => j = 0)
      BY <1>0, <1>2, <1>11, <3>1
    <3>3. (i = k + 1) = (i = j + 1)
      BY <1>0, <1>11
    <3>4. i # k + 1 => r[i - 1] = q[i - 1]
      <4> SUFFICES ASSUME i # k + 1 PROVE r[i - 1] = q[i - 1]
        OBVIOUS
      <4>1. i - 1 \in 1..Len(q)
        BY <1>0, <3>1
      <4> QED
        BY <1>2, <4>1
    <3> QED
      BY <1>6, <3>1, <3>2, <3>3, <3>4
  <2>2. \E i \in 1..Len(r) :
                  /\ i = 1 => j = 0
                  /\ pushing'[p].node = r[i]
                  /\ pushing'[p].oldBack = IF i = j + 1 THEN NULL ELSE r[i - 1]
    <3> DEFINE i == Len(q) + 1
    <3>1. i \in 1..Len(r) /\ (i = 1 => j = 0)
      BY <1>0, <1>2, <1>11
    <3>2. back = IF i = j + 1 THEN NULL ELSE r[i - 1]
      <4>1. CASE pc \in {"clear", "spin", "batch"}
        <5>1. back = q[k] /\ k = Len(q) /\ k # 0 /\ j = k + 1
          BY <1>10, <4>1 DEF Ends, Spelled
        <5>2. i # j + 1 /\ i - 1 = k /\ k \in 1..Len(q)
          BY <1>0, <5>1
        <5> QED
          BY <1>2, <5>1, <5>2
      <4>2. CASE pc \notin {"clear", "spin", "batch"}
        <5>1. j = k /\ back = IF k = Len(q) THEN NULL ELSE q[Len(q)]
          BY <1>10, <4>2 DEF Ends, Spelled
        <5>2. (i = j + 1) = (k = Len(q)) /\ i - 1 = Len(q)
          BY <1>0, <5>1
        <5>3. k # Len(q) => Len(q) \in 1..Len(q) /\ r[Len(q)] = q[Len(q)]
          BY <1>0, <1>2
        <5> QED
          BY <5>1, <5>2, <5>3
      <4> QED
        BY <4>1, <4>2
    <3>3. pushing'[p].node = r[i] /\ pushing'[p].oldBack = back
      BY <1>2, <1>4
    <3> QED
      BY <3>1, <3>2, <3>3
  <2>3. \A s \in Pushing : pushing'[s].node # n
    <3> TAKE s \in Pushing
    <3>1. PICK i \in 1..Len(q) : pushing[s].node = q[i]
      BY DEF Pushes, Spelled
    <3> QED
      BY <1>1, <1>6, <3>1
  <2>4. \A s, t \in Pushing \cup {p} : pushing'[s].node = pushing'[t].node => s = t
    <3>1. pushing'[p].node = n
      BY <1>4
    <3>2. \A s, t \in Pushing : pushing'[s].node = pushing'[t].node => s = t
      BY <1>6 DEF Pushes, Spelled
    <3> QED
      BY <2>3, <3>1, <3>2
  <2>5. \A s \in Pushing \cup {p} : \E i \in 1..Len(r) :
                  /\ i = 1 => j = 0
                  /\ pushing'[s].node = r[i]
                  /\ pushing'[s].oldBack = IF i = j + 1 THEN NULL ELSE r[i - 1]
    BY <2>1, <2>2
  <2> QED
    BY <1>5, <2>4, <2>5 DEF Pushes
<1>14. Links(r, j)'
  <2>1. ASSUME NEW i \in 2..Len(r), i # j + 1
        PROVE  next'[r[i - 1]] = IF r[i] \in Unlinked' THEN NULL ELSE r[i]
    <3>1. i - 1 \in 1..Len(q) /\ r[i - 1] = q[i - 1]
      BY <1>0, <1>2
    <3>2. next'[r[i - 1]] = next[q[i - 1]]
      BY <1>0, <1>1, <1>9, <3>1
    <3>3. CASE i = Len(q) + 1
      <4>1. r[i] \in Unlinked'
        BY <1>2, <1>7, <3>3
      <4>2. next[q[i - 1]] = NULL
        BY <1>0, <3>1, <3>3 DEF Links, Spelled
      <4> QED
        BY <3>2, <4>1, <4>2
    <3>4. CASE i # Len(q) + 1
      <4>1. i \in 2..Len(q) /\ r[i] = q[i] /\ i # k + 1
        BY <1>0, <1>2, <1>11, <2>1, <3>4
      <4>2. next[q[i - 1]] = IF q[i] \in Unlinked THEN NULL ELSE q[i]
        BY <4>1 DEF Links, Spelled
      <4>3. q[i] # n
        BY <1>1, <4>1
      <4> QED
        BY <1>7, <3>2, <4>1, <4>2, <4>3
    <3> QED
      BY <3>3, <3>4
  <2>2. ASSUME NEW i \in 1..Len(r), i \in {j, Len(r)}
        PROVE  next'[r[i]] = NULL
    <3>1. CASE i = Len(q) + 1
      BY <1>2, <1>9, <3>1
    <3>2. CASE i # Len(q) + 1
      <4>1. i = k /\ i \in 1..Len(q) /\ r[i] = q[i]
        BY <1>0, <1>2, <1>11, <2>2, <3>2
      <4>2. next[q[i]] = NULL
        BY <4>1 DEF Links, Spelled
      <4>3. q[i] \in Nodes /\ q[i] # n
        BY <1>0, <1>1, <4>1
      <4> QED
        BY <1>9, <4>1, <4>2, <4>3
    <3> QED
      BY <3>1, <3>2
  <2> QED
    BY <2>1, <2>2 DEF Links
<1>15. Ends(r, j)'
  <2>1. back' = n /\ front' = front /\ pc' = pc
    BY DEF Push
  <2>2. back' = r[Len(r)]
    BY <1>2, <2>1
  <2>3. CASE pc \in {"clear", "spin", "batch"}
    <3>1. j = Len(r) /\ j # 0 /\ k = Len(q)
      BY <1>0, <1>2, <1>10, <2>3 DEF Ends, Spelled
    <3>2. front = NULL
      BY <3>1 DEF Ends, Spelled
    <3> QED
      BY <2>1, <2>2, <2>3, <3>1, <3>2 DEF Ends
  <2>4. CASE pc \notin {"clear", "spin", "batch"}
    <3>1. j = k /\ k # Len(r)
      BY <1>0, <1>2, <1>10, <2>4
    <3>2. front = IF r[k + 1] \in Unlinked' THEN NULL ELSE r[k + 1]
      <4>1. CASE k = Len(q)
        BY <1>2, <1>7, <4>1 DEF Ends, Spelled
      <4>2. CASE k # Len(q)
        <5>1. k + 1 \in 1..Len(q) /\ r[k + 1] = q[k + 1] /\ q[k + 1] # n
          BY <1>0, <1>1, <1>2, <4>2
        <5> QED
          BY <1>7, <4>2, <5>1 DEF Ends, Spelled
      <4> QED
        BY <4>1, <4>2
    <3> QED
      BY <2>1, <2>2, <2>4, <3>1, <3>2 DEF Ends
  <2> QED
    BY <2>3, <2>4
<1>16. Locals(r, j)'
  <2>1. UNCHANGED <<pc, first, nextItem, last, count>>
    BY DEF Push
  <2>2. \A i \in 1..Len(q) : r[i] = q[i] /\ (r[i] \in Unlinked' <=> q[i] \in Unlinked)
    BY <1>1, <1>2, <1>7
  <2>3. CASE pc \in {"idle", "cas"}
    <3>1. j = k /\ k = 0 /\ r # <<>>
      BY <1>2, <1>10, <2>3 DEF Locals, Spelled
    <3>2. pc = "cas" => 1 \in 1..Len(q) /\ (nextItem # NULL => 2 \in 1..Len(q))
      BY <1>0 DEF Locals, Spelled
    <3> QED
      BY <1>0, <1>2, <2>1, <2>2, <2>3, <3>1, <3>2 DEF Locals, Spelled
  <2>4. CASE pc \in {"clear", "spin", "batch"}
    <3>1. j # 0 /\ k \in 1..Len(q) /\ 1 \in 1..Len(q) /\ first = q[1]
      BY <1>0, <1>10, <2>4 DEF Locals, Spelled
    <3> QED
      BY <2>1, <2>2, <2>4, <3>1 DEF Locals
  <2>5. CASE pc = "walk"
    <3>1. j = k /\ k # 0 /\ first = q[1] /\ last = q[k] /\ count \in 1..k /\ nextItem = q[count]
      BY <1>10, <2>5 DEF Locals, Spelled
    <3>2. \A i \in 2..count : q[i] \notin Unlinked
      BY <2>5 DEF Locals, Spelled
    <3>3. 1 \in 1..Len(q) /\ k \in 1..Len(q) /\ count \in 1..Len(q)
      BY <1>0, <3>1
    <3>4. \A i \in 2..count : i \in 1..Len(q)
      BY <1>0, <3>1
    <3> QED
      BY <2>1, <2>2, <2>5, <3>1, <3>2, <3>3, <3>4 DEF Locals
  <2> QED
    BY <2>3, <2>4, <2>5 DEF QueueTypes
<1> QED
  BY <1>7, <1>8, <1>12, <1>13, <1>14, <1>15, <1>16 DEF Spelled, r

(* The store that ends a push links its node and moves nothing. *)
LEMMA LinkStep ==
    ASSUME NEW q, NEW k, Spelled(q, k), QueueTypes, NEW p \in Producers, Link(p)
    PROVE  /\ QueueTypes'
           /\ pushing[p].node \in Unlinked
           /\ Unlinked' = Unlinked \ {pushing[p].node}
           /\ Spelled(q, k)'
<1>0. /\ q \in Seq(Nodes) /\ Len(q) \in Nat /\ k \in Nat /\ k <= Len(q)
      /\ \A i \in 1..Len(q) : q[i] \in Nodes /\ q[i] # NULL
      /\ \A i, j \in 1..Len(q) : q[i] = q[j] => i = j
  BY NodeFacts DEF Spelled
<1>1. p \in Pushing
  BY DEF Link
<1>2. PICK x \in 1..Len(q) :
          /\ x = 1 => k = 0
          /\ pushing[p].node = q[x]
          /\ pushing[p].oldBack = IF x = k + 1 THEN NULL ELSE q[x - 1]
  BY <1>1 DEF Pushes, Spelled
<1>3. x # k + 1 => x - 1 \in 1..Len(q)
  BY <1>0, <1>2
<1>4. pushing'[p] = NoPush /\ \A s \in Producers : s # p => pushing'[s] = pushing[s]
  BY DEF Link, QueueTypes
<1>5. Pushing' = Pushing \ {p}
  BY <1>4 DEF Pushing
<1>6. \A s \in Pushing' : s \in Pushing /\ s # p /\ pushing'[s] = pushing[s]
  BY <1>4, <1>5 DEF Pushing
<1>7. q[x] \in Unlinked /\ Unlinked' = Unlinked \ {q[x]}
  <2>1. \A s \in Pushing : pushing[s].node = q[x] => s = p
    BY <1>1, <1>2 DEF Pushes, Spelled
  <2> QED
    BY <1>1, <1>2, <1>5, <1>6, <2>1 DEF Unlinked
<1>8. /\ x = k + 1 => front' = q[x] /\ next' = next
      /\ x # k + 1 => front' = front /\ next' = [next EXCEPT ![q[x - 1]] = q[x]]
  BY <1>0, <1>2, <1>3 DEF Link
<1>9. QueueTypes'
  <2>1. pushing' \in [Producers -> [node : Nodes \cup {NULL}, oldBack : Nodes \cup {NULL}]]
    BY DEF Link, QueueTypes, NoPush
  <2>2. next' \in [Nodes -> Nodes \cup {NULL}]
    BY <1>0, <1>3, <1>8 DEF QueueTypes
  <2> QED
    BY <2>1, <2>2 DEF Link, QueueTypes
<1>10. DistinctNodes(q, k)'
  BY DEF DistinctNodes, Spelled
<1>11. Pushes(q, k)'
  <2>1. \A s, t \in Pushing' : pushing'[s].node = pushing'[t].node => s = t
    BY <1>6 DEF Pushes, Spelled
  <2>2. \A s \in Pushing' : \E i \in 1..Len(q) :
                  /\ i = 1 => k = 0
                  /\ pushing'[s].node = q[i]
                  /\ pushing'[s].oldBack = IF i = k + 1 THEN NULL ELSE q[i - 1]
    BY <1>6 DEF Pushes, Spelled
  <2> QED
    BY <2>1, <2>2 DEF Pushes
<1>12. Links(q, k)'
  <2>1. \A i \in 1..Len(q) : next'[q[i]] = IF x # k + 1 /\ i = x - 1 THEN q[x] ELSE next[q[i]]
    BY <1>0, <1>3, <1>8 DEF QueueTypes
  <2>2. ASSUME NEW i \in 2..Len(q), i # k + 1
        PROVE  next'[q[i - 1]] = IF q[i] \in Unlinked' THEN NULL ELSE q[i]
    <3>1. i - 1 \in 1..Len(q) /\ i \in 1..Len(q)
      BY <1>0
    <3>2. CASE i = x
      BY <1>7, <2>1, <2>2, <3>1, <3>2
    <3>3. CASE i # x
      <4>1. next'[q[i - 1]] = next[q[i - 1]]
        BY <1>0, <2>1, <3>1, <3>3
      <4>2. q[i] # q[x]
        BY <1>0, <3>1, <3>3
      <4>3. next[q[i - 1]] = IF q[i] \in Unlinked THEN NULL ELSE q[i]
        BY <2>2 DEF Links, Spelled
      <4> QED
        BY <1>7, <4>1, <4>2, <4>3
    <3> QED
      BY <3>2, <3>3
  <2>3. ASSUME NEW i \in 1..Len(q), i \in {k, Len(q)}
        PROVE  next'[q[i]] = NULL
    <3>1. ~(x # k + 1 /\ i = x - 1)
      BY <1>0, <2>3
    <3> QED
      BY <2>1, <2>3, <3>1 DEF Links, Spelled
  <2> QED
    BY <2>2, <2>3 DEF Links
<1>13. Ends(q, k)'
  <2>1. UNCHANGED <<back, pc>>
    BY DEF Link
  <2>2. front' = IF k = Len(q) THEN NULL ELSE IF q[k + 1] \in Unlinked' THEN NULL ELSE q[k + 1]
    <3>1. CASE x = k + 1
      BY <1>0, <1>7, <1>8, <3>1
    <3>2. CASE x # k + 1
      <4>1. k # Len(q) => q[k + 1] # q[x]
        BY <1>0, <3>2
      <4> QED
        BY <1>7, <1>8, <3>2, <4>1 DEF Ends, Spelled
    <3> QED
      BY <3>1, <3>2
  <2> QED
    BY <2>1, <2>2 DEF Ends, Spelled
<1>14. Locals(q, k)'
  BY <1>7 DEF Locals, Spelled, Link
<1> QED
  BY <1>2, <1>7, <1>9, <1>10, <1>11, <1>12, <1>13, <1>14 DEF Spelled

-----------------------------------------------------------------------------
(* The consumer got the first m items, which were all linked. *)
Taken(q, m) ==
    /\ m \in 1..Len(q) /\ out' = SubSeq(q, 1, m)
    /\ \A i \in 1..m : q[i] \notin Unlinked
    /\ Spelled(SubSeq(q, m + 1, Len(q)), 0)'

(* A call that returns a linked prefix, with front and back set for the rest. *)
LEMMA ReturnTaken ==
    ASSUME NEW q, NEW k, Spelled(q, k), QueueTypes, UNCHANGED <<pushing, next>>,
           NEW m \in 1..Len(q), k \in {0, m, Len(q)},
           \A i \in 1..m : q[i] \notin Unlinked,
           m < Len(q) => m = k \/ q[m + 1] \notin Unlinked,
           NEW o, o = SubSeq(q, 1, m), Return(o),
           front' = IF m = Len(q) THEN NULL ELSE IF q[m + 1] \in Unlinked THEN NULL ELSE q[m + 1],
           back' = IF m = Len(q) THEN NULL ELSE q[Len(q)]
    PROVE  QueueTypes' /\ Taken(q, m)
<1>0. q \in Seq(Nodes) /\ Len(q) \in Nat
  BY NodeFacts DEF Spelled
<1>1. PICK r : r = SubSeq(q, m + 1, Len(q))
  OBVIOUS
<1>2. /\ r \in Seq(Nodes) /\ Len(r) = Len(q) - m
      /\ \A i \in 1..Len(r) : m + i \in 1..Len(q) /\ r[i] = q[m + i]
      /\ DistinctNodes(r, 0)' /\ Pushes(r, 0)' /\ Links(r, 0)'
  <2>1. LET s == SubSeq(q, m + 1, Len(q))
        IN  /\ s \in Seq(Nodes) /\ Len(s) = Len(q) - m
            /\ \A i \in 1..Len(s) : m + i \in 1..Len(q) /\ s[i] = q[m + i]
            /\ DistinctNodes(s, 0)' /\ Pushes(s, 0)' /\ Links(s, 0)'
    BY Drop
  <2> QED
    BY <1>1, <2>1
<1>3. Ends(r, 0)'
  <2>1. pc' = "idle" /\ Unlinked' = Unlinked
    BY QuietProducers DEF Return
  <2>2. CASE m = Len(q)
    BY <1>0, <1>2, <2>1, <2>2 DEF Ends
  <2>3. CASE m # Len(q)
    <3>1. 0 # Len(r) /\ r[1] = q[m + 1] /\ r[Len(r)] = q[Len(q)]
      <4>1. Len(r) \in Nat \ {0} /\ m + Len(r) = Len(q)
        BY ONLY <1>0, <1>2, <2>3, m \in 1..Len(q)
      <4>2. 1 \in 1..Len(r) /\ Len(r) \in 1..Len(r)
        BY ONLY <4>1
      <4>3. \A i \in 1..Len(r) : r[i] = q[m + i]
        BY ONLY <1>2
      <4> QED
        BY ONLY <4>1, <4>2, <4>3
    <3>2. /\ front' = IF r[1] \in Unlinked' THEN NULL ELSE r[1]
          /\ back' = r[Len(r)]
      BY <2>1, <2>3, <3>1
    <3>3. 0 + 1 = 1 /\ pc' \notin {"clear", "spin", "batch"} /\ 0 # Len(r)
      BY <2>1, <3>1
    <3> QED
      BY ONLY <3>2, <3>3 DEF Ends
  <2> QED
    BY <2>2, <2>3
<1>4. Locals(r, 0)'
  BY DEF Locals, Return
<1>5. QueueTypes'
  BY DEF QueueTypes, Return
<1>6. out' = SubSeq(q, 1, m)
  BY DEF Return
<1>7. Spelled(r, 0)'
  BY <1>2, <1>3, <1>4 DEF Spelled
<1> QED
  BY <1>1, <1>5, <1>6, <1>7 DEF Taken

(* pop finds nothing only when the first item is not linked yet. *)
LEMMA PopLoadStep ==
    ASSUME NEW q, NEW k, Spelled(q, k), QueueTypes, PopLoad
    PROVE  /\ QueueTypes' /\ Spelled(q, k)'
           /\ out' = out \/ (out' = <<>> /\ (q # <<>> => q[1] \in Unlinked))
<1>0. /\ q \in Seq(Nodes) /\ Len(q) \in Nat
      /\ \A i \in 1..Len(q) : q[i] \in Nodes /\ q[i] # NULL
  BY NodeFacts DEF Spelled
<1>1. k = 0 /\ pc = "idle" /\ UNCHANGED <<front, back, next, pushing>>
  BY DEF PopLoad, Locals, Spelled
<1>2. DistinctNodes(q, k)' /\ Pushes(q, k)' /\ Links(q, k)'
  BY <1>1, KeptParts
<1>3. front = IF q = <<>> THEN NULL ELSE IF q[1] \in Unlinked THEN NULL ELSE q[1]
  BY <1>0, <1>1 DEF Ends, Spelled
<1>4. Unlinked' = Unlinked
  BY <1>1, QuietProducers
<1>5. CASE front = NULL
  <2>1. Return(<<>>)
    BY <1>5 DEF PopLoad
  <2>2. Ends(q, k)' /\ Locals(q, k)'
    BY <1>1, <1>4, <2>1 DEF Ends, Locals, Spelled, Return
  <2>3. QueueTypes'
    BY <1>1, <2>1 DEF QueueTypes, Return
  <2>4. q # <<>> => q[1] \in Unlinked
    BY <1>0, <1>3, <1>5
  <2> QED
    BY <1>2, <2>1, <2>2, <2>3, <2>4 DEF Spelled, Return
<1>6. CASE front # NULL
  <2>1. pc' = "cas" /\ first' = front /\ nextItem' = next[front] /\ UNCHANGED <<out, last, count>>
    BY <1>6 DEF PopLoad
  <2>2. q # <<>> /\ front = q[1] /\ q[1] \notin Unlinked
    BY <1>3, <1>6
  <2>3. next[q[1]] # NULL => Len(q) > 1 /\ q[2] \notin Unlinked /\ next[q[1]] = q[2]
    <3> SUFFICES ASSUME next[q[1]] # NULL
                 PROVE  Len(q) > 1 /\ q[2] \notin Unlinked /\ next[q[1]] = q[2]
      OBVIOUS
    <3>1. 1 \in 1..Len(q)
      BY <1>0, <2>2
    <3>2. Len(q) # 1
      BY <3>1 DEF Links, Spelled
    <3>3. 2 \in 2..Len(q) /\ 2 # k + 1 /\ 2 - 1 = 1
      BY <1>0, <1>1, <3>1, <3>2
    <3>4. next[q[1]] = IF q[2] \in Unlinked THEN NULL ELSE q[2]
      BY <3>3 DEF Links, Spelled
    <3> QED
      BY <1>0, <3>3, <3>4
  <2>4. Ends(q, k)'
    BY <1>1, <1>4, <2>1 DEF Ends, Spelled
  <2>5. Locals(q, k)'
    BY <1>1, <1>4, <2>1, <2>2, <2>3 DEF Locals
  <2>6. QueueTypes'
    BY <1>1, <2>1 DEF QueueTypes
  <2> QED
    BY <1>2, <2>1, <2>4, <2>5, <2>6 DEF Spelled
<1> QED
  BY <1>5, <1>6

(* The exchange of front in pop hands out an item that has another linked behind
   it, cuts off the only one it knows of, or fails and looks again. *)
LEMMA PopFrontStep ==
    ASSUME NEW q, NEW k, Spelled(q, k), QueueTypes, PopFront
    PROVE  /\ QueueTypes'
           /\ \/ Spelled(q, k)' /\ out' = out
              \/ Spelled(q, Len(q))' /\ out' = out
              \/ Taken(q, 1) /\ (Len(q) > 1 => q[2] \notin Unlinked)
<1>0. /\ q \in Seq(Nodes) /\ Len(q) \in Nat
      /\ \A i \in 1..Len(q) : q[i] \in Nodes /\ q[i] # NULL
  BY NodeFacts DEF Spelled
<1>1. k = 0 /\ pc = "cas" /\ UNCHANGED <<back, next, pushing>>
  BY DEF PopFront, Locals, Spelled
<1>2. /\ q # <<>> /\ q[1] \notin Unlinked /\ first = q[1]
      /\ nextItem # NULL => Len(q) > 1 /\ q[2] \notin Unlinked /\ nextItem = q[2]
  BY <1>1 DEF Locals, Spelled
<1>3. Unlinked' = Unlinked
  BY <1>1, QuietProducers
<1>4. 1 \in 1..Len(q)
  BY <1>0, <1>2
<1>5. CASE nextItem' = next[first] /\ UNCHANGED <<front, pc, out, first, last, count>>
  <2>1. DistinctNodes(q, k)' /\ Pushes(q, k)' /\ Links(q, k)'
    BY <1>1, KeptParts
  <2>2. next[q[1]] # NULL => Len(q) > 1 /\ q[2] \notin Unlinked /\ next[q[1]] = q[2]
    <3> SUFFICES ASSUME next[q[1]] # NULL
                 PROVE  Len(q) > 1 /\ q[2] \notin Unlinked /\ next[q[1]] = q[2]
      OBVIOUS
    <3>1. Len(q) # 1
      BY <1>4 DEF Links, Spelled
    <3>4. Len(q) >= 2
      BY <1>0, <1>4, <3>1
    <3>2. 2 \in 2..Len(q) /\ 2 # k + 1 /\ 2 - 1 = 1
      BY <1>0, <1>1, <3>4
    <3>3. next[q[1]] = IF q[2] \in Unlinked THEN NULL ELSE q[2]
      BY <3>2 DEF Links, Spelled
    <3> QED
      BY <1>0, <3>2, <3>3
  <2>3. Ends(q, k)'
    BY <1>1, <1>3, <1>5 DEF Ends, Spelled
  <2>4. Locals(q, k)'
    BY <1>1, <1>2, <1>3, <1>5, <2>2 DEF Locals
  <2>5. QueueTypes'
    BY <1>1, <1>5 DEF QueueTypes
  <2> QED
    BY <1>5, <2>1, <2>3, <2>4, <2>5 DEF Spelled
<1>6. CASE front' = nextItem /\ nextItem # NULL /\ Return(<<first>>)
  <2>1. q[2] \notin Unlinked /\ nextItem = q[2] /\ Len(q) > 1
    BY <1>2, <1>6
  <2>2. <<first>> = SubSeq(q, 1, 1)
    BY <1>0, <1>2, <1>4
  <2>3. back' = q[Len(q)] /\ 1 # Len(q)
    BY <1>0, <1>1, <2>1 DEF Ends, Spelled
  <2>4. \A i \in 1..1 : q[i] \notin Unlinked
    BY <1>2
  <2>5. front' = IF 1 = Len(q) THEN NULL ELSE IF q[1 + 1] \in Unlinked THEN NULL ELSE q[1 + 1]
    BY <1>6, <2>1, <2>3
  <2>6. back' = IF 1 = Len(q) THEN NULL ELSE q[Len(q)]
    BY <2>3
  <2>7. 1 < Len(q) => 1 = k \/ q[1 + 1] \notin Unlinked
    BY <2>1
  <2>8. k \in {0, 1, Len(q)}
    BY <1>1
  <2>9. QueueTypes' /\ Taken(q, 1)
    BY <1>1, <1>4, <1>6, <2>2, <2>4, <2>5, <2>6, <2>7, <2>8, ReturnTaken
  <2> QED
    BY <2>1, <2>9
<1>7. CASE front' = nextItem /\ nextItem = NULL /\ pc' = "clear" /\ UNCHANGED <<out, first, nextItem, last, count>>
  <2>1. DistinctNodes(q, Len(q))' /\ Pushes(q, Len(q))' /\ Links(q, Len(q))'
    BY <1>1, <1>2, Cut
  <2>2. Len(q) # 0 /\ back' = q[Len(q)]
    BY <1>0, <1>1, <1>4 DEF Ends, Spelled
  <2>3. Ends(q, Len(q))'
    BY <1>7, <2>2 DEF Ends
  <2>4. Locals(q, Len(q))'
    BY <1>2, <1>7, <2>2 DEF Locals
  <2>5. QueueTypes'
    BY <1>1, <1>7 DEF QueueTypes
  <2> QED
    BY <1>7, <2>1, <2>3, <2>4, <2>5 DEF Spelled
<1> QED
  BY <1>5, <1>6, <1>7 DEF PopFront

(* What pop_batch returns follows the links from its first item, count of them. *)
LEMMA BatchIs ==
    ASSUME BatchDone, count \in Nat,
           NEW w, w = [i \in 1..count |-> IF i = 1 THEN first ELSE next[w[i - 1]]]
    PROVE  Return(w)
<1> DEFINE Body(g) == [i \in 1..count |-> IF i = 1 THEN first ELSE next[g[i - 1]]]
           batch == CHOOSE g : g = Body(g)
<1>1. Return(batch)
  BY DEF BatchDone
<1>2. batch = Body(batch)
  OBVIOUS
<1> HIDE DEF batch
<1> DEFINE Bad == {i \in 1..count : batch[i] # w[i]}
<1>3. Bad = {}
  <2> SUFFICES ASSUME Bad # {} PROVE FALSE
    OBVIOUS
  <2>1. PICK i \in Bad : \A j \in Bad : ~(j < i)
    <3>1. Bad \subseteq Nat
      OBVIOUS
    <3> QED
      BY <3>1, LeastNumber
  <2>2. i \in 1..count /\ (i = 1 \/ (i - 1 \in 1..count /\ i - 1 < i))
    OBVIOUS
  <2>3. i # 1 => batch[i - 1] = w[i - 1]
    BY <2>1, <2>2
  <2>4. batch[i] = Body(batch)[i] /\ w[i] = Body(w)[i]
    BY <1>2
  <2> QED
    BY <2>1, <2>2, <2>3, <2>4
<1>4. batch = [i \in 1..count |-> batch[i]]
  BY ONLY <1>2
<1>5. w = [i \in 1..count |-> w[i]]
  <2>1. w = Body(w)
    OBVIOUS
  <2> QED
    BY ONLY <2>1
<1>6. batch = w
  BY ONLY <1>3, <1>4, <1>5
<1> QED
  BY <1>1, <1>6

(* The exchange of back in pop: the item was the only one and is handed out with
   back reset, or a producer is behind it and pop spins. *)
LEMMA PopBackStep ==
    ASSUME NEW q, NEW k, Spelled(q, k), QueueTypes, PopBack
    PROVE  /\ QueueTypes'
           /\ \/ Spelled(q, k)' /\ out' = out
              \/ Taken(q, 1) /\ (Len(q) > 1 => q[2] \notin Unlinked)
<1>0. /\ q \in Seq(Nodes) /\ Len(q) \in Nat
      /\ \A i, j \in 1..Len(q) : q[i] = q[j] => i = j
  BY NodeFacts DEF Spelled
<1>1. pc = "clear" /\ UNCHANGED <<front, next, pushing>>
  BY DEF PopBack
<1>2. k = Len(q) /\ k # 0 /\ back = q[k] /\ first = q[1] /\ front = NULL
  BY <1>1 DEF Ends, Locals, Spelled
<1>3. 1 \in 1..Len(q) /\ Len(q) \in 1..Len(q)
  BY <1>0, <1>2
<1>4. Unlinked' = Unlinked
  BY <1>1, QuietProducers
<1>5. CASE back = first
  <2>1. Len(q) = 1
    BY <1>0, <1>2, <1>3, <1>5
  <2>2. back' = NULL /\ Return(<<first>>)
    BY <1>5 DEF PopBack
  <2>3. <<first>> = SubSeq(q, 1, 1)
    BY <1>0, <1>2, <1>3
  <2>4. \A i \in 1..1 : q[i] \notin Unlinked
    BY <1>2, HeadLinked DEF Spelled
  <2>5. front' = IF 1 = Len(q) THEN NULL ELSE IF q[1 + 1] \in Unlinked THEN NULL ELSE q[1 + 1]
    BY <1>1, <1>2, <2>1
  <2>6. back' = IF 1 = Len(q) THEN NULL ELSE q[Len(q)]
    BY <2>1, <2>2
  <2>7. 1 < Len(q) => 1 = k \/ q[1 + 1] \notin Unlinked
    BY <2>1
  <2>8. k \in {0, 1, Len(q)}
    BY <1>2
  <2>9. QueueTypes' /\ Taken(q, 1)
    BY <1>1, <1>3, <2>2, <2>3, <2>4, <2>5, <2>6, <2>7, <2>8, ReturnTaken
  <2> QED
    BY <2>1, <2>9
<1>6. CASE back # first
  <2>1. pc' = "spin" /\ UNCHANGED <<back, out, first, nextItem, last, count>>
    BY <1>6 DEF PopBack
  <2>2. DistinctNodes(q, k)' /\ Pushes(q, k)' /\ Links(q, k)'
    BY <1>1, KeptParts
  <2>3. Ends(q, k)' /\ Locals(q, k)'
    BY <1>1, <1>2, <1>4, <2>1 DEF Ends, Locals
  <2>4. QueueTypes'
    BY <1>1, <2>1 DEF QueueTypes
  <2> QED
    BY <2>1, <2>2, <2>3, <2>4 DEF Spelled
<1> QED
  BY <1>5, <1>6

(* The spin ends when the producer behind the item has stored its link, which is
   the new front. *)
LEMMA PopSpinStep ==
    ASSUME NEW q, NEW k, Spelled(q, k), QueueTypes, PopSpin
    PROVE  QueueTypes' /\ Taken(q, 1) /\ (Len(q) > 1 => q[2] \notin Unlinked)
<1>0. q \in Seq(Nodes) /\ Len(q) \in Nat
  BY NodeFacts DEF Spelled
<1>1. /\ pc = "spin" /\ UNCHANGED <<back, next, pushing>>
      /\ next[first] # NULL /\ front' = next[first] /\ Return(<<first>>)
  BY DEF PopSpin
<1>2. k = Len(q) /\ k # 0 /\ back = q[k] /\ first = q[1]
  BY <1>1 DEF Ends, Locals, Spelled
<1>3. 1 \in 1..Len(q)
  BY <1>0, <1>2
<1>4. Len(q) # 1
  BY <1>1, <1>2, <1>3 DEF Links, Spelled
<1>5. Len(q) >= 2
  BY <1>0, <1>3, <1>4
<1>6. 2 \in 2..Len(q) /\ 2 # k + 1 /\ 2 - 1 = 1
  BY <1>0, <1>2, <1>5
<1>7. next[q[1]] = IF q[2] \in Unlinked THEN NULL ELSE q[2]
  BY <1>6 DEF Links, Spelled
<1>8. q[2] \notin Unlinked /\ front' = q[2]
  BY <1>1, <1>2, <1>7
<1>9. <<first>> = SubSeq(q, 1, 1)
  BY <1>0, <1>2, <1>3
<1>10. \A i \in 1..1 : q[i] \notin Unlinked
  BY <1>2, HeadLinked DEF Spelled
<1>11. front' = IF 1 = Len(q) THEN NULL ELSE IF q[1 + 1] \in Unlinked THEN NULL ELSE q[1 + 1]
  BY <1>4, <1>8
<1>12. back' = IF 1 = Len(q) THEN NULL ELSE q[Len(q)]
  BY <1>1, <1>2, <1>4
<1>13. 1 < Len(q) => 1 = k \/ q[1 + 1] \notin Unlinked
  BY <1>8
<1>14. k \in {0, 1, Len(q)}
  BY <1>2
<1> QED
  BY <1>1, <1>3, <1>8, <1>9, <1>10, <1>11, <1>12, <1>13, <1>14, ReturnTaken

(* The swap of front in pop_batch finds nothing, or cuts off all that is there. *)
LEMMA BatchFrontStep ==
    ASSUME NEW q, NEW k, Spelled(q, k), QueueTypes, BatchFront
    PROVE  /\ QueueTypes'
           /\ \/ /\ Spelled(q, k)' /\ out' = <<>>
                 /\ q # <<>> => q[1] \in Unlinked
              \/ Spelled(q, Len(q))' /\ out' = out
<1>0. /\ q \in Seq(Nodes) /\ Len(q) \in Nat
      /\ \A i \in 1..Len(q) : q[i] \in Nodes /\ q[i] # NULL
  BY NodeFacts DEF Spelled
<1>1. k = 0 /\ pc = "idle" /\ front' = NULL /\ UNCHANGED <<back, next, pushing>>
  BY DEF BatchFront, Locals, Spelled
<1>2. front = IF q = <<>> THEN NULL ELSE IF q[1] \in Unlinked THEN NULL ELSE q[1]
  BY <1>0, <1>1 DEF Ends, Spelled
<1>3. Unlinked' = Unlinked
  BY <1>1, QuietProducers
<1>4. CASE front = NULL
  <2>1. Return(<<>>)
    BY <1>4 DEF BatchFront
  <2>2. DistinctNodes(q, k)' /\ Pushes(q, k)' /\ Links(q, k)'
    BY <1>1, KeptParts
  <2>3. Ends(q, k)' /\ Locals(q, k)'
    BY <1>1, <1>3, <1>4, <2>1 DEF Ends, Locals, Spelled, Return
  <2>4. QueueTypes'
    BY <1>1, <2>1 DEF QueueTypes, Return
  <2>5. q # <<>> => q[1] \in Unlinked
    BY <1>0, <1>2, <1>4
  <2> QED
    BY <2>1, <2>2, <2>3, <2>4, <2>5 DEF Spelled, Return
<1>5. CASE front # NULL
  <2>1. pc' = "batch" /\ first' = front /\ UNCHANGED <<out, nextItem, last, count>>
    BY <1>5 DEF BatchFront
  <2>2. q # <<>> /\ front = q[1] /\ q[1] \notin Unlinked
    BY <1>2, <1>5
  <2>3. DistinctNodes(q, Len(q))' /\ Pushes(q, Len(q))' /\ Links(q, Len(q))'
    BY <1>1, <2>2, Cut
  <2>4. Len(q) # 0 /\ back' = q[Len(q)]
    BY <1>0, <1>1, <2>2 DEF Ends, Spelled
  <2>5. Ends(q, Len(q))' /\ Locals(q, Len(q))'
    BY <1>1, <2>1, <2>2, <2>4 DEF Ends, Locals
  <2>6. QueueTypes'
    BY <1>1, <2>1 DEF QueueTypes
  <2> QED
    BY <2>1, <2>3, <2>5, <2>6 DEF Spelled
<1> QED
  BY <1>4, <1>5

(* The swap of back in pop_batch fixes where the batch ends; what is pushed from
   then on is behind the cut. *)
LEMMA BatchBackStep ==
    ASSUME NEW q, NEW k, Spelled(q, k), QueueTypes, BatchBack
    PROVE  QueueTypes' /\ Spelled(q, k)' /\ out' = out
<1>0. q \in Seq(Nodes) /\ Len(q) \in Nat /\ k \in Nat
  BY NodeFacts DEF Spelled
<1>1. /\ pc = "batch" /\ pc' = "walk" /\ UNCHANGED <<front, next, pushing, first, out>>
      /\ last' = back /\ back' = NULL /\ nextItem' = first /\ count' = 1
  BY DEF BatchBack
<1>2. k = Len(q) /\ k # 0 /\ back = q[k] /\ first = q[1] /\ front = NULL
  BY <1>1 DEF Ends, Locals, Spelled
<1>3. DistinctNodes(q, k)' /\ Pushes(q, k)' /\ Links(q, k)'
  BY <1>1, KeptParts
<1>4. Ends(q, k)'
  BY <1>1, <1>2 DEF Ends
<1>5. 1 \in 1..k /\ \A i \in 2..1 : FALSE
  BY <1>0, <1>2
<1>6. Locals(q, k)'
  BY <1>1, <1>2, <1>5 DEF Locals
<1>7. QueueTypes'
  BY <1>1 DEF QueueTypes
<1> QED
  BY <1>1, <1>3, <1>4, <1>6, <1>7 DEF Spelled

(* The walk of pop_batch goes on only over a link that is stored. *)
LEMMA BatchWalkStep ==
    ASSUME NEW q, NEW k, Spelled(q, k), QueueTypes, BatchWalk
    PROVE  QueueTypes' /\ Spelled(q, k)' /\ out' = out
<1>0. q \in Seq(Nodes) /\ Len(q) \in Nat /\ k \in Nat /\ k <= Len(q)
  BY NodeFacts DEF Spelled
<1>1. /\ pc = "walk" /\ nextItem # last /\ next[nextItem] # NULL
      /\ nextItem' = next[nextItem] /\ count' = count + 1
      /\ UNCHANGED <<front, back, next, pushing, pc, first, last, out>>
  BY DEF BatchWalk
<1>2. /\ k # 0 /\ first = q[1] /\ last = q[k] /\ count \in 1..k /\ nextItem = q[count]
      /\ \A i \in 2..count : q[i] \notin Unlinked
  BY <1>1 DEF Locals, Spelled
<1>3. count # k
  BY <1>1, <1>2
<1>4. count + 1 \in 1..k /\ count + 1 \in 2..Len(q) /\ count + 1 # k + 1 /\ count + 1 - 1 = count
  BY <1>0, <1>2, <1>3
<1>5. next[q[count]] = IF q[count + 1] \in Unlinked THEN NULL ELSE q[count + 1]
  <2>1. \A i \in 2..Len(q) :
          i # k + 1 => next[q[i - 1]] = IF q[i] \in Unlinked THEN NULL ELSE q[i]
    BY DEF Links, Spelled
  <2>2. PICK j \in 2..Len(q) : j = count + 1 /\ j # k + 1
    BY <1>4
  <2>3. next[q[j - 1]] = IF q[j] \in Unlinked THEN NULL ELSE q[j]
    BY <2>1, <2>2
  <2>4. j - 1 = count
    BY <1>2, <2>2
  <2> QED
    BY <2>2, <2>3, <2>4
<1>6. q[count + 1] \notin Unlinked /\ nextItem' = q[count + 1]
  BY <1>1, <1>2, <1>5
<1>7. Unlinked' = Unlinked
  BY <1>1, QuietProducers
<1>8. DistinctNodes(q, k)' /\ Pushes(q, k)' /\ Links(q, k)'
  BY <1>1, KeptParts
<1>9. Ends(q, k)'
  BY <1>1, <1>7 DEF Ends, Spelled
<1>10. \A i \in 2..(count + 1) : q[i] \notin Unlinked
  <2> SUFFICES ASSUME NEW i \in 2..(count + 1) PROVE q[i] \notin Unlinked
    OBVIOUS
  <2>1. i = count + 1 \/ i \in 2..count
    BY <1>0, <1>2
  <2> QED
    BY <1>2, <1>6, <2>1
<1>11. Locals(q, k)'
  BY <1>1, <1>2, <1>4, <1>6, <1>7, <1>10 DEF Locals
<1>12. QueueTypes'
  BY <1>1 DEF QueueTypes
<1> QED
  BY <1>1, <1>8, <1>9, <1>11, <1>12 DEF Spelled

(* pop_batch returns exactly what it had cut off, all of it linked. *)
LEMMA BatchDoneStep ==
    ASSUME NEW q, NEW k, Spelled(q, k), QueueTypes, BatchDone
    PROVE  QueueTypes' /\ Taken(q, k)
<1>0. /\ q \in Seq(Nodes) /\ Len(q) \in Nat /\ k \in Nat /\ k <= Len(q)
      /\ \A i \in 1..Len(q) : q[i] \in Nodes
      /\ \A i, j \in 1..Len(q) : q[i] = q[j] => i = j
  BY NodeFacts DEF Spelled
<1>1. pc = "walk" /\ nextItem = last /\ UNCHANGED <<front, back, next, pushing>>
  BY DEF BatchDone
<1>2. /\ k # 0 /\ first = q[1] /\ last = q[k] /\ count \in 1..k /\ nextItem = q[count]
      /\ \A i \in 2..count : q[i] \notin Unlinked
  BY <1>1 DEF Locals, Spelled
<1>3. k \in 1..Len(q) /\ count \in 1..Len(q)
  BY <1>0, <1>2
<1>4. count = k
  BY <1>0, <1>1, <1>2, <1>3
<1>5. \A i \in 1..k : q[i] \notin Unlinked
  <2>1. q[1] \notin Unlinked
    BY <1>2, HeadLinked DEF Spelled
  <2>2. \A i \in 1..k : i = 1 \/ i \in 2..count
    BY <1>0, <1>4
  <2> QED
    BY <1>2, <2>1, <2>2
<1> DEFINE w == SubSeq(q, 1, k)
<1>6. w = [i \in 1..k |-> q[i]]
  BY <1>0
<1>7. \A i \in 1..k : q[i] = IF i = 1 THEN first ELSE next[w[i - 1]]
  <2> SUFFICES ASSUME NEW i \in 1..k PROVE q[i] = IF i = 1 THEN first ELSE next[w[i - 1]]
    OBVIOUS
  <2>1. CASE i = 1
    BY <1>2, <2>1
  <2>2. CASE i # 1
    <3>1. i - 1 \in 1..k /\ i \in 2..Len(q) /\ i # k + 1
      BY <1>0, <2>2
    <3>2. w[i - 1] = q[i - 1]
      BY <1>6, <3>1
    <3>3. next[q[i - 1]] = q[i]
      BY <1>5, <3>1 DEF Links, Spelled
    <3> QED
      BY <2>2, <3>2, <3>3
  <2> QED
    BY <2>1, <2>2
<1> HIDE DEF w
<1>8. w = [i \in 1..count |-> IF i = 1 THEN first ELSE next[w[i - 1]]]
  BY <1>4, <1>6, <1>7
<1>9. count \in Nat
  BY DEF QueueTypes
<1>10. Return(w)
  BY <1>8, <1>9, BatchIs
<1>11. k \in {0, k, Len(q)} /\ (k < Len(q) => k = k \/ q[k + 1] \notin Unlinked)
  OBVIOUS
<1>12. front' = IF k = Len(q) THEN NULL ELSE IF q[k + 1] \in Unlinked THEN NULL ELSE q[k + 1]
  BY <1>1 DEF Ends, Spelled
<1>13. back' = IF k = Len(q) THEN NULL ELSE q[Len(q)]
  BY <1>1 DEF Ends, Spelled
<1> QED
  BY <1>1, <1>3, <1>5, <1>10, <1>11, <1>12, <1>13, ReturnTaken DEF w

-----------------------------------------------------------------------------
(* There is one spelling: the queue of the refinement. *)
LEMMA QueuedIs == \A q, k : Spelled(q, k) /\ QueueTypes => Queued = q
  BY SpelledQueue

(* The same of the state after a step. *)
LEMMA QueuedIsNext == (\A q, k : Spelled(q, k) /\ QueueTypes => Queued = q)'
  BY QueuedIs, PTL

(* An empty queue spells the empty sequence. *)
LEMMA QueueInit == Init => QueueInv /\ Abs!Init
<1> SUFFICES ASSUME Init PROVE QueueInv /\ Abs!Init
  OBVIOUS
<1>1. Pushing = {} /\ Unlinked = {}
  BY DEF Init, Pushing, Unlinked
<1>2. QueueTypes
  BY DEF Init, QueueTypes, NoPush
<1>3. Len(<<>>) = 0 /\ <<>> \in Seq(Nodes) /\ 1..0 = {} /\ 2..0 = {}
  OBVIOUS
<1>4. Spelled(<<>>, 0)
  BY <1>1, <1>3 DEF Init, Spelled, DistinctNodes, Pushes, Links, Ends, Locals
<1>5. Queued = <<>>
  BY <1>2, <1>4, QueuedIs
<1> QED
  BY <1>1, <1>2, <1>3, <1>4, <1>5 DEF QueueInv, Abs!Init, Unlinked, Init

(* A call that hands out a linked prefix is a PopBatch of the abstract queue. *)
LEMMA TakenStep ==
    ASSUME NEW q, QueueTypes', q \in Seq(Nodes), Queued = q, Unlinked' = Unlinked, NEW m, Taken(q, m)
    PROVE  QueueInv' /\ Abs!PopBatch
<1>0. m \in 1..Len(q) /\ Len(q) \in Nat
  BY DEF Taken
<1>1. PICK r : r = SubSeq(q, m + 1, Len(q))
  OBVIOUS
<1>2. Spelled(r, 0)' /\ r \in Seq(Nodes)
  BY <1>0, <1>1 DEF Taken
<1>3. QueueInv'
  BY <1>2 DEF QueueInv
<1>4. Queued' = r
  BY <1>2, QueuedIsNext
<1>5. out' = SubSeq(q, 1, m) /\ \A i \in 1..m : q[i] \notin Unlinked
  BY DEF Taken
<1>6. Range(out') \cap Unlinked = {}
  <2>1. SubSeq(q, 1, m) = [i \in 1..m |-> q[i]]
    BY <1>0
  <2> QED
    BY <1>5, <2>1 DEF Range
<1>7. Abs!Take(m)
  BY <1>1, <1>4, <1>5, <1>6 DEF Abs!Take, Abs!Range, Range, Unlinked
<1> QED
  BY <1>0, <1>3, <1>7 DEF Abs!PopBatch

(* A step that changes neither the sequence nor the result is none of the
   abstract queue. *)
LEMMA StutterStep ==
    ASSUME NEW q, NEW k, QueueTypes', q \in Seq(Nodes), Queued = q, Unlinked' = Unlinked,
           k \in Nat, Spelled(q, k)', out' = out
    PROVE  QueueInv' /\ UNCHANGED Abs!vars
<1>1. Queued' = q
  BY QueuedIsNext
<1> QED
  BY <1>1 DEF QueueInv, Abs!vars, Unlinked

(* A call that returns nothing is a PopEmpty of the abstract queue. *)
LEMMA EmptyStep ==
    ASSUME NEW q, NEW k, QueueTypes', q \in Seq(Nodes), Queued = q, Unlinked' = Unlinked,
           k \in Nat, Spelled(q, k)', out' = <<>>, q # <<>> => q[1] \in Unlinked
    PROVE  QueueInv' /\ Abs!PopEmpty
<1>1. Queued' = q
  BY QueuedIsNext
<1>2. q # <<>> => Head(q) = q[1]
  OBVIOUS
<1> QED
  BY <1>1, <1>2 DEF QueueInv, Abs!PopEmpty, Unlinked

(* Every access of push, pop and pop_batch keeps the invariant and is a step of
   the abstract queue or none, one case for each. *)
LEMMA QueueStep == QueueInv /\ [Next]_vars => QueueInv' /\ [Abs!Next]_(Abs!vars)
<1> SUFFICES ASSUME QueueInv, [Next]_vars PROVE QueueInv' /\ [Abs!Next]_(Abs!vars)
  OBVIOUS
<1>0. PICK q \in Seq(Nodes), k \in Nat : Spelled(q, k)
  BY DEF QueueInv
<1>1. QueueTypes
  BY DEF QueueInv
<1>2. Queued = q
  BY <1>0, <1>1, QueuedIs
<1>3. Len(q) \in Nat
  OBVIOUS
<1>4. ASSUME NEW p \in Producers, NEW n \in Nodes, Push(p, n)
      PROVE  QueueInv' /\ Abs!Push(n)
  <2>1. /\ QueueTypes' /\ Unlinked' = Unlinked \cup {n}
        /\ \E j \in {k, k + 1} : Spelled(Append(q, n), j)'
    BY <1>0, <1>1, <1>2, <1>4, PushStep
  <2>2. PICK j \in {k, k + 1} : Spelled(Append(q, n), j)'
    BY <2>1
  <2>3. PICK r : r = Append(q, n)
    OBVIOUS
  <2>4. r \in Seq(Nodes) /\ j \in Nat /\ Spelled(r, j)'
    BY <1>0, <2>2, <2>3
  <2>5. Queued' = r
    BY <2>1, <2>4, QueuedIsNext
  <2>6. QueueInv'
    BY <2>1, <2>4 DEF QueueInv
  <2>7. Abs!Push(n)
    BY <1>2, <1>4, <2>1, <2>3, <2>5 DEF Abs!Push, Abs!Range, Range, Push, Unlinked
  <2> QED
    BY <2>6, <2>7
<1>5. ASSUME NEW p \in Producers, Link(p)
      PROVE  QueueInv' /\ \E n \in Nodes : Abs!Link(n)
  <2>0. PICK n : n = pushing[p].node
    OBVIOUS
  <2>1. QueueTypes' /\ n \in Unlinked /\ Unlinked' = Unlinked \ {n} /\ Spelled(q, k)'
    BY <1>0, <1>1, <1>5, <2>0, LinkStep
  <2>2. Queued' = q
    BY <2>1, QueuedIsNext
  <2>3. QueueInv'
    BY <1>0, <2>1 DEF QueueInv
  <2>4. n \in Nodes
    <3>1. PICK s \in Pushing : n = pushing[s].node
      BY <2>1 DEF Unlinked
    <3>2. PICK i \in 1..Len(q) : pushing[s].node = q[i]
      BY <1>0 DEF Spelled, Pushes
    <3> QED
      BY <1>0, <3>1, <3>2
  <2>5. out' = out
    BY <1>5 DEF Link
  <2>6. Abs!Link(n)
    BY <1>2, <2>1, <2>2, <2>5 DEF Abs!Link, Unlinked
  <2> QED
    BY <2>3, <2>4, <2>6
<1>6. ASSUME pushing' = pushing PROVE Unlinked' = Unlinked
  BY <1>6, QuietProducers
<1>7. CASE PopLoad
  <2>1. Unlinked' = Unlinked
    BY <1>6, <1>7 DEF PopLoad
  <2>2. /\ QueueTypes' /\ Spelled(q, k)'
        /\ out' = out \/ (out' = <<>> /\ (q # <<>> => q[1] \in Unlinked))
    BY <1>0, <1>1, <1>7, PopLoadStep
  <2>3. CASE out' = out
    BY <1>0, <1>2, <2>1, <2>2, <2>3, StutterStep
  <2>4. CASE out' = <<>> /\ (q # <<>> => q[1] \in Unlinked)
    BY <1>0, <1>2, <2>1, <2>2, <2>4, EmptyStep DEF Abs!Next
  <2> QED
    BY <2>2, <2>3, <2>4
<1>8. CASE BatchFront
  <2>1. Unlinked' = Unlinked
    BY <1>6, <1>8 DEF BatchFront
  <2>2. /\ QueueTypes'
        /\ \/ /\ Spelled(q, k)' /\ out' = <<>>
              /\ q # <<>> => q[1] \in Unlinked
           \/ Spelled(q, Len(q))' /\ out' = out
    BY <1>0, <1>1, <1>8, BatchFrontStep
  <2>3. CASE Spelled(q, Len(q))' /\ out' = out
    BY <1>0, <1>2, <1>3, <2>1, <2>2, <2>3, StutterStep
  <2>4. CASE Spelled(q, k)' /\ out' = <<>> /\ (q # <<>> => q[1] \in Unlinked)
    BY <1>0, <1>2, <2>1, <2>2, <2>4, EmptyStep DEF Abs!Next
  <2> QED
    BY <2>2, <2>3, <2>4
<1>9. CASE PopFront
  <2>1. Unlinked' = Unlinked
    BY <1>6, <1>9 DEF PopFront
  <2>2. /\ QueueTypes'
        /\ \/ Spelled(q, k)' /\ out' = out
           \/ Spelled(q, Len(q))' /\ out' = out
           \/ Taken(q, 1)
    BY <1>0, <1>1, <1>9, PopFrontStep
  <2>3. CASE Spelled(q, k)' /\ out' = out
    BY <1>0, <1>2, <2>1, <2>2, <2>3, StutterStep
  <2>4. CASE Spelled(q, Len(q))' /\ out' = out
    BY <1>0, <1>2, <1>3, <2>1, <2>2, <2>4, StutterStep
  <2>5. CASE Taken(q, 1)
    BY <1>0, <1>2, <2>1, <2>2, <2>5, TakenStep DEF Abs!Next
  <2> QED
    BY <2>2, <2>3, <2>4, <2>5
<1>10. CASE PopBack
  <2>1. Unlinked' = Unlinked
    BY <1>6, <1>10 DEF PopBack
  <2>2. QueueTypes' /\ ((Spelled(q, k)' /\ out' = out) \/ Taken(q, 1))
    BY <1>0, <1>1, <1>10, PopBackStep
  <2>3. CASE Spelled(q, k)' /\ out' = out
    BY <1>0, <1>2, <2>1, <2>2, <2>3, StutterStep
  <2>4. CASE Taken(q, 1)
    BY <1>0, <1>2, <2>1, <2>2, <2>4, TakenStep DEF Abs!Next
  <2> QED
    BY <2>2, <2>3, <2>4
<1>11. CASE PopSpin
  <2>1. Unlinked' = Unlinked
    BY <1>6, <1>11 DEF PopSpin
  <2>2. QueueTypes' /\ Taken(q, 1)
    BY <1>0, <1>1, <1>11, PopSpinStep
  <2> QED
    BY <1>0, <1>2, <2>1, <2>2, TakenStep DEF Abs!Next
<1>12. CASE BatchBack
  <2>1. Unlinked' = Unlinked
    BY <1>6, <1>12 DEF BatchBack
  <2>2. QueueTypes' /\ Spelled(q, k)' /\ out' = out
    BY <1>0, <1>1, <1>12, BatchBackStep
  <2> QED
    BY <1>0, <1>2, <2>1, <2>2, StutterStep
<1>13. CASE BatchWalk
  <2>1. Unlinked' = Unlinked
    BY <1>6, <1>13 DEF BatchWalk
  <2>2. QueueTypes' /\ Spelled(q, k)' /\ out' = out
    BY <1>0, <1>1, <1>13, BatchWalkStep
  <2> QED
    BY <1>0, <1>2, <2>1, <2>2, StutterStep
<1>14. CASE BatchDone
  <2>1. Unlinked' = Unlinked
    BY <1>6, <1>14 DEF BatchDone
  <2>2. QueueTypes' /\ Taken(q, k)
    BY <1>0, <1>1, <1>14, BatchDoneStep
  <2> QED
    BY <1>0, <1>2, <2>1, <2>2, TakenStep DEF Abs!Next
<1>15. CASE UNCHANGED vars
  <2>1. Unlinked' = Unlinked /\ out' = out
    BY <1>6, <1>15 DEF vars
  <2>2. QueueTypes'
    BY <1>1, <1>15 DEF vars, QueueTypes
  <2>3. Spelled(q, k)'
    <3>1. DistinctNodes(q, k)' /\ Pushes(q, k)' /\ Links(q, k)'
      BY <1>0, <1>15, KeptParts DEF vars
    <3>2. Ends(q, k)' /\ Locals(q, k)'
      BY <1>0, <1>15, <2>1 DEF vars, Ends, Locals, Spelled
    <3> QED
      BY <3>1, <3>2 DEF Spelled
  <2> QED
    BY <1>0, <1>2, <2>1, <2>2, <2>3, StutterStep
<1> QED
  BY <1>4, <1>5, <1>7, <1>8, <1>9, <1>10, <1>11, <1>12, <1>13, <1>14, <1>15 DEF Next, PopStep, Abs!Next

(* The invariant tells where front, back and the links may lead. *)
LEMMA QueueInvSafe == QueueInv => LinksStayInside
<1> SUFFICES ASSUME QueueInv PROVE LinksStayInside
  OBVIOUS
<1>0. PICK q \in Seq(Nodes), k \in Nat : Spelled(q, k)
  BY DEF QueueInv
<1>1. Queued = q
  BY <1>0, QueuedIs DEF QueueInv
<1>2. /\ Len(q) \in Nat /\ k <= Len(q) /\ \A i \in 1..Len(q) : q[i] # NULL
  BY <1>0, NodeFacts DEF Spelled
<1>3. ASSUME NEW p \in Pushing
      PROVE  pushing[p].oldBack \in Range(q) \cup {NULL}
  <2>1. PICK i \in 1..Len(q) :
                  /\ i = 1 => k = 0
                  /\ pushing[p].oldBack = IF i = k + 1 THEN NULL ELSE q[i - 1]
    BY <1>0 DEF Pushes, Spelled
  <2>2. i # k + 1 => i - 1 \in 1..Len(q)
    BY <1>0, <1>2, <2>1
  <2>3. \A j \in 1..Len(q) : q[j] \in Range(q)
    BY DEF Range
  <2> QED
    BY <2>1, <2>2, <2>3
<1>4. ASSUME pc = "idle" PROVE back = NULL <=> q = <<>>
  <2>1. k = 0 /\ back = IF k = Len(q) THEN NULL ELSE q[Len(q)]
    BY <1>0, <1>4 DEF Locals, Ends, Spelled
  <2>2. q = <<>> <=> Len(q) = 0
    OBVIOUS
  <2> QED
    BY <1>2, <2>1, <2>2
<1> QED
  BY <1>1, <1>3, <1>4 DEF LinksStayInside

(* The pointers of the queue lead only to nodes that were pushed and not popped:
   no step of push, pop or pop_batch reads or writes the link of a node that its
   owner has already got back, for any producers and any finite set of nodes. *)
THEOREM QueueLinksStayInside == Spec => []LinksStayInside
<1>1. Spec => []QueueInv
  BY QueueInit, QueueStep, PTL DEF Spec
<1> QED
  BY <1>1, QueueInvSafe, PTL

(* push, pop and pop_batch, access by access, implement the queue of module
   Fifo: what comes out is what went in, once and in the order of the swaps of
   back, and a call returns nothing only when the first item is not linked yet. *)
THEOREM QueueImplementsFifo == Spec => ImplementsFifo
<1>1. Spec => []QueueInv
  BY QueueInit, QueueStep, PTL DEF Spec
<1> QED
  BY <1>1, QueueInit, QueueStep, PTL DEF Spec, ImplementsFifo, Abs!Spec
=============================================================================
