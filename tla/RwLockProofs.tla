---------------------------- MODULE RwLockProofs ----------------------------
(* Proofs about module RwLock for any finite set of threads.                 *)
(*                                                                           *)
(* That a writer is alone rests on the permit: a writer that found readers   *)
(* goes on only with a permit, and a permit exists only when the last reader *)
(* has left.  So the invariant ties the state word, the place of every       *)
(* thread in the semaphore and the permits together (Drained, Draining).     *)
EXTENDS RwLock, FiniteSetTheorems, TLAPS

CP == INSTANCE ConditionProofs WITH Timed <- {}

Labels == {"idle", "pending", "mark", "drain", "draining", "writing", "unlocked",
           "queued", "enter", "entered", "reading", "post", "posting"}

AtLabels == {"idle", "wait", "taken", "post", "notify", "leave"}

Readers == {t \in Threads : pc[t] \in {"entered", "reading"}}

Pending == {t \in Threads : pc[t] \in {"pending", "mark"}}

(* Threads with a post still to add its permit. *)
Posters == {t \in Threads : pc[t] = "post" \/ (pc[t] = "posting" /\ at[t] = "post")}

Marked == {"drain", "draining", "writing"}

(* Marked writers that still need a permit, and those that need none. *)
Needing == {t \in Threads : pc[t] = "drain" \/ (pc[t] = "draining" /\ at[t] = "wait")}
Through == {t \in Threads : pc[t] = "writing" \/ (pc[t] = "draining" /\ at[t] # "wait")}

Types ==
    /\ isWriting \in BOOLEAN /\ writers \in Nat /\ readers \in Nat /\ permits \in Nat
    /\ mutex \in Threads \cup {NoThread}
    /\ pc \in [Threads -> Labels] /\ at \in [Threads -> AtLabels]

(* The inner mutex is held between its lock and its unlock. *)
MutexHeld ==
    \A t \in Threads :
        mutex = t <=> pc[t] \in {"mark", "unlocked", "enter", "entered"} \cup Marked

(* A thread is inside the semaphore only from drain and post. *)
InSemaphoreOnly ==
    \A t \in Threads :
        /\ pc[t] = "draining" => at[t] \in {"idle", "wait", "taken", "leave"}
        /\ pc[t] = "posting" => at[t] \in {"idle", "post", "notify", "leave"}
        /\ pc[t] \notin {"draining", "posting"} => at[t] = "idle"

(* The fields of the state word count what they are named for. *)
WordExact ==
    /\ isWriting <=> \E t \in Threads : pc[t] \in Marked
    /\ writers = Cardinality(Pending)
    /\ readers = Cardinality(Readers)

(* One post or permit exists exactly when a marked writer needs it and the last
   reader has left; a writer past the drain has no reader beside it. *)
DrainExact ==
    /\ permits + Cardinality(Posters) <= 1
    /\ permits + Cardinality(Posters) = 1
          <=> Readers = {} /\ Needing # {}
    /\ Through # {} => Readers = {}

(* A step that does not touch the counted sets, and one that changes for nobody
   whether it waits for a permit. *)
CountsKept ==
    /\ Readers' = Readers /\ Pending' = Pending /\ Posters' = Posters
    /\ readers' = readers /\ writers' = writers /\ permits' = permits

DrainKept == Needing' = Needing /\ Through' \subseteq Through

LockInv == Types /\ MutexHeld /\ InSemaphoreOnly /\ WordExact /\ DrainExact /\ CP!CoreInv

-----------------------------------------------------------------------------
(* The threads are finitely many, and so is every part of them. *)
LEMMA LockThreads ==
    /\ CP!ConditionAssumption
    /\ \A part \in SUBSET Threads : /\ IsFiniteSet(part) /\ Cardinality(part) \in Nat
                                    /\ Cardinality(part) \in 0..Cardinality(Threads)
  <1>1. CP!ConditionAssumption
    BY RwLockAssumption DEF IsFiniteSet, CP!IsFiniteSet
  <1>2. \A part \in SUBSET Threads : /\ IsFiniteSet(part) /\ Cardinality(part) \in Nat
                                     /\ Cardinality(part) <= Cardinality(Threads)
    BY RwLockAssumption, FS_Subset, FS_CardinalityType
  <1>3. Cardinality(Threads) \in Nat
    BY RwLockAssumption, FS_CardinalityType
  <1> QED
    BY <1>1, <1>2, <1>3

(* The condition inside the semaphore and the one ConditionProofs is about take
   the same steps. *)
LEMMA SameCondition == (S!C!Init => CP!Init) /\ (S!C!Next => CP!Next)
  BY DEF S!C!Init, CP!Init, S!C!Next, CP!Next, S!C!Goto, CP!Goto, S!C!Lock, CP!Lock,
         S!C!Unlock, CP!Unlock, S!C!WaitCall, CP!WaitCall, S!C!WaitStep, CP!WaitStep,
         S!C!Register, CP!Register, S!C!WaitUnlock, CP!WaitUnlock, S!C!FutexWait,
         CP!FutexWait, S!C!Expire, CP!Expire, S!C!ReloadEpoch, CP!ReloadEpoch,
         S!C!ConsumeSignal, CP!ConsumeSignal, S!C!SpuriousReturn, CP!SpuriousReturn,
         S!C!DeadlinePasses, CP!DeadlinePasses, S!C!Relock, CP!Relock,
         S!C!PostSignals, CP!PostSignals, S!C!WakeStep, CP!WakeStep, S!C!BumpEpoch,
         CP!BumpEpoch, S!C!FutexWake, CP!FutexWake, S!C!WakeUpTo, CP!WakeUpTo,
         S!C!Cardinality, CP!Cardinality, S!C!IsFiniteSet, CP!IsFiniteSet

(* What a step inside the semaphore does to its permits and to where its thread
   is; the condition variable makes one of its own steps or none. *)
SemaphoreStep(t) ==
    /\ S!C!Next \/ UNCHANGED S!condVars
    /\ \/ UNCHANGED <<permits, at>>
       \/ /\ at[t] = "wait" /\ permits > 0
          /\ permits' = permits - 1 /\ at' = [at EXCEPT ![t] = "taken"]
       \/ /\ at[t] = "post"
          /\ permits' = permits + 1 /\ at' = [at EXCEPT ![t] = "notify"]
       \/ /\ at[t] \in {"taken", "notify"}
          /\ permits' = permits /\ at' = [at EXCEPT ![t] = "leave"]
       \/ /\ at[t] = "leave"
          /\ permits' = permits /\ at' = [at EXCEPT ![t] = "idle"]

(* Every step of wait and post is one of those. *)
LEMMA SemaphoreSteps ==
    ASSUME NEW t \in Threads,
           S!InCall(t) \/ S!SpuriousReturn(t) \/ S!LockMutex(t) \/ S!Relock(t)
    PROVE  SemaphoreStep(t)
  <1> USE DEF SemaphoreStep, S!C!Next, S!At, S!Signal
  <1>1. CASE S!SpuriousReturn(t) \/ S!LockMutex(t) \/ S!Relock(t)
    BY <1>1 DEF S!SpuriousReturn, S!LockMutex, S!Relock
  <1>2. CASE S!Block(t) \/ S!InCondition(t)
    BY <1>2 DEF S!Block, S!InCondition
  <1>3. CASE S!Take(t) \/ S!AddPermit(t)
    BY <1>3 DEF S!Take, S!AddPermit
  <1>4. CASE S!PassOn(t) \/ S!Notify(t)
    BY <1>4 DEF S!PassOn, S!Notify
  <1>5. CASE S!Leave(t)
    BY <1>5 DEF S!Leave
  <1> QED
    BY <1>1, <1>2, <1>3, <1>4, <1>5 DEF S!InCall

(* The lock's own steps: the semaphore is left alone or a call of it begins. *)
OwnStep(t) ==
    \/ WriteCall(t) \/ WriteLockMutex(t) \/ MarkWriting(t) \/ DrainCall(t) \/ Drained(t)
    \/ WriteUnlock(t) \/ WriteUnlockMutex(t)
    \/ ReadFast(t) \/ ReadSlow(t) \/ ReadLockMutex(t) \/ ReadEnter(t) \/ ReadUnlockMutex(t)
    \/ ReadUnlock(t) \/ PostCall(t) \/ Posted(t)

InnerStep(t) == SemaphoreStep(t) /\ UNCHANGED <<isWriting, writers, readers, mutex, pc>>

(* Every step is one of the lock's own or a step inside the semaphore. *)
LEMMA LockSteps == Next => \E t \in Threads : OwnStep(t) \/ InnerStep(t)
  <1> SUFFICES ASSUME Next PROVE \E t \in Threads : OwnStep(t) \/ InnerStep(t)
    OBVIOUS
  <1>1. CASE Acquire
    BY <1>1 DEF Acquire, OwnStep
  <1>2. CASE SemaphoreAcquire
    BY <1>2, SemaphoreSteps DEF SemaphoreAcquire, S!Acquire, InnerStep
  <1>3. ASSUME NEW t \in Threads, InSemaphore(t) \/ SpuriousReturn(t) PROVE InnerStep(t)
    BY <1>3, SemaphoreSteps DEF InSemaphore, SpuriousReturn, InnerStep
  <1> QED
    BY <1>1, <1>2, <1>3 DEF Next, Proceed, OwnStep

(* A step of the lock's own leaves the condition variable alone. *)
LEMMA OwnStepsKeepCondition ==
    ASSUME NEW t \in Threads, OwnStep(t)
    PROVE  UNCHANGED S!condVars
  <1> USE DEF S!condVars, semVars, MutexLock, MutexUnlock
  <1>1. CASE \/ WriteCall(t) \/ WriteLockMutex(t) \/ MarkWriting(t) \/ Drained(t)
             \/ WriteUnlock(t) \/ WriteUnlockMutex(t)
    BY <1>1
    DEF WriteCall, WriteLockMutex, MarkWriting, Drained, WriteUnlock, WriteUnlockMutex
  <1>2. CASE \/ ReadFast(t) \/ ReadSlow(t) \/ ReadLockMutex(t) \/ ReadEnter(t)
             \/ ReadUnlockMutex(t) \/ ReadUnlock(t) \/ Posted(t)
    BY <1>2
    DEF ReadFast, ReadSlow, ReadLockMutex, ReadEnter, ReadUnlockMutex, ReadUnlock, Posted
  <1>3. CASE DrainCall(t) \/ PostCall(t)
    BY <1>3 DEF DrainCall, PostCall, S!WaitCall, S!PostCall
  <1> QED
    BY <1>1, <1>2, <1>3 DEF OwnStep

(* The condition variable's invariant is kept by every step of the lock. *)
LEMMA LockCondition ==
    (Init => CP!CoreInv) /\ (CP!CoreInv /\ [Next]_vars => CP!CoreInv')
  <1>1. Init => CP!CoreInv
    BY CP!CoreInit, LockThreads, SameCondition DEF Init, S!Init
  <1>2. CP!CoreInv /\ (S!C!Next \/ UNCHANGED S!condVars) => CP!CoreInv'
    BY CP!CoreStep, LockThreads, SameCondition DEF S!condVars, CP!vars
  <1>3. [Next]_vars => S!C!Next \/ UNCHANGED S!condVars
    BY LockSteps, OwnStepsKeepCondition DEF InnerStep, SemaphoreStep, vars, semVars, S!condVars
  <1> QED
    BY <1>1, <1>2, <1>3

-----------------------------------------------------------------------------
(* Nobody reads, writes or posts at the start. *)
LEMMA LockInit == Init => LockInv
  <1> SUFFICES ASSUME Init PROVE LockInv
    OBVIOUS
  <1>1. Readers = {} /\ Pending = {} /\ Posters = {}
    BY DEF Init, Readers, Pending, Posters
  <1>2. Cardinality(Readers) = 0 /\ Cardinality(Pending) = 0 /\ Cardinality(Posters) = 0
    BY <1>1, FS_EmptySet
  <1>3. Types /\ MutexHeld /\ InSemaphoreOnly
    BY RwLockAssumption
    DEF Init, S!Init, Types, Labels, AtLabels, MutexHeld, InSemaphoreOnly, Marked
  <1>4. WordExact /\ DrainExact
    BY <1>1, <1>2 DEF Init, S!Init, WordExact, DrainExact, Marked, Needing, Through
  <1> QED
    BY <1>3, <1>4, LockCondition DEF LockInv

(* The state word, the semaphore and the threads stay consistent in every step. *)
LEMMA LockStep == LockInv /\ [Next]_vars => LockInv'
<1> SUFFICES ASSUME LockInv, [Next]_vars PROVE LockInv'
  OBVIOUS
<1> DEFINE Goal == Types /\ MutexHeld /\ InSemaphoreOnly /\ WordExact /\ DrainExact
<1>inv. Goal
  BY DEF LockInv
<1> SUFFICES Goal'
  BY LockCondition DEF LockInv
<1>fin. /\ IsFiniteSet(Readers) /\ Cardinality(Readers) \in Nat
        /\ IsFiniteSet(Pending) /\ Cardinality(Pending) \in Nat
        /\ IsFiniteSet(Posters) /\ Cardinality(Posters) \in Nat
        /\ IsFiniteSet(Readers') /\ Cardinality(Readers') \in Nat
        /\ IsFiniteSet(Pending') /\ Cardinality(Pending') \in Nat
        /\ IsFiniteSet(Posters') /\ Cardinality(Posters') \in Nat
  BY LockThreads DEF Readers, Pending, Posters
<1>zero. /\ (Cardinality(Readers) = 0 <=> Readers = {})
         /\ (Cardinality(Posters) = 0 <=> Posters = {})
         /\ (Cardinality(Readers') = 0 <=> Readers' = {})
  BY <1>fin, FS_EmptySet
<1> DEFINE Places == Types /\ MutexHeld /\ InSemaphoreOnly
                       /\ (isWriting <=> \E t \in Threads : pc[t] \in Marked)
<1> USE DEF Labels, AtLabels, Goto, MutexLock, MutexUnlock, semVars
(* A step that changes none of the counted sets keeps the word exact. *)
<1>same. ASSUME Places', CountsKept, DrainKept PROVE Goal'
  BY <1>same, <1>inv
  DEF WordExact, DrainExact, CountsKept, DrainKept
<1>1. ASSUME NEW t \in Threads, InnerStep(t) PROVE Goal'
  <2>1. Places'
    BY <1>1, <1>inv
    DEF InnerStep, SemaphoreStep, Types, MutexHeld, InSemaphoreOnly, WordExact, Marked
  <2>2. Readers' = Readers /\ Pending' = Pending /\ readers' = readers /\ writers' = writers
    BY <1>1 DEF InnerStep, Readers, Pending
  <2>3. CASE UNCHANGED <<permits, at>>
    BY <1>1, <2>1, <2>2, <2>3, <1>same
    DEF InnerStep, CountsKept, DrainKept, Posters, Needing, Through
  <2>4. CASE at[t] = "wait" /\ permits > 0 /\ permits' = permits - 1
               /\ at' = [at EXCEPT ![t] = "taken"]
    <3>1. pc[t] = "draining" /\ mutex = t /\ t \in Needing
      BY <2>4, <1>inv DEF InSemaphoreOnly, MutexHeld, Needing, Marked
    <3>2. Posters' = Posters
      BY <1>1, <2>4, <1>inv DEF InnerStep, Posters, Types
    <3>3. Needing' = {}
      BY <1>1, <2>4, <3>1, <1>inv DEF InnerStep, Needing, MutexHeld, Marked, Types
    <3>4. permits' + Cardinality(Posters') = 0 /\ Readers' = {}
      BY <2>2, <2>4, <3>2, <1>inv, <1>fin DEF DrainExact, Types
    <3>5. WordExact'
      BY <2>1, <2>2, <1>inv DEF WordExact
    <3>6. DrainExact'
      BY <3>3, <3>4 DEF DrainExact
    <3> QED
      BY <2>1, <3>5, <3>6
  <2>5. CASE at[t] = "post" /\ permits' = permits + 1 /\ at' = [at EXCEPT ![t] = "notify"]
    <3>1. pc[t] = "posting" /\ t \in Posters /\ Posters' = Posters \ {t}
      BY <1>1, <2>5, <1>inv DEF InnerStep, InSemaphoreOnly, Posters, Types
    <3>2. Cardinality(Posters') = Cardinality(Posters) - 1
      BY <3>1, <1>fin, FS_RemoveElement
    <3>3. DrainKept
      BY <1>1, <2>5, <3>1, <1>inv DEF InnerStep, DrainKept, Needing, Through, Types
    <3>4. permits' + Cardinality(Posters') = permits + Cardinality(Posters)
      BY <2>5, <3>2, <1>inv, <1>fin DEF Types
    <3>5. WordExact'
      BY <2>1, <2>2, <1>inv DEF WordExact
    <3>6. DrainExact'
      BY <2>2, <3>3, <3>4, <1>inv DEF DrainExact, DrainKept
    <3> QED
      BY <2>1, <3>5, <3>6
  <2>6. CASE /\ at[t] \in {"taken", "notify", "leave"} /\ permits' = permits
             /\ \E to \in {"leave", "idle"} : at' = [at EXCEPT ![t] = to]
    <3>1. Posters' = Posters /\ permits' = permits /\ DrainKept
      BY <1>1, <2>6, <1>inv DEF InnerStep, DrainKept, Posters, Needing, Through, Types
    <3> QED
      BY <2>1, <2>2, <3>1, <1>same DEF CountsKept
  <2> QED
    BY <1>1, <2>3, <2>4, <2>5, <2>6 DEF InnerStep, SemaphoreStep
<1>2. ASSUME NEW t \in Threads,
             \/ WriteLockMutex(t) \/ WriteUnlockMutex(t) \/ Drained(t) \/ ReadSlow(t)
             \/ ReadLockMutex(t) \/ ReadUnlockMutex(t) \/ Posted(t)
      PROVE  Goal'
  <2>1. Places'
    BY <1>2, <1>inv, RwLockAssumption
    DEF Types, MutexHeld, InSemaphoreOnly, WordExact, Marked, WriteLockMutex, WriteUnlockMutex,
        Drained, ReadSlow, ReadLockMutex, ReadUnlockMutex, Posted
  <2>2. CountsKept /\ DrainKept
    BY <1>2, <1>inv
    DEF CountsKept, DrainKept, Types, InSemaphoreOnly, Readers, Pending, Posters, Needing, Through,
        WriteLockMutex, WriteUnlockMutex, Drained, ReadSlow, ReadLockMutex, ReadUnlockMutex, Posted
  <2> QED
    BY <2>1, <2>2, <1>same
<1>3. ASSUME NEW t \in Threads, DrainCall(t) \/ PostCall(t) PROVE Goal'
  <2>1. Places'
    BY <1>3, <1>inv, RwLockAssumption
    DEF Types, MutexHeld, InSemaphoreOnly, WordExact, Marked, DrainCall, PostCall,
        S!WaitCall, S!PostCall, S!At
  <2>2. CountsKept /\ DrainKept
    BY <1>3, <1>inv
    DEF CountsKept, DrainKept, Types, InSemaphoreOnly, Readers, Pending, Posters, Needing, Through,
        DrainCall, PostCall, S!WaitCall, S!PostCall, S!At
  <2> QED
    BY <2>1, <2>2, <1>same
<1>4. ASSUME NEW t \in Threads, WriteCall(t) PROVE Goal'
  <2>1. Places'
    BY <1>4, <1>inv DEF Types, MutexHeld, InSemaphoreOnly, WordExact, Marked, WriteCall
  <2>2. /\ Pending' = Pending \cup {t} /\ t \notin Pending
        /\ Readers' = Readers /\ Posters' = Posters /\ DrainKept
    BY <1>4, <1>inv
    DEF DrainKept, Types, InSemaphoreOnly, Readers, Pending, Posters, Needing, Through, WriteCall
  <2>3. Cardinality(Pending') = Cardinality(Pending) + 1
    BY <2>2, <1>fin, FS_AddElement
  <2> QED
    BY <1>4, <2>1, <2>2, <2>3, <1>inv
    DEF WriteCall, WordExact, DrainExact, DrainKept
<1>5. ASSUME NEW t \in Threads, MarkWriting(t) PROVE Goal'
  <2>1. /\ Pending' = Pending \ {t} /\ t \in Pending
        /\ Readers' = Readers /\ Posters' = Posters /\ mutex = t
    BY <1>5, <1>inv DEF Types, MutexHeld, Readers, Pending, Posters, MarkWriting
  <2>2. Cardinality(Pending') = Cardinality(Pending) - 1
    BY <2>1, <1>fin, FS_RemoveElement
  <2>3. writers' = Cardinality(Pending') /\ readers' = Cardinality(Readers')
    BY <1>5, <2>1, <2>2, <1>inv DEF MarkWriting, WordExact
  <2>4. Places'
    BY <1>5, <2>3, <1>inv, <1>fin
    DEF Types, MutexHeld, InSemaphoreOnly, WordExact, Marked, MarkWriting
  <2>5. Needing = {} /\ Through = {}
    BY <1>5, <2>1, <1>inv DEF MutexHeld, Needing, Through, Marked, MarkWriting
  <2>6. permits' + Cardinality(Posters') = 0
    BY <1>5, <2>1, <2>5, <1>inv, <1>fin DEF DrainExact, MarkWriting, Types
  <2>7. CASE readers > 0
    <3>1. Readers' # {}
      BY <2>1, <2>7, <1>inv, <1>zero DEF WordExact
    <3>2. Through' = {}
      BY <1>5, <2>5, <2>7, <1>inv DEF Through, Types, MarkWriting
    <3> QED
      BY <2>3, <2>4, <2>6, <3>1, <3>2 DEF WordExact, DrainExact
  <2>8. CASE ~(readers > 0)
    <3>1. Readers' = {}
      BY <2>1, <2>8, <1>inv, <1>fin, <1>zero DEF WordExact
    <3>2. Needing' = {}
      BY <1>5, <2>5, <2>8, <1>inv DEF Needing, Types, MarkWriting
    <3> QED
      BY <2>3, <2>4, <2>6, <3>1, <3>2 DEF WordExact, DrainExact
  <2> QED
    BY <2>7, <2>8
<1>6. ASSUME NEW t \in Threads, WriteUnlock(t) PROVE Goal'
  <2>1. Places'
    BY <1>6, <1>inv DEF Types, MutexHeld, InSemaphoreOnly, WordExact, Marked, WriteUnlock
  <2>2. CountsKept /\ DrainKept
    BY <1>6, <1>inv
    DEF CountsKept, DrainKept, Types, InSemaphoreOnly, Readers, Pending, Posters, Needing,
        Through, WriteUnlock
  <2> QED
    BY <2>1, <2>2, <1>same
<1>7. ASSUME NEW t \in Threads, ReadFast(t) \/ ReadEnter(t) PROVE Goal'
  <2>1. Places'
    BY <1>7, <1>inv
    DEF Types, MutexHeld, InSemaphoreOnly, WordExact, Marked, ReadFast, ReadEnter
  <2>2. /\ Readers' = Readers \cup {t} /\ t \notin Readers
        /\ Pending' = Pending /\ Posters' = Posters
    BY <1>7, <1>inv DEF Types, Readers, Pending, Posters, ReadFast, ReadEnter
  <2>3. Cardinality(Readers') = Cardinality(Readers) + 1
    BY <2>2, <1>fin, FS_AddElement
  <2>4. \A u \in Threads : pc[u] \notin Marked
    BY <1>7, <1>inv DEF MutexHeld, WordExact, Marked, ReadFast, ReadEnter
  <2>5. Needing = {} /\ Through = {} /\ Needing' = {} /\ Through' = {}
    BY <1>7, <2>4, <1>inv DEF Needing, Through, Marked, ReadFast, ReadEnter, Types
  <2> QED
    BY <1>7, <2>1, <2>2, <2>3, <2>5, <1>inv, <1>fin
    DEF WordExact, DrainExact, Types, ReadFast, ReadEnter
<1>8. ASSUME NEW t \in Threads, ReadUnlock(t) PROVE Goal'
  <2>1. /\ Readers' = Readers \ {t} /\ t \in Readers /\ Pending' = Pending
    BY <1>8, <1>inv DEF Types, Readers, Pending, ReadUnlock
  <2>2. Cardinality(Readers') = Cardinality(Readers) - 1
    BY <2>1, <1>fin, FS_RemoveElement
  <2>3. /\ readers' = Cardinality(Readers') /\ writers' = Cardinality(Pending')
        /\ (readers = 1 <=> Readers' = {})
    BY <1>8, <2>1, <2>2, <1>inv, <1>fin, <1>zero DEF ReadUnlock, WordExact
  <2>4. Places'
    BY <1>8, <2>3, <1>inv, <1>fin
    DEF Types, MutexHeld, InSemaphoreOnly, WordExact, Marked, ReadUnlock
  <2>5. /\ permits' = permits /\ permits + Cardinality(Posters) = 0
        /\ Through = {} /\ Through' = {} /\ Needing' = Needing
    BY <1>8, <2>1, <1>inv, <1>fin
    DEF ReadUnlock, DrainExact, Through, Needing, Types, InSemaphoreOnly
  <2>6. isWriting <=> Needing # {}
    BY <2>5, <1>inv DEF WordExact, Needing, Through, Marked
  <2>7. CASE readers = 1 /\ isWriting
    <3>1. Posters' = Posters \cup {t} /\ t \notin Posters
      BY <1>8, <2>7, <1>inv DEF ReadUnlock, Posters, Types
    <3>2. Cardinality(Posters') = Cardinality(Posters) + 1
      BY <3>1, <1>fin, FS_AddElement
    <3>3. permits' + Cardinality(Posters') = 1
      BY <2>5, <3>2, <1>fin, <1>inv DEF Types
    <3>4. DrainExact'
      BY <2>3, <2>5, <2>6, <2>7, <3>3 DEF DrainExact
    <3> QED
      BY <2>3, <2>4, <3>4 DEF WordExact
  <2>8. CASE ~(readers = 1 /\ isWriting)
    <3>1. Posters' = Posters
      BY <1>8, <2>8, <1>inv DEF ReadUnlock, Posters, Types
    <3>2. DrainExact'
      BY <2>3, <2>5, <2>6, <2>8, <3>1, <1>fin, <1>inv DEF DrainExact
    <3> QED
      BY <2>3, <2>4, <3>2 DEF WordExact
  <2> QED
    BY <2>7, <2>8
<1>9. CASE UNCHANGED vars
  BY <1>9, <1>inv
  DEF vars, Types, MutexHeld, InSemaphoreOnly, WordExact, DrainExact, Needing, Through,
      Readers, Pending, Posters
<1> QED
  BY <1>1, <1>2, <1>3, <1>4, <1>5, <1>6, <1>7, <1>8, <1>9, LockSteps DEF OwnStep

-----------------------------------------------------------------------------
(* The state word, the semaphore and the program counters keep their types: the
   reader and pending-writer fields never exceed the number of threads, so no
   count spills into the field beside it. *)
THEOREM LockTypeCorrect == Spec => []TypeOK
<1>1. LockInv => TypeOK
  <2> SUFFICES ASSUME LockInv PROVE TypeOK
    OBVIOUS
  <2>1. writers \in 0..Cardinality(Threads) /\ readers \in 0..Cardinality(Threads)
    BY LockThreads DEF LockInv, WordExact, Pending, Readers
  <2>2. permits \in 0..MaxPermits
    <3>1. Cardinality(Posters) \in Nat
      BY LockThreads DEF Posters
    <3> QED
      BY <3>1, RwLockAssumption DEF LockInv, Types, DrainExact
  <2>3. S!C!TypeOK
    BY DEF LockInv, CP!CoreInv, CP!TypeOK, CP!Waiting, CP!Registered,
           S!C!TypeOK, S!C!Waiting, S!C!Registered
  <2> QED
    BY <2>1, <2>2, <2>3 DEF LockInv, Types, Labels, AtLabels, TypeOK, S!TypeOK
<1> QED
  BY <1>1, LockInit, LockStep, PTL DEF Spec

(* A write guard is aliased by no other guard. *)
THEOREM WriterIsAlone == Spec => []WriterAlone
<1>1. LockInv => WriterAlone
  BY DEF LockInv, WriterAlone, MutexHeld, DrainExact, Through, Readers, Marked
<1> QED
  BY <1>1, LockInit, LockStep, PTL DEF Spec

(* The semaphore carries a permit or a post exactly for the writer that drains,
   and none is left over for a later one. *)
THEOREM PermitIsForTheDrain == Spec => []PermitsMatchDrain
<1>1. LockInv => PermitsMatchDrain
  <2> SUFFICES ASSUME LockInv PROVE PermitsMatchDrain
    OBVIOUS
  <2>1. /\ Cardinality(Readers) \in Nat /\ Cardinality(Posters) \in Nat
        /\ Readers = {} <=> Cardinality(Readers) = 0
    BY LockThreads, FS_EmptySet DEF Readers, Posters
  <2> QED
    BY <2>1 DEF LockInv, Types, WordExact, DrainExact, PermitsMatchDrain, Needing, Posters
<1> QED
  BY <1>1, LockInit, LockStep, PTL DEF Spec

-----------------------------------------------------------------------------
(* Inside the lock, wait and post are a counting semaphore's: no step makes or
   loses a permit, and none is taken by a thread that does not wait. *)
THEOREM SemaphoreIsCounting == Spec => S!Abs!SemSafety
<1>1. Init => S!Abs!SemInit
  BY DEF Init, S!Init, S!Abs!SemInit
<1>2. LockInv /\ [Next]_vars => [S!Abs!SemNext]_(S!Abs!vars)
  <2> SUFFICES ASSUME LockInv, [Next]_vars PROVE S!Abs!SemNext \/ UNCHANGED S!Abs!vars
    OBVIOUS
  <2> USE DEF LockInv, Types, AtLabels, S!Abs!vars, S!Abs!SemNext, S!Abs!Enter, S!Abs!Take, S!Abs!Post
  <2>1. ASSUME NEW t \in Threads, DrainCall(t) PROVE S!Abs!SemNext
    BY <2>1 DEF DrainCall, S!WaitCall, S!At
  <2>2. ASSUME NEW t \in Threads, PostCall(t) PROVE UNCHANGED S!Abs!vars
    BY <2>2 DEF PostCall, S!PostCall, S!At
  <2>3. ASSUME NEW t \in Threads, OwnStep(t), ~DrainCall(t), ~PostCall(t)
        PROVE  UNCHANGED S!Abs!vars
    BY <2>3
    DEF OwnStep, MutexLock, MutexUnlock, semVars, WriteCall, WriteLockMutex, MarkWriting, Drained,
        WriteUnlock, WriteUnlockMutex, ReadFast, ReadSlow, ReadLockMutex, ReadEnter,
        ReadUnlockMutex, ReadUnlock, Posted
  <2>4. ASSUME NEW t \in Threads, InnerStep(t) PROVE S!Abs!SemNext \/ UNCHANGED S!Abs!vars
    BY <2>4 DEF InnerStep, SemaphoreStep
  <2>5. CASE UNCHANGED vars
    BY <2>5 DEF vars, semVars
  <2> QED
    BY <2>1, <2>2, <2>3, <2>4, <2>5, LockSteps
<1> QED
  BY <1>1, <1>2, LockInit, LockStep, PTL DEF Spec, S!Abs!SemSafety
=============================================================================
