------------------------------- MODULE RwLock -------------------------------
(* src/src/threading/RwLock.rs: the reader-writer state machine RawRwLock.   *)
(* Its mutex is the abstract lock that module Mutex implements; its          *)
(* semaphore is module Semaphore, every step of wait and post interleaved.   *)
(* The three fields of the state word change together, in one atomic access. *)
EXTENDS Naturals, FiniteSets

CONSTANTS Threads, NoThread,
          MaxPermits    \* bound of module Semaphore, above what RwLock ever posts

ASSUME RwLockAssumption ==
    /\ IsFiniteSet(Threads) /\ NoThread \notin Threads
    /\ MaxPermits \in Nat /\ MaxPermits > 1

VARIABLES isWriting,   \* state & IS_WRITING
          writers,     \* the pending-writer count, state & WRITER_MASK
          readers,     \* the active-reader count, state & READER_MASK
          mutex,       \* the holder of the inner mutex
          pc,
          permits, at, \* the inner semaphore, and where each thread is in it
          owner, waiters, signals, fresh, toWake, cv

semVars == <<permits, at, owner, waiters, signals, fresh, toWake, cv>>
vars == <<isWriting, writers, readers, mutex, pc, semVars>>

S == INSTANCE Semaphore

TypeOK ==
    /\ isWriting \in BOOLEAN
    /\ writers \in 0..Cardinality(Threads) /\ readers \in 0..Cardinality(Threads)
    /\ mutex \in Threads \cup {NoThread}
    /\ S!TypeOK
    /\ pc \in [Threads -> {"idle", "pending", "mark", "drain", "draining", "writing", "unlocked",
                           "queued", "enter", "entered", "reading", "post", "posting"}]

Init ==
    /\ isWriting = FALSE /\ writers = 0 /\ readers = 0
    /\ mutex = NoThread /\ S!Init
    /\ pc = [t \in Threads |-> "idle"]

Goto(t, label) == pc' = [pc EXCEPT ![t] = label]

MutexLock(t, from, to) ==
    /\ pc[t] = from /\ mutex = NoThread
    /\ mutex' = t
    /\ Goto(t, to)
    /\ UNCHANGED <<isWriting, writers, readers, semVars>>

MutexUnlock(t, from, to) ==
    /\ pc[t] = from
    /\ mutex' = NoThread
    /\ Goto(t, to)
    /\ UNCHANGED <<isWriting, writers, readers, semVars>>

-----------------------------------------------------------------------------
(* Plausible slips. *)

(* The last reader posts whether or not a writer waits for it. *)
SlipPostAlways(t) ==
    /\ pc[t] = "reading"
    /\ readers' = readers - 1
    /\ Goto(t, IF readers = 1 THEN "post" ELSE "idle")
    /\ UNCHANGED <<isWriting, writers, mutex, semVars>>

(* Every reader that leaves under a writer posts. *)
SlipPostEach(t) ==
    /\ pc[t] = "reading"
    /\ readers' = readers - 1
    /\ Goto(t, IF isWriting THEN "post" ELSE "idle")
    /\ UNCHANGED <<isWriting, writers, mutex, semVars>>

(* unlock_shared never posts. *)
SlipForgetDrain(t) ==
    /\ pc[t] = "reading"
    /\ readers' = readers - 1
    /\ Goto(t, "idle")
    /\ UNCHANGED <<isWriting, writers, mutex, semVars>>

(* The pending writer is not taken off the count. *)
SlipKeepPending(t) ==
    /\ pc[t] = "mark"
    /\ isWriting' = TRUE
    /\ Goto(t, IF readers > 0 THEN "drain" ELSE "writing")
    /\ UNCHANGED <<writers, readers, mutex, semVars>>

-----------------------------------------------------------------------------
(* lock() and unlock() *)

(* state.fetch_add(WRITER) *)
WriteCall(t) ==
    /\ pc[t] = "idle"
    /\ writers' = writers + 1
    /\ Goto(t, "pending")
    /\ UNCHANGED <<isWriting, readers, mutex, semVars>>

WriteLockMutex(t) == MutexLock(t, "pending", "mark")

(* One fetch_add sets IS_WRITING and takes the pending writer off. *)
MarkWriting(t) ==
    /\ pc[t] = "mark"
    /\ isWriting' = TRUE /\ writers' = writers - 1
    /\ Goto(t, IF readers > 0 THEN "drain" ELSE "writing")
    /\ UNCHANGED <<readers, mutex, semVars>>

(* semaphore.wait(): until the last reader posts *)
DrainCall(t) ==
    /\ pc[t] = "drain"
    /\ S!WaitCall(t)
    /\ Goto(t, "draining")
    /\ UNCHANGED <<isWriting, writers, readers, mutex>>

Drained(t) ==
    /\ pc[t] = "draining" /\ at[t] = "idle"
    /\ Goto(t, "writing")
    /\ UNCHANGED <<isWriting, writers, readers, mutex, semVars>>

(* unlock: state.fetch_and(!IS_WRITING) *)
WriteUnlock(t) ==
    /\ pc[t] = "writing"
    /\ isWriting' = FALSE
    /\ Goto(t, "unlocked")
    /\ UNCHANGED <<writers, readers, mutex, semVars>>

WriteUnlockMutex(t) == MutexUnlock(t, "unlocked", "idle")

-----------------------------------------------------------------------------
(* lock_shared() and unlock_shared() *)

(* The compare-exchange of the fast path. *)
ReadFast(t) ==
    /\ pc[t] = "idle"
    /\ ~isWriting /\ writers = 0
    /\ readers' = readers + 1
    /\ Goto(t, "reading")
    /\ UNCHANGED <<isWriting, writers, mutex, semVars>>

(* A writer holds or awaits the lock: queue on the mutex. *)
ReadSlow(t) ==
    /\ pc[t] = "idle"
    /\ isWriting \/ writers > 0
    /\ Goto(t, "queued")
    /\ UNCHANGED <<isWriting, writers, readers, mutex, semVars>>

ReadLockMutex(t) == MutexLock(t, "queued", "enter")

ReadEnter(t) ==
    /\ pc[t] = "enter"
    /\ readers' = readers + 1
    /\ Goto(t, "entered")
    /\ UNCHANGED <<isWriting, writers, mutex, semVars>>

ReadUnlockMutex(t) == MutexUnlock(t, "entered", "reading")

(* unlock_shared: the last reader to leave under a marked writer posts. *)
ReadUnlock(t) ==
    /\ pc[t] = "reading"
    /\ readers' = readers - 1
    /\ Goto(t, IF readers = 1 /\ isWriting THEN "post" ELSE "idle")
    /\ UNCHANGED <<isWriting, writers, mutex, semVars>>

PostCall(t) ==
    /\ pc[t] = "post"
    /\ S!PostCall(t)
    /\ Goto(t, "posting")
    /\ UNCHANGED <<isWriting, writers, readers, mutex>>

Posted(t) ==
    /\ pc[t] = "posting" /\ at[t] = "idle"
    /\ Goto(t, "idle")
    /\ UNCHANGED <<isWriting, writers, readers, mutex, semVars>>

(* Steps inside semaphore.wait and semaphore.post. *)
InSemaphore(t) == S!InCall(t) /\ UNCHANGED <<isWriting, writers, readers, mutex, pc>>

SemaphoreAcquire == S!Acquire /\ UNCHANGED <<isWriting, writers, readers, mutex, pc>>

SpuriousReturn(t) == S!SpuriousReturn(t) /\ UNCHANGED <<isWriting, writers, readers, mutex, pc>>

-----------------------------------------------------------------------------
Acquire == \E t \in Threads : WriteLockMutex(t) \/ ReadLockMutex(t)

Proceed(t) ==
    \/ MarkWriting(t) \/ DrainCall(t) \/ Drained(t) \/ WriteUnlock(t) \/ WriteUnlockMutex(t)
    \/ ReadEnter(t) \/ ReadUnlockMutex(t) \/ ReadUnlock(t) \/ PostCall(t) \/ Posted(t)
    \/ InSemaphore(t)

Next == \/ Acquire \/ SemaphoreAcquire
        \/ \E t \in Threads :
              WriteCall(t) \/ ReadFast(t) \/ ReadSlow(t) \/ Proceed(t) \/ SpuriousReturn(t)

Spec == Init /\ [][Next]_vars

(* Holders let go, threads inside a call run on, and a mutex is taken when it
   is free and waited for (module Lock). *)
FairSpec ==
    /\ Spec
    /\ WF_vars(Acquire) /\ WF_vars(SemaphoreAcquire)
    /\ \A t \in Threads : WF_vars(Proceed(t))

-----------------------------------------------------------------------------
(* Properties *)

(* A writer is alone, among writers and readers: the &mut T of a write guard is
   aliased by no other guard.  A reader that has entered through the mutex counts
   from its fetch_add. *)
WriterAlone ==
    \A t \in Threads : pc[t] = "writing" =>
        \A u \in Threads \ {t} : pc[u] \notin {"writing", "entered", "reading"}

(* The semaphore carries at most the one permit that the draining writer waits
   for: none is left over for a later writer, who would walk in on the readers,
   and the draining writer always has its readers, a poster or the permit. *)
PermitsMatchDrain ==
    LET posts == Cardinality({t \in Threads :
                                pc[t] = "post" \/ (pc[t] = "posting" /\ at[t] = "post")})
        drains == \E t \in Threads :
                     pc[t] = "drain" \/ (pc[t] = "draining" /\ at[t] = "wait")
    IN  /\ permits + posts <= 1
        /\ permits + posts = 1 => readers = 0 /\ drains
        /\ drains => readers > 0 \/ permits + posts = 1

(* Inside the lock as well the semaphore is a counting semaphore: a permit is
   neither made nor lost, and the one the writer waits for is taken, although
   the condition drops the signal of a post that finds nobody waiting and a
   signal may end the wait of a later writer. *)
ImplementsSemaphore == S!ImplementsSemaphore

(* No deadlock between the mutex, the state word and the semaphore: when new
   callers and spurious returns stay away, every caller gets its lock and leaves. *)
EveryoneServed ==
    (<>[][\A t \in Threads : ~(WriteCall(t) \/ ReadFast(t) \/ ReadSlow(t) \/ SpuriousReturn(t))]_vars)
        => <>[](\A t \in Threads : pc[t] = "idle")
=============================================================================
