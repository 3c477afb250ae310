-------------------------- MODULE ThreadPoolProofs --------------------------
(* Proofs about module ThreadPool for any finite set of workers, any tasks   *)
(* and any max_threads.  Three invariants build on each other: EventInv of   *)
(* idle_event, SyncInv of the packed word and the places of the threads, and *)
(* WorkInv, which says of every queued task who is on the way to it.         *)
EXTENDS ThreadPool, FiniteSetTheorems, TLAPS

(* A thread asleep has parked, and the word stays SHUTDOWN behind sleepers only
   until the wake that goes with it: otherwise the last thread to look at a
   SHUTDOWN word would leave the others asleep. *)
EventInv ==
    /\ E!TypeOK
    /\ \A a \in Actors : ev[a] = "asleep" => parked[a]
    /\ event = E!SHUTDOWN /\ (\E a \in Actors : ev[a] = "asleep")
          => \E a \in Actors : ev[a] = "wakeAll"
    /\ E!NoStrandedSleeper

OwnerLabels == {"client", "closing", "notify", "notifySlow", "wokeIdle", "spawn", "warmSpawn",
                "shutdown", "join", "awaitAll", "startChain", "freed"}

WorkerLabels == {"unborn", "starting", "wait", "drain", "own", "globalQ", "take", "release",
                 "releasePushed", "load", "steal", "run", "notify", "notifySlow", "wokeIdle",
                 "spawn", "exit", "unregister", "notifyJoin", "awaitJoin", "chain", "gone"}

(* After the owner's shutdown, and a worker's way out, which begins there. *)
Closed  == {"shutdown", "join", "awaitAll", "startChain", "freed"}
Leaving == {"exit", "unregister", "notifyJoin", "awaitJoin", "chain", "gone"}

(* A worker at one of these labels looks at the global queue before it can
   sleep. *)
Searching == {"own", "globalQ", "take", "release", "releasePushed", "run",
              "notify", "notifySlow", "wokeIdle", "spawn"}

(* A worker that reads the Sync word before it can sleep. *)
Sees(w) == at[w] \in Searching \cup {"starting", "load", "steal"} \/ AtLabel(w, "wait")

Wakers == {a \in Actors : waking[a]}
Idle   == {w \in Workers : isIdle[w]}
Live   == {w \in Workers : at[w] \notin {"unborn", "notifyJoin", "awaitJoin", "chain", "gone"}}
Births == {a \in Actors : at[a] \in {"spawn", "warmSpawn"}}

SyncWord == [idle : Nat, spawned : Nat, notified : BOOLEAN, state : SyncState]

PoolTypes ==
    /\ sync \in SyncWord
    /\ at \in [Actors -> OwnerLabels \cup WorkerLabels]
    /\ at[Owner] \in OwnerLabels /\ \A w \in Workers : at[w] \in WorkerLabels
    /\ waking \in [Actors -> BOOLEAN] /\ isIdle \in [Workers -> BOOLEAN]

(* idle_event as its users leave it: only a worker in wait() is inside Event::wait. *)
EventPlaces ==
    /\ ev[Owner] \in {"out", "wakeOne", "wakeAll"}
    /\ \A w \in Workers : /\ ev[w] \in {"check", "park", "asleep"} => at[w] = "wait"
                          /\ ev[w] \in {"wakeOne", "wakeAll"} => at[w] = "run"

(* The state field: Shutdown is the owner's doing and for good; otherwise there is
   one waking thread exactly in state Waking, and Signaled goes with notified. *)
StateExact ==
    /\ sync.state = "Shutdown" <=> at[Owner] \in Closed
    /\ \A w \in Workers : at[w] \in Leaving => sync.state = "Shutdown"
    /\ sync.state = "Signaled" => sync.notified
    /\ sync.state \in {"Pending", "Signaled"} => Wakers = {}
    /\ sync.state = "Waking" => \E w \in Workers : Wakers = {w} /\ Sees(w)

IdleExact ==
    sync.state # "Shutdown" =>
        /\ sync.idle = Cardinality(Idle)
        /\ \A w \in Workers : IF isIdle[w] THEN at[w] \in {"drain", "wait"} /\ ~waking[w]
                              ELSE at[w] # "drain" /\ ev[w] \notin {"check", "park", "asleep"}

SpawnedExact == sync.spawned = Cardinality(Live) + Cardinality(Births)

(* Once the last thread has unregistered, none is live or comes to life. *)
JoinExact ==
    /\ joinEvent \in BOOLEAN /\ joinFlag \in [Workers -> BOOLEAN] /\ threads \in Seq(Workers)
    /\ joinEvent \/ at[Owner] \in {"startChain", "freed"}
                 \/ (\E w \in Workers : at[w] = "notifyJoin")
          => sync.state = "Shutdown" /\ sync.spawned = 0
    /\ \A w \in Workers : joinFlag[w] \/ at[w] = "chain" => at[Owner] = "freed"

(* Tasks in a worker's own queue: the worker is awake and comes back to them;
   one that looks elsewhere for a task has none. *)
LocalSeen ==
    /\ local = [w \in Workers |-> local[w]]
    /\ \A w \in Workers : local[w] # {} => at[w] \in Searching \ {"globalQ", "take"}

ConsumerPlace ==
    consumer # Nil => consumer \in Workers /\ at[consumer] \in {"take", "release", "releasePushed"}

(* Tasks in the global queue: the owner has yet to notify, or has left the
   notified bit, or a worker is on its way to the queue. *)
GlobalSeen ==
    global # {} /\ sync.state # "Shutdown" =>
        \/ at[Owner] \in {"notify", "notifySlow"}
        \/ sync.notified
        \/ \E w \in Workers : at[w] \in Searching

(* The notified bit: somebody is on the way to consume it. *)
NotifiedSeen ==
    sync.notified /\ sync.state # "Shutdown" =>
        \/ \E w \in Workers : Sees(w)
        \/ at[Owner] = "spawn"
        \/ (at[Owner] = "wokeIdle" \/ event = E!NOTIFIED) /\ Live # {}

SyncInv == EventInv /\ PoolTypes /\ EventPlaces /\ StateExact /\ IdleExact /\ SpawnedExact

WorkInv == LocalSeen /\ ConsumerPlace /\ GlobalSeen /\ NotifiedSeen

-----------------------------------------------------------------------------
(* idle_event *)

(* What the pool's threads do to idle_event. *)
UsesEvent(a) ==
    \/ E!WaitCall(a) \/ E!WaitStep(a) \/ E!SpuriousReturn(a) \/ E!FutexWake(a)
    \/ E!Notify(a) \/ E!Post(a, E!NOTIFIED, TRUE) \/ E!Post(a, E!SHUTDOWN, TRUE)

(* Every step of the pool is one of those or leaves idle_event alone. *)
LEMMA PoolUsesEvent == [Next]_vars => UNCHANGED eventVars \/ \E a \in Actors : UsesEvent(a)
  <1> SUFFICES ASSUME [Next]_vars, ~UNCHANGED eventVars PROVE \E a \in Actors : UsesEvent(a)
    OBVIOUS
  <1> USE DEF UsesEvent, Actors
  <1>1. ASSUME NEW a \in Actors, NotifyStep(a) \/ EventStep(a) PROVE UsesEvent(a)
    BY <1>1 DEF NotifyStep, EventStep, NotifyFast, NotifySlow, NotifyIdleEvent, SpawnForNotify,
                Spawn, SpawnFails
  <1>2. ASSUME NEW w \in Workers,
               \/ Register(w) \/ Wait(w) \/ DrainAndSleep(w) \/ PopLocal(w) \/ AcquireGlobal(w)
               \/ TakeGlobal(w) \/ ReleaseGlobal(w) \/ LoadSpawned(w) \/ Steal(w)
        PROVE  UsesEvent(w)
    BY <1>2 DEF Register, Wait, DrainAndSleep, PopLocal, AcquireGlobal, TakeGlobal, ReleaseGlobal,
                LoadSpawned, Steal
  <1>3. ASSUME NEW w \in Workers,
               \/ ScheduleInside(w) \/ Finish(w) \/ ExitDrain(w) \/ Unregister(w)
               \/ NotifyJoin(w) \/ AwaitJoin(w) \/ Chain(w) \/ SpuriousReturn(w)
        PROVE  UsesEvent(w)
    BY <1>3 DEF ScheduleInside, Finish, ExitDrain, Unregister, NotifyJoin, AwaitJoin, Chain,
                SpuriousReturn
  <1>4. ASSUME \/ Schedule \/ Warm \/ WarmSpawn \/ WakeForIdleEvents \/ Shutdown
               \/ ShutdownIdleEvent \/ JoinCheck \/ JoinWait \/ StartChain
        PROVE  UsesEvent(Owner)
    BY <1>4 DEF Schedule, Warm, WarmSpawn, Spawn, WakeForIdleEvents, Shutdown, ShutdownIdleEvent,
                JoinCheck, JoinWait, StartChain
  <1>5. CASE Next
    BY <1>1, <1>2, <1>3, <1>4, <1>5 DEF Next, WorkerStep, OwnerStep
  <1>6. CASE UNCHANGED vars
    BY <1>6 DEF vars
  <1> QED
    BY <1>5, <1>6

(* idle_event's invariant holds at the start and is kept by every use. *)
LEMMA EventInvariant == (Init => EventInv) /\ (EventInv /\ [Next]_vars => EventInv')
<1> USE DEF EventInv, E!TypeOK, E!NoStrandedSleeper, E!EMPTY, E!WAITING, E!NOTIFIED, E!SHUTDOWN,
            E!Inside, E!Goto
<1>1. Init => EventInv
  BY DEF Init, E!Init
<1>2. ASSUME EventInv, NEW a \in Actors, UsesEvent(a) PROVE EventInv'
  <2>1. CASE E!WaitCall(a)
    BY <1>2, <2>1 DEF E!WaitCall
  <2>2. CASE E!Check(a)
    BY <1>2, <2>2 DEF E!Check
  <2>3. CASE E!Park(a)
    BY <1>2, <2>3 DEF E!Park
  <2>4. CASE E!Sweep(a) \/ E!SpuriousReturn(a)
    BY <1>2, <2>4 DEF E!Sweep, E!SpuriousReturn
  <2>5. CASE E!Notify(a) \/ E!Post(a, E!NOTIFIED, TRUE) \/ E!Post(a, E!SHUTDOWN, TRUE)
    BY <1>2, <2>5 DEF E!Notify, E!Post
  <2>6. CASE E!FutexWake(a)
    <3> DEFINE sleepers == {u \in Actors : ev[u] = "asleep"}
    <3>1. PICK woken \in SUBSET sleepers :
              /\ ev' = [u \in Actors |-> IF u = a THEN "out"
                                         ELSE IF u \in woken THEN "check" ELSE ev[u]]
              /\ IF ev[a] = "wakeAll" THEN woken = sleepers
                 ELSE sleepers # {} => \E u \in sleepers : u \in woken
      BY <2>6 DEF E!FutexWake, E!WakeOne
    <3>2. event' = event /\ parked' = parked /\ swept' = swept /\ ev[a] \in {"wakeOne", "wakeAll"}
      BY <2>6 DEF E!FutexWake
    <3> QED
      BY <1>2, <3>1, <3>2
  <2> QED
    BY <1>2, <2>1, <2>2, <2>3, <2>4, <2>5, <2>6 DEF UsesEvent, E!WaitStep
<1>3. EventInv /\ UNCHANGED eventVars => EventInv'
  BY DEF eventVars
<1> QED
  BY <1>1, <1>2, <1>3, PoolUsesEvent

(* Nobody is left asleep in idle_event behind a word that would make the next
   notify skip the futex, whoever takes the token and however often the event is
   notified after its shutdown. *)
THEOREM IdleSleepersAreSeenTo == Safety => []SleepersSeenTo
  BY EventInvariant, PTL DEF Safety, EventInv, SleepersSeenTo

-----------------------------------------------------------------------------
(* The Sync word *)

Busy == {"own", "globalQ", "take", "release", "releasePushed", "run", "notify", "notifySlow",
         "load", "steal"}

(* A step that only moves a thread along its code: of a worker at work or on its
   way out, of the owner at work, of the owner joining. *)
Moves(a, from, to) ==
    \/ a \in Workers /\ from \in Busy \cup {"starting"} /\ to \in Busy \cup {"wait"}
    \/ a \in Workers /\ from = "exit" /\ to = "unregister"
    \/ /\ a \in Workers /\ from \in {"notifyJoin", "awaitJoin", "chain"}
       /\ to \in {"awaitJoin", "chain", "gone"}
    \/ a = Owner /\ from \in {"client", "notify"} /\ to \in {"client", "notify", "notifySlow"}
    \/ /\ a = Owner /\ from \in {"join", "awaitAll", "startChain"}
       /\ to \in {"awaitAll", "startChain", "freed"}

Quiet(a) ==
    /\ ev[a] = "out" /\ UNCHANGED <<sync, waking, isIdle, eventVars>>
    /\ \E to \in OwnerLabels \cup WorkerLabels :
          at' = [at EXCEPT ![a] = to] /\ (Moves(a, at[a], to) \/ to = at[a])

(* The steps that leave the word, the idle marks and the event alone. *)
QuietStep(a) ==
    \/ a \in Actors /\ NotifyFast(a)
    \/ /\ a \in Workers
       /\ \/ Register(a) \/ PopLocal(a) \/ AcquireGlobal(a) \/ TakeGlobal(a) \/ ReleaseGlobal(a)
          \/ LoadSpawned(a) \/ Steal(a) \/ ScheduleInside(a) \/ Finish(a)
          \/ ExitDrain(a) \/ NotifyJoin(a) \/ AwaitJoin(a) \/ Chain(a)
    \/ a = Owner /\ (Schedule \/ JoinCheck \/ JoinWait \/ StartChain)

(* Each of them is such a move. *)
LEMMA QuietSteps == ASSUME PoolTypes, NEW a \in Actors, QuietStep(a) PROVE Quiet(a)
  <1> USE PoolAssumption
      DEF Quiet, Moves, Busy, AtLabel, Goto, Resume, OwnerLabels, WorkerLabels, Actors
  <1>1. CASE NotifyFast(a)
    BY <1>1 DEF NotifyFast
  <1>2. ASSUME a \in Workers, Register(a) \/ PopLocal(a) \/ AcquireGlobal(a) \/ TakeGlobal(a)
        PROVE  Quiet(a)
    BY <1>2 DEF Register, PopLocal, Popped, AcquireGlobal, TakeGlobal
  <1>3. ASSUME a \in Workers, ReleaseGlobal(a) \/ LoadSpawned(a) \/ ScheduleInside(a) \/ Finish(a)
        PROVE  Quiet(a)
    BY <1>3 DEF ReleaseGlobal, LoadSpawned, ScheduleInside, Finish
  <1>4. ASSUME a \in Workers, Steal(a) PROVE Quiet(a)
    <2>1. /\ at[a] = "steal" /\ ev[a] = "out" /\ UNCHANGED <<sync, waking, isIdle, eventVars>>
          /\ \/ \E to \in {"wait", "notify", "run"} : at' = [at EXCEPT ![a] = to]
             \/ at' = at
      BY <1>4 DEF Steal, Popped
    <2> QED
      BY <1>4, <2>1 DEF PoolTypes
  <1>5. ASSUME a \in Workers, ExitDrain(a) \/ NotifyJoin(a) \/ AwaitJoin(a) \/ Chain(a)
        PROVE  Quiet(a)
    BY <1>5 DEF ExitDrain, NotifyJoin, AwaitJoin, Chain
  <1>6. ASSUME a = Owner, Schedule \/ JoinCheck \/ JoinWait \/ StartChain PROVE Quiet(a)
    BY <1>6 DEF Schedule, JoinCheck, JoinWait, StartChain
  <1> QED
    BY <1>1, <1>2, <1>3, <1>4, <1>5, <1>6 DEF QuietStep

(* The pool's threads are finitely many. *)
LEMMA PoolThreads ==
    /\ \A S \in SUBSET Actors : IsFiniteSet(S) /\ Cardinality(S) \in Nat
    /\ \A S \in SUBSET Workers : IsFiniteSet(S) /\ Cardinality(S) \in Nat
  <1>1. IsFiniteSet(Actors)
    BY PoolAssumption, FS_AddElement DEF Actors
  <1>2. \A S \in SUBSET Actors : IsFiniteSet(S) /\ Cardinality(S) \in Nat
    BY <1>1, FS_Subset, FS_CardinalityType
  <1> QED
    BY <1>2 DEF Actors

(* Setting fields of the word. *)
LEMMA SyncEdits ==
    ASSUME NEW s \in SyncWord, NEW n \in Nat, NEW b \in BOOLEAN, NEW st \in SyncState
    PROVE  /\ [s EXCEPT !.spawned = n] \in SyncWord
           /\ [s EXCEPT !.notified = b, !.state = st] \in SyncWord
           /\ [s EXCEPT !.notified = b, !.state = st, !.spawned = n] \in SyncWord
           /\ [s EXCEPT !.idle = n, !.state = st] \in SyncWord
           /\ [s EXCEPT !.notified = b, !.idle = n, !.state = st] \in SyncWord
           /\ [s EXCEPT !.notified = b, !.state = st, !.idle = n] \in SyncWord
  BY DEF SyncWord

(* The counts at the start. *)
LEMMA SyncInit == Init => SyncInv
  <1> SUFFICES ASSUME Init PROVE SyncInv
    OBVIOUS
  <1>1. PoolTypes /\ EventPlaces
    BY PoolAssumption
    DEF Init, E!Init, PoolTypes, EventPlaces, Actors, SyncWord, SyncState, OwnerLabels, WorkerLabels
  <1>2. Wakers = {} /\ Idle = {} /\ Live = {} /\ Births = {}
    BY PoolAssumption DEF Init, Wakers, Idle, Live, Births, Actors
  <1>3. StateExact
    BY <1>2, PoolAssumption DEF Init, StateExact, Closed, Leaving, Actors
  <1>4. IdleExact
    BY <1>2, FS_EmptySet, PoolAssumption DEF Init, E!Init, IdleExact, Actors
  <1>5. SpawnedExact
    BY <1>2, FS_EmptySet DEF Init, SpawnedExact
  <1> QED
    BY <1>1, <1>3, <1>4, <1>5, EventInvariant DEF SyncInv

(* A quiet step disturbs none of the counts. *)
LEMMA SyncQuiet ==
    ASSUME SyncInv, NEW a \in Actors, Quiet(a)
    PROVE  PoolTypes' /\ EventPlaces' /\ StateExact' /\ IdleExact' /\ SpawnedExact'
  <1>1. PICK to \in OwnerLabels \cup WorkerLabels :
            at' = [at EXCEPT ![a] = to] /\ (Moves(a, at[a], to) \/ to = at[a])
    BY DEF Quiet
  <1>2. /\ ev[a] = "out" /\ UNCHANGED <<sync, waking, isIdle, event, ev, parked, swept>>
        /\ PoolTypes /\ EventPlaces /\ StateExact /\ IdleExact /\ SpawnedExact
    BY DEF Quiet, SyncInv, eventVars
  <1> USE PoolAssumption, <1>1, <1>2 DEF Moves, Busy, OwnerLabels, WorkerLabels, Actors
  <1>3. PoolTypes'
    BY DEF PoolTypes
  <1>4. EventPlaces'
    BY DEF EventPlaces, PoolTypes
  <1>5. Live' = Live /\ Births' = Births /\ Idle' = Idle /\ Wakers' = Wakers
    BY DEF Live, Births, Idle, Wakers, PoolTypes
  <1>6. \A w \in Workers : Sees(w) => Sees(w)'
    BY DEF Sees, Searching, AtLabel, PoolTypes
  <1>7. StateExact'
    <2>1. sync'.state = "Shutdown" <=> at'[Owner] \in Closed
      BY DEF StateExact, Closed, PoolTypes
    <2>2. \A w \in Workers : at'[w] \in Leaving => sync'.state = "Shutdown"
      BY DEF StateExact, Leaving, PoolTypes
    <2> QED
      BY <1>5, <1>6, <2>1, <2>2 DEF StateExact
  <1>8. IdleExact'
    BY <1>5 DEF IdleExact, PoolTypes
  <1>9. SpawnedExact'
    BY <1>5 DEF SpawnedExact
  <1> QED
    BY <1>3, <1>4, <1>7, <1>8, <1>9

(* What a step does to idle_event while every thread stays where it is in the
   pool's code. *)
LEMMA SyncEvent ==
    ASSUME SyncInv, NEW a \in Actors, EventStep(a) \/ (a \in Workers /\ SpuriousReturn(a))
    PROVE  PoolTypes' /\ EventPlaces' /\ StateExact' /\ IdleExact' /\ SpawnedExact'
  <1> DEFINE Inner == {"check", "park", "asleep"}
  <1>1. /\ UNCHANGED <<sync, at, waking, isIdle>>
        /\ E!WaitStep(a) \/ E!FutexWake(a) \/ E!SpuriousReturn(a)
    BY DEF EventStep, SpuriousReturn
  <1>2. EventInv /\ PoolTypes /\ EventPlaces /\ StateExact /\ IdleExact /\ SpawnedExact
    BY DEF SyncInv
  <1>3. \A u \in Actors : /\ ev'[u] = ev[u] \/ ev'[u] = "out" \/ (ev[u] \in Inner /\ ev'[u] \in Inner)
    <2> USE DEF EventInv, E!TypeOK, E!Inside, E!Goto
    <2>1. CASE E!WaitStep(a) \/ E!SpuriousReturn(a)
      BY <1>2, <2>1 DEF E!WaitStep, E!Check, E!Park, E!Sweep, E!SpuriousReturn
    <2>2. CASE E!FutexWake(a)
      BY <1>2, <2>2 DEF E!FutexWake, E!WakeOne
    <2> QED
      BY <1>1, <2>1, <2>2
  <1>4. EventPlaces'
    BY <1>1, <1>2, <1>3 DEF EventPlaces, Actors
  <1>5. Live' = Live /\ Births' = Births /\ Idle' = Idle /\ Wakers' = Wakers
    BY <1>1 DEF Live, Births, Idle, Wakers
  <1>6. \A w \in Workers : Sees(w) => Sees(w)'
    BY <1>1, <1>2, <1>3 DEF Sees, Searching, AtLabel, Actors
  <1>7. StateExact'
    BY <1>1, <1>2, <1>5, <1>6 DEF StateExact
  <1>8. IdleExact'
    BY <1>1, <1>2, <1>3, <1>5 DEF IdleExact, Actors
  <1> QED
    BY <1>1, <1>2, <1>4, <1>5, <1>7, <1>8 DEF PoolTypes, SpawnedExact

(* What notify_slow's exchange does to a pool that is not shut down: it wakes an
   idle worker, spawns one, or leaves the notified bit to those awake. *)
NotifyEffect(a) ==
    /\ sync' \in SyncWord /\ sync'.notified /\ sync'.idle = sync.idle
    /\ at[a] = "notifySlow" /\ ev[a] = "out" /\ UNCHANGED <<isIdle, ev, event, global>>
    /\ waking' = [waking EXCEPT ![a] = FALSE]
    /\ \/ /\ waking[a] \/ sync.state = "Pending"
          /\ sync.idle > 0
          /\ sync'.state = "Signaled" /\ sync'.spawned = sync.spawned
          /\ at' = [at EXCEPT ![a] = "wokeIdle"]
       \/ /\ waking[a] \/ sync.state = "Pending"
          /\ sync'.state = "Signaled" /\ sync'.spawned = sync.spawned + 1
          /\ at' = [at EXCEPT ![a] = "spawn"]
       \/ /\ waking[a] \/ sync.state = "Pending" => sync.idle = 0 /\ sync.spawned >= MaxThreads
          /\ sync'.state = (IF waking[a] THEN "Pending" ELSE sync.state)
          /\ sync'.spawned = sync.spawned
          /\ at' = [at EXCEPT ![a] = IF a = Owner THEN "client" ELSE "run"]

(* What the compare-and-swap of notify_slow did, in the terms the counts are stated
   in: it woke an idle worker, reserved a spawn, or only marked the word. *)
LEMMA NotifySlowEffect ==
    ASSUME PoolTypes, NEW a \in Actors, NotifySlow(a), sync.state # "Shutdown"
    PROVE  NotifyEffect(a)
  <1> DEFINE signals == [sync EXCEPT !.notified = TRUE, !.state = "Signaled"]
             spawns  == [sync EXCEPT !.notified = TRUE, !.state = "Signaled", !.spawned = @ + 1]
             leaves  == [sync EXCEPT !.notified = TRUE,
                                     !.state = IF waking[a] THEN "Pending" ELSE @]
             canWake == waking[a] \/ sync.state = "Pending"
  <1>1. /\ sync.idle \in Nat /\ sync.spawned \in Nat /\ sync.spawned + 1 \in Nat
        /\ sync.state \in SyncState /\ sync \in SyncWord /\ MaxThreads \in Nat
    BY PoolAssumption DEF PoolTypes, SyncWord
  <1>2. /\ at[a] = "notifySlow" /\ ev[a] = "out" /\ UNCHANGED <<isIdle, ev, event, global>>
        /\ waking' = [waking EXCEPT ![a] = FALSE]
        /\ \/ /\ canWake /\ sync.idle > 0
              /\ sync' = signals /\ at' = [at EXCEPT ![a] = "wokeIdle"]
           \/ /\ canWake
              /\ sync' = spawns /\ at' = [at EXCEPT ![a] = "spawn"]
           \/ /\ canWake => sync.idle = 0 /\ sync.spawned >= MaxThreads
              /\ sync' = leaves /\ at' = [at EXCEPT ![a] = IF a = Owner THEN "client" ELSE "run"]
    BY <1>1 DEF NotifySlow, AtLabel, Goto, Resume, eventVars, taskVars
  <1>3. signals \in SyncWord /\ spawns \in SyncWord /\ leaves \in SyncWord
    <2>1. /\ "Signaled" \in SyncState /\ TRUE \in BOOLEAN
          /\ (IF waking[a] THEN "Pending" ELSE sync.state) \in SyncState
      BY <1>1 DEF SyncState
    <2> QED
      BY <1>1, <2>1, SyncEdits
  <1>4. /\ signals.notified /\ signals.idle = sync.idle /\ signals.spawned = sync.spawned
        /\ signals.state = "Signaled"
    BY <1>1 DEF SyncWord
  <1>5. /\ spawns.notified /\ spawns.idle = sync.idle /\ spawns.spawned = sync.spawned + 1
        /\ spawns.state = "Signaled"
    BY <1>1 DEF SyncWord
  <1>6. /\ leaves.notified /\ leaves.idle = sync.idle /\ leaves.spawned = sync.spawned
        /\ leaves.state = (IF waking[a] THEN "Pending" ELSE sync.state)
    BY <1>1 DEF SyncWord
  <1> HIDE DEF signals, spawns, leaves
  <1> QED
    BY <1>2, <1>3, <1>4, <1>5, <1>6 DEF NotifyEffect

(* The steps that change the word, the idle marks or the event keep the counts
   right as well. *)
LEMMA SyncLoud ==
    ASSUME SyncInv, NEW a \in Actors,
           \/ NotifySlow(a) \/ NotifyIdleEvent(a) \/ SpawnForNotify(a) \/ SpawnFails(a)
           \/ a \in Workers /\ (Wait(a) \/ DrainAndSleep(a) \/ Unregister(a))
           \/ a = Owner /\ (Warm \/ WarmSpawn \/ WakeForIdleEvents \/ Shutdown \/ ShutdownIdleEvent)
    PROVE  PoolTypes' /\ EventPlaces' /\ StateExact' /\ IdleExact' /\ SpawnedExact'
<1> DEFINE Goal == PoolTypes /\ EventPlaces /\ StateExact /\ IdleExact /\ SpawnedExact
<1>inv. Goal /\ E!TypeOK
  BY DEF SyncInv, EventInv
<1>evt. E!TypeOK => ev \in [Actors -> {"out", "wakeOne", "wakeAll", "check", "park", "asleep"}]
  BY DEF E!TypeOK, E!Inside
<1>fin. /\ IsFiniteSet(Live) /\ Cardinality(Live) \in Nat
        /\ IsFiniteSet(Live') /\ Cardinality(Live') \in Nat
        /\ IsFiniteSet(Births) /\ Cardinality(Births) \in Nat
        /\ IsFiniteSet(Births') /\ Cardinality(Births') \in Nat
        /\ IsFiniteSet(Idle) /\ Cardinality(Idle) \in Nat
        /\ IsFiniteSet(Idle') /\ Cardinality(Idle') \in Nat
  BY PoolThreads DEF Live, Births, Idle
<1> USE PoolAssumption, <1>inv, <1>evt
    DEF Actors, OwnerLabels, WorkerLabels, SyncWord, SyncState, AtLabel, Goto, Resume
<1>1. CASE NotifySlow(a) /\ sync.state = "Shutdown"
  <2>1. UNCHANGED <<sync, isIdle, ev>> /\ at' = [at EXCEPT ![a] = IF a = Owner THEN "client" ELSE "run"]
    BY <1>1 DEF NotifySlow, eventVars
  <2>2. a \in Workers
    BY <1>1 DEF NotifySlow, StateExact, Closed
  <2>3. Live' = Live /\ Births' = Births
    BY <1>1, <2>1, <2>2 DEF NotifySlow, Live, Births, PoolTypes
  <2>4. PoolTypes' /\ EventPlaces' /\ StateExact' /\ IdleExact'
    BY <1>1, <2>1, <2>2
    DEF NotifySlow, PoolTypes, EventPlaces, StateExact, IdleExact, Closed, Leaving
  <2> QED
    BY <2>1, <2>3, <2>4 DEF SpawnedExact
<1>2. CASE NotifySlow(a) /\ sync.state # "Shutdown"
  <2>1. NotifyEffect(a)
    BY <1>2, NotifySlowEffect
  <2> USE DEF NotifyEffect
  <2>3. PoolTypes' /\ EventPlaces'
    BY <2>1 DEF PoolTypes, EventPlaces
  <2>4. Idle' = Idle /\ Live' = Live
    BY <2>1 DEF Idle, Live, PoolTypes
  <2>5. IdleExact'
    BY <1>2, <2>1, <2>4 DEF IdleExact, PoolTypes
  <2>6. StateExact'
    <3>1. Wakers' = Wakers \ {a}
      BY <2>1 DEF Wakers, PoolTypes
    <3>2. /\ waking[a] => sync.state = "Waking"
          /\ waking[a] \/ sync.state = "Pending" => Wakers' = {}
      BY <1>2, <3>1 DEF StateExact, Wakers, PoolTypes
    <3>3. \A w \in Workers : Sees(w) => Sees(w)'
      BY <2>1 DEF Sees, Searching, PoolTypes
    <3>4. /\ sync'.state = "Shutdown" <=> at'[Owner] \in Closed
          /\ \A w \in Workers : at'[w] \in Leaving => sync'.state = "Shutdown"
      BY <1>2, <2>1 DEF StateExact, Closed, Leaving, PoolTypes
    <3>5. CASE waking[a] \/ sync.state = "Pending"
      BY <2>1, <3>2, <3>4, <3>5 DEF StateExact
    <3>6. CASE ~(waking[a] \/ sync.state = "Pending")
      BY <2>1, <3>1, <3>3, <3>4, <3>6 DEF StateExact, Wakers, PoolTypes
    <3> QED
      BY <3>5, <3>6
  <2>7. CASE at'[a] = "spawn"
    <3>1. Births' = Births \cup {a} /\ a \notin Births /\ sync'.spawned = sync.spawned + 1
      BY <2>1, <2>7 DEF Births, PoolTypes
    <3>2. Cardinality(Births') = Cardinality(Births) + 1
      BY <3>1, <1>fin, FS_AddElement
    <3>3. SpawnedExact'
      BY <2>4, <3>1, <3>2, <1>fin DEF SpawnedExact
    <3> QED
      BY <2>3, <2>5, <2>6, <3>3
  <2>8. CASE at'[a] # "spawn"
    <3>1. Births' = Births /\ sync'.spawned = sync.spawned
      BY <2>1, <2>8 DEF Births, PoolTypes
    <3>2. SpawnedExact'
      BY <2>4, <3>1 DEF SpawnedExact
    <3> QED
      BY <2>3, <2>5, <2>6, <3>2
  <2> QED
    BY <2>7, <2>8
<1>3. CASE NotifyIdleEvent(a)
  <2>1. /\ UNCHANGED <<sync, isIdle, waking>> /\ at[a] = "wokeIdle" /\ ev[a] = "out"
        /\ at' = [at EXCEPT ![a] = IF a = Owner THEN "client" ELSE "run"]
        /\ \E to \in {"out", "wakeOne"} : ev' = [ev EXCEPT ![a] = to]
    BY <1>3 DEF NotifyIdleEvent, E!Notify, E!Post, E!Goto
  <2>2. Live' = Live /\ Births' = Births /\ Idle' = Idle /\ Wakers' = Wakers
    BY <2>1 DEF Live, Births, Idle, Wakers, PoolTypes
  <2>3. \A w \in Workers : Sees(w) => Sees(w)'
    BY <2>1 DEF Sees, Searching, PoolTypes
  <2>4. PoolTypes' /\ EventPlaces' /\ IdleExact'
    BY <2>1, <2>2 DEF PoolTypes, EventPlaces, IdleExact
  <2>5. StateExact'
    BY <2>1, <2>2, <2>3 DEF StateExact, Closed, Leaving, PoolTypes
  <2> QED
    BY <2>1, <2>2, <2>4, <2>5 DEF SpawnedExact
<1>4. CASE SpawnForNotify(a) \/ (a = Owner /\ WarmSpawn)
  <2>1. PICK w \in Workers : /\ at[w] = "unborn"
                             /\ at' = [at EXCEPT ![w] = "starting", ![a] = Resume(a)]
    BY <1>4 DEF SpawnForNotify, WarmSpawn, Spawn
  <2>2. /\ UNCHANGED <<sync, isIdle, waking, ev>> /\ ev[a] = "out"
        /\ at[a] \in {"spawn", "warmSpawn"} /\ (a \in Workers => at[a] = "spawn")
    BY <1>4 DEF SpawnForNotify, WarmSpawn, Spawn, eventVars
  <2>3. Idle' = Idle /\ Wakers' = Wakers
    BY <2>2 DEF Idle, Wakers
  <2>4. \A u \in Workers : Sees(u) => Sees(u)'
    BY <2>1, <2>2 DEF Sees, Searching, PoolTypes
  <2>5. PoolTypes' /\ EventPlaces' /\ IdleExact'
    BY <2>1, <2>2, <2>3 DEF PoolTypes, EventPlaces, IdleExact
  <2>6. StateExact'
    BY <2>1, <2>2, <2>3, <2>4 DEF StateExact, Closed, Leaving, PoolTypes
  <2>7. /\ Live' = Live \cup {w} /\ w \notin Live
        /\ Births' = Births \ {a} /\ a \in Births
    BY <2>1, <2>2 DEF Live, Births, PoolTypes
  <2>8. Cardinality(Live') = Cardinality(Live) + 1
    BY <2>7, <1>fin, FS_AddElement
  <2>9. Cardinality(Births') = Cardinality(Births) - 1
    BY <2>7, <1>fin, FS_RemoveElement
  <2>10. SpawnedExact'
    BY <2>2, <2>8, <2>9, <1>fin DEF SpawnedExact
  <2> QED
    BY <2>5, <2>6, <2>10
<1>5. CASE SpawnFails(a)
  <2>1. /\ UNCHANGED <<isIdle, waking, ev>> /\ ev[a] = "out"
        /\ at[a] \in {"spawn", "warmSpawn"}
        /\ at' = [at EXCEPT ![a] = Resume(a)]
        /\ sync' = [sync EXCEPT !.spawned = @ - 1]
    BY <1>5 DEF SpawnFails, eventVars
  <2>2. Idle' = Idle /\ Wakers' = Wakers /\ Live' = Live
    BY <2>1 DEF Idle, Wakers, Live, PoolTypes
  <2>3. Births' = Births \ {a} /\ a \in Births
    BY <2>1 DEF Births, PoolTypes
  <2>4. Cardinality(Births') = Cardinality(Births) - 1
    BY <2>3, <1>fin, FS_RemoveElement
  <2>5. SpawnedExact' /\ sync'.spawned \in Nat
    BY <2>1, <2>2, <2>4, <1>fin DEF SpawnedExact, PoolTypes
  <2>6. PoolTypes' /\ EventPlaces' /\ IdleExact'
    BY <2>1, <2>2, <2>5 DEF PoolTypes, EventPlaces, IdleExact
  <2>7. \A u \in Workers : Sees(u) => Sees(u)'
    BY <2>1 DEF Sees, Searching, PoolTypes
  <2>8. StateExact'
    BY <2>1, <2>2, <2>7 DEF StateExact, Closed, Leaving, PoolTypes
  <2> QED
    BY <2>5, <2>6, <2>8
<1>6. CASE a \in Workers /\ Wait(a)
  <2>1. /\ a \in Workers /\ at[a] = "wait" /\ ev[a] = "out" /\ UNCHANGED ev
        /\ \E to \in {"exit", "own", "drain"} : at' = [at EXCEPT ![a] = to]
    BY <1>6 DEF Wait, eventVars
  <2>2. Live' = Live /\ Births' = Births
    BY <2>1 DEF Live, Births, PoolTypes
  <2>3. EventPlaces'
    BY <2>1 DEF EventPlaces, PoolTypes
  <2>4. CASE sync.state = "Shutdown"
    <3>1. UNCHANGED <<sync, waking, isIdle>> /\ at' = [at EXCEPT ![a] = "exit"]
      BY <1>6, <2>4 DEF Wait
    <3>2. PoolTypes' /\ StateExact' /\ IdleExact' /\ SpawnedExact'
      BY <2>1, <2>2, <2>4, <3>1
      DEF PoolTypes, StateExact, IdleExact, SpawnedExact, Closed, Leaving
    <3> QED
      BY <2>3, <3>2
  <2>5. CASE sync.state # "Shutdown" /\ sync.notified
    <3>1. /\ sync' = [sync EXCEPT !.notified = FALSE,
                                  !.idle = IF isIdle[a] THEN @ - 1 ELSE @,
                                  !.state = IF @ = "Signaled" THEN "Waking" ELSE @]
          /\ waking' = [waking EXCEPT ![a] = @ \/ sync.state = "Signaled"]
          /\ isIdle' = [isIdle EXCEPT ![a] = FALSE]
          /\ at' = [at EXCEPT ![a] = "own"]
      BY <1>6, <2>5 DEF Wait
    <3>2. Idle' = Idle \ {a} /\ (isIdle[a] <=> a \in Idle)
      BY <2>1, <3>1 DEF Idle, PoolTypes
    <3>3. Cardinality(Idle') = IF isIdle[a] THEN Cardinality(Idle) - 1 ELSE Cardinality(Idle)
      BY <3>2, <1>fin, FS_RemoveElement
    <3>4. IdleExact' /\ sync'.idle \in Nat
      BY <2>1, <2>5, <3>1, <3>3, <1>fin DEF IdleExact, PoolTypes
    <3>5. PoolTypes'
      BY <2>1, <3>1, <3>4 DEF PoolTypes
    <3>6. SpawnedExact'
      BY <2>2, <3>1 DEF SpawnedExact, PoolTypes
    <3>7. /\ sync'.state = "Shutdown" <=> at'[Owner] \in Closed
          /\ \A w \in Workers : at'[w] \in Leaving => sync'.state = "Shutdown"
      BY <2>1, <2>5, <3>1 DEF StateExact, Closed, Leaving, PoolTypes
    <3>8. \A u \in Workers : Sees(u) => Sees(u)'
      BY <2>1, <3>1 DEF Sees, Searching, PoolTypes
    <3>9. Sees(a)'
      BY <2>1, <3>1 DEF Sees, Searching, PoolTypes
    <3>10. CASE sync.state = "Signaled"
      <4>1. Wakers' = {a} /\ sync'.state = "Waking"
        BY <2>1, <3>1, <3>10 DEF StateExact, Wakers, PoolTypes
      <4> QED
        BY <2>1, <2>3, <3>4, <3>5, <3>6, <3>7, <3>9, <4>1 DEF StateExact
    <3>11. CASE sync.state # "Signaled"
      <4>1. Wakers' = Wakers /\ sync'.state = sync.state
        BY <2>1, <3>1, <3>11 DEF Wakers, PoolTypes
      <4>2. StateExact'
        BY <3>7, <3>8, <3>11, <4>1 DEF StateExact
      <4> QED
        BY <2>3, <3>4, <3>5, <3>6, <4>2
    <3> QED
      BY <3>10, <3>11
  <2>6. CASE sync.state # "Shutdown" /\ ~sync.notified /\ ~isIdle[a]
    <3>1. /\ sync' = [sync EXCEPT !.idle = @ + 1, !.state = IF waking[a] THEN "Pending" ELSE @]
          /\ waking' = [waking EXCEPT ![a] = FALSE]
          /\ isIdle' = [isIdle EXCEPT ![a] = TRUE]
          /\ at' = [at EXCEPT ![a] = "drain"]
      BY <1>6, <2>6 DEF Wait
    <3>2. Idle' = Idle \cup {a} /\ a \notin Idle
      BY <2>1, <2>6, <3>1 DEF Idle, PoolTypes
    <3>3. Cardinality(Idle') = Cardinality(Idle) + 1
      BY <3>2, <1>fin, FS_AddElement
    <3>4. IdleExact'
      BY <2>1, <2>6, <3>1, <3>3, <1>fin DEF IdleExact, PoolTypes
    <3>5. PoolTypes'
      <4>1. sync' \in SyncWord
        <5> DEFINE st == IF waking[a] THEN "Pending" ELSE sync.state
        <5>1. sync.idle + 1 \in Nat /\ sync.state \in SyncState /\ sync \in SyncWord
          BY DEF PoolTypes, SyncWord
        <5>2. st \in SyncState
          BY <5>1 DEF SyncState
        <5>3. sync' = [sync EXCEPT !.idle = sync.idle + 1, !.state = st]
          BY <3>1, <5>1 DEF SyncWord
        <5> HIDE DEF st
        <5> QED
          BY <5>1, <5>2, <5>3 DEF SyncWord
      <4> QED
        BY <2>1, <3>1, <4>1 DEF PoolTypes
    <3>6. SpawnedExact'
      BY <2>2, <3>1 DEF SpawnedExact, PoolTypes
    <3>7. /\ sync'.state = "Shutdown" <=> at'[Owner] \in Closed
          /\ \A w \in Workers : at'[w] \in Leaving => sync'.state = "Shutdown"
      BY <2>1, <2>6, <3>1 DEF StateExact, Closed, Leaving, PoolTypes
    <3>8. Wakers' = Wakers \ {a}
      BY <2>1, <3>1 DEF Wakers, PoolTypes
    <3>9. \A u \in Workers \ {a} : Sees(u) => Sees(u)'
      BY <2>1, <3>1 DEF Sees, Searching, PoolTypes
    <3>10. StateExact'
      <4>1. CASE waking[a]
        <5>1. Wakers' = {} /\ sync'.state = "Pending"
          BY <2>6, <3>1, <3>8, <4>1 DEF StateExact, Wakers, PoolTypes
        <5> QED
          BY <3>7, <5>1 DEF StateExact
      <4>2. CASE ~waking[a]
        <5>1. Wakers' = Wakers /\ sync'.state = sync.state /\ a \notin Wakers
              /\ sync'.notified = sync.notified
          BY <3>1, <3>8, <4>2 DEF Wakers, PoolTypes
        <5> QED
          BY <3>7, <3>9, <5>1 DEF StateExact
      <4> QED
        BY <4>1, <4>2
    <3> QED
      BY <2>3, <3>4, <3>5, <3>6, <3>10
  <2>7. CASE sync.state # "Shutdown" /\ ~sync.notified /\ isIdle[a]
    <3>1. UNCHANGED <<sync, waking, isIdle>> /\ at' = [at EXCEPT ![a] = "drain"]
      BY <1>6, <2>7 DEF Wait
    <3>2. Idle' = Idle /\ Wakers' = Wakers
      BY <3>1 DEF Idle, Wakers
    <3>3. PoolTypes' /\ IdleExact' /\ SpawnedExact'
      BY <2>1, <2>2, <2>7, <3>1, <3>2 DEF PoolTypes, IdleExact, SpawnedExact
    <3>4. \A u \in Workers : waking[u] /\ Sees(u) => Sees(u)'
      BY <2>1, <2>7, <3>1 DEF IdleExact, Sees, Searching, PoolTypes
    <3>5. /\ sync'.state = "Shutdown" <=> at'[Owner] \in Closed
          /\ \A w \in Workers : at'[w] \in Leaving => sync'.state = "Shutdown"
      BY <2>1, <2>7, <3>1 DEF StateExact, Closed, Leaving, PoolTypes
    <3>6. StateExact'
      BY <3>1, <3>2, <3>4, <3>5 DEF StateExact, Wakers
    <3> QED
      BY <2>3, <3>3, <3>6
  <2> QED
    BY <2>4, <2>5, <2>6, <2>7
<1>7. CASE a \in Workers /\ DrainAndSleep(a)
  <2>1. /\ UNCHANGED <<sync, waking, isIdle>> /\ at[a] = "drain" /\ ev[a] = "out"
        /\ ev' = [ev EXCEPT ![a] = "check"] /\ at' = [at EXCEPT ![a] = "wait"]
    BY <1>7 DEF DrainAndSleep, E!WaitCall, E!Goto
  <2>2. Live' = Live /\ Births' = Births /\ Idle' = Idle /\ Wakers' = Wakers
    BY <1>7, <2>1 DEF Live, Births, Idle, Wakers, PoolTypes
  <2>3. \A w \in Workers : Sees(w) => Sees(w)'
    BY <1>7, <2>1 DEF Sees, Searching, PoolTypes
  <2>4. PoolTypes' /\ EventPlaces' /\ IdleExact'
    BY <1>7, <2>1, <2>2 DEF PoolTypes, EventPlaces, IdleExact
  <2>5. StateExact'
    BY <1>7, <2>1, <2>2, <2>3 DEF StateExact, Closed, Leaving, PoolTypes
  <2> QED
    BY <2>1, <2>2, <2>4, <2>5 DEF SpawnedExact
<1>8. CASE a \in Workers /\ Unregister(a)
  <2>1. /\ UNCHANGED <<isIdle, waking, ev>> /\ at[a] = "unregister" /\ ev[a] = "out"
        /\ \E to \in {"notifyJoin", "awaitJoin"} : at' = [at EXCEPT ![a] = to]
        /\ sync' = [sync EXCEPT !.spawned = @ - 1]
    BY <1>8 DEF Unregister, eventVars
  <2>2. sync.state = "Shutdown"
    BY <1>8, <2>1 DEF StateExact, Leaving
  <2>3. Births' = Births /\ Live' = Live \ {a} /\ a \in Live
    BY <1>8, <2>1 DEF Births, Live, PoolTypes
  <2>4. Cardinality(Live') = Cardinality(Live) - 1
    BY <2>3, <1>fin, FS_RemoveElement
  <2>5. SpawnedExact' /\ sync'.spawned \in Nat
    BY <2>1, <2>3, <2>4, <1>fin DEF SpawnedExact, PoolTypes
  <2>6. PoolTypes' /\ EventPlaces' /\ IdleExact' /\ StateExact'
    BY <1>8, <2>1, <2>2, <2>5
    DEF PoolTypes, EventPlaces, IdleExact, StateExact, Closed, Leaving
  <2> QED
    BY <2>5, <2>6
<1>9. CASE a = Owner /\ Warm
  <2>1. /\ UNCHANGED <<isIdle, waking, ev>> /\ at[Owner] = "client"
        /\ at' = [at EXCEPT ![Owner] = "warmSpawn"]
        /\ sync' = [sync EXCEPT !.spawned = @ + 1]
    BY <1>9 DEF Warm, eventVars
  <2>2. Idle' = Idle /\ Wakers' = Wakers /\ Live' = Live
    BY <2>1 DEF Idle, Wakers, Live, PoolTypes
  <2>3. Births' = Births \cup {Owner} /\ Owner \notin Births
    BY <2>1 DEF Births, PoolTypes
  <2>4. Cardinality(Births') = Cardinality(Births) + 1
    BY <2>3, <1>fin, FS_AddElement
  <2>5. SpawnedExact'
    BY <2>1, <2>2, <2>4, <1>fin DEF SpawnedExact, PoolTypes
  <2>6. \A u \in Workers : Sees(u) => Sees(u)'
    BY <2>1 DEF Sees, Searching, PoolTypes
  <2>7. PoolTypes' /\ EventPlaces' /\ IdleExact'
    BY <1>9, <2>1, <2>2 DEF Warm, PoolTypes, EventPlaces, IdleExact
  <2>8. StateExact'
    BY <2>1, <2>2, <2>6 DEF StateExact, Closed, Leaving, PoolTypes
  <2> QED
    BY <2>5, <2>7, <2>8
<1>10. CASE a = Owner /\ (WakeForIdleEvents \/ ShutdownIdleEvent)
  <2>1. /\ UNCHANGED <<sync, waking, isIdle>> /\ ev' = [ev EXCEPT ![Owner] = "wakeAll"]
        /\ \/ at[Owner] = "client" /\ at' = [at EXCEPT ![Owner] = "closing"]
           \/ at[Owner] = "shutdown" /\ at' = [at EXCEPT ![Owner] = "join"]
    BY <1>10 DEF WakeForIdleEvents, ShutdownIdleEvent, E!Post, E!Goto
  <2>2. Live' = Live /\ Births' = Births /\ Idle' = Idle /\ Wakers' = Wakers
    BY <2>1 DEF Live, Births, Idle, Wakers, PoolTypes
  <2>3. \A w \in Workers : Sees(w) => Sees(w)'
    BY <2>1 DEF Sees, Searching, PoolTypes
  <2>4. PoolTypes' /\ EventPlaces' /\ IdleExact'
    BY <2>1, <2>2 DEF PoolTypes, EventPlaces, IdleExact
  <2>5. StateExact'
    BY <2>1, <2>2, <2>3 DEF StateExact, Closed, Leaving, PoolTypes
  <2> QED
    BY <2>1, <2>2, <2>4, <2>5 DEF SpawnedExact
<1>11. CASE a = Owner /\ Shutdown
  <2>1. /\ UNCHANGED <<waking, isIdle, ev>> /\ at[Owner] \in {"client", "closing"}
        /\ sync' = [sync EXCEPT !.notified = TRUE, !.state = "Shutdown", !.idle = 0]
        /\ \E to \in {"shutdown", "join"} : at' = [at EXCEPT ![Owner] = to]
    BY <1>11 DEF Shutdown, eventVars
  <2>2. Live' = Live /\ Births' = Births
    BY <2>1 DEF Live, Births, PoolTypes
  <2>b. sync \in SyncWord /\ "Shutdown" \in SyncState /\ TRUE \in BOOLEAN /\ 0 \in Nat
    BY DEF PoolTypes
  <2>a. sync' \in SyncWord
    <3> HIDE <1>inv, <1>evt, PoolAssumption DEF SyncWord, SyncState
    <3> QED
      BY <2>1, <2>b, SyncEdits
  <2>4. sync'.state = "Shutdown" /\ sync'.notified
    BY <2>1, <2>b
  <2>3. PoolTypes' /\ EventPlaces' /\ IdleExact' /\ StateExact'
    BY <2>1, <2>a, <2>4 DEF PoolTypes, EventPlaces, IdleExact, StateExact, Closed, Leaving
  <2> QED
    BY <2>1, <2>2, <2>3 DEF SpawnedExact, PoolTypes
<1> QED
  BY <1>1, <1>2, <1>3, <1>4, <1>5, <1>6, <1>7, <1>8, <1>9, <1>10, <1>11

(* Every step keeps SyncInv. *)
LEMMA SyncStep == SyncInv /\ [Next]_vars => SyncInv'
  <1> SUFFICES ASSUME SyncInv, [Next]_vars PROVE SyncInv'
    OBVIOUS
  <1> DEFINE Rest == PoolTypes /\ EventPlaces /\ StateExact /\ IdleExact /\ SpawnedExact
  <1>1. EventInv'
    BY EventInvariant DEF SyncInv
  <1>2. ASSUME NEW a \in Actors, QuietStep(a) PROVE Rest'
    BY <1>2, QuietSteps, SyncQuiet DEF SyncInv
  <1>3. ASSUME NEW a \in Actors, NotifyStep(a) \/ EventStep(a) PROVE Rest'
    <2>1. CASE EventStep(a)
      BY <2>1, SyncEvent
    <2>2. CASE NotifyFast(a)
      BY <2>2, <1>2 DEF QuietStep
    <2>3. CASE NotifySlow(a) \/ NotifyIdleEvent(a) \/ SpawnForNotify(a) \/ SpawnFails(a)
      BY <2>3, SyncLoud
    <2> QED
      BY <1>3, <2>1, <2>2, <2>3 DEF NotifyStep
  <1>4. ASSUME NEW w \in Workers, WorkerStep(w) \/ SpuriousReturn(w) PROVE Rest'
    <2>1. w \in Actors
      BY DEF Actors
    <2>2. CASE SpuriousReturn(w)
      BY <2>1, <2>2, SyncEvent
    <2>3. CASE Wait(w) \/ DrainAndSleep(w) \/ Unregister(w)
      BY <2>1, <2>3, SyncLoud
    <2>4. CASE QuietStep(w)
      BY <2>1, <2>4, <1>2
    <2> QED
      BY <1>3, <1>4, <2>1, <2>2, <2>3, <2>4 DEF WorkerStep, QuietStep
  <1>5. ASSUME OwnerStep PROVE Rest'
    <2>1. Owner \in Actors
      BY DEF Actors
    <2>2. CASE Warm \/ WarmSpawn \/ WakeForIdleEvents \/ Shutdown \/ ShutdownIdleEvent
      BY <2>1, <2>2, SyncLoud
    <2>3. CASE QuietStep(Owner)
      BY <2>1, <2>3, <1>2
    <2> QED
      BY <1>3, <1>5, <2>1, <2>2, <2>3 DEF OwnerStep, QuietStep
  <1>6. CASE UNCHANGED vars
    <2>1. UNCHANGED <<sync, at, waking, isIdle, ev>>
      BY <1>6 DEF vars, eventVars
    <2>2. Live' = Live /\ Births' = Births /\ Idle' = Idle /\ Wakers' = Wakers
      BY <2>1 DEF Live, Births, Idle, Wakers
    <2>3. \A w \in Workers : Sees(w) => Sees(w)'
      BY <2>1 DEF Sees, AtLabel
    <2> QED
      BY <1>1, <2>1, <2>2, <2>3
      DEF SyncInv, PoolTypes, EventPlaces, StateExact, IdleExact, SpawnedExact
  <1> QED
    BY <1>1, <1>4, <1>5, <1>6 DEF Next, SyncInv

(* The packed word tells the truth: one waking thread exactly in state Waking,
   idle the workers that announced themselves idle, spawned the threads started
   or being started, whatever the workers, tasks and failing spawns. *)
THEOREM SyncWordIsTrue == Safety => []SyncConsistent
<1>1. SyncInv => SyncConsistent
  <2> SUFFICES ASSUME SyncInv PROVE SyncConsistent
    OBVIOUS
  <2>1. PoolTypes /\ StateExact /\ IdleExact /\ SpawnedExact
    BY DEF SyncInv
  <2>2. sync.state # "Shutdown" => Cardinality(Wakers) = IF sync.state = "Waking" THEN 1 ELSE 0
    <3>1. sync.state \in SyncState
      BY <2>1 DEF PoolTypes, SyncWord
    <3>2. CASE sync.state = "Waking"
      BY <2>1, <3>2, FS_Singleton DEF StateExact
    <3>3. CASE sync.state \in {"Pending", "Signaled"}
      BY <2>1, <3>3, FS_EmptySet DEF StateExact
    <3> QED
      BY <3>1, <3>2, <3>3 DEF SyncState
  <2>3. sync.state # "Shutdown" => sync.idle = Cardinality(Idle)
    BY <2>1 DEF IdleExact
  <2>4. sync.spawned = Cardinality(Live) + Cardinality(Births)
    BY <2>1 DEF SpawnedExact
  <2> QED
    BY <2>2, <2>3, <2>4 DEF SyncConsistent, Wakers, Idle, Live, Births
<1> QED
  BY <1>1, SyncInit, SyncStep, PTL DEF Safety

-----------------------------------------------------------------------------
(* join *)

(* With nobody counted, no worker is live and nobody is about to start one. *)
LEMMA NobodyCounted == ASSUME SyncInv, sync.spawned = 0 PROVE Live = {} /\ Births = {}
  <1>1. /\ IsFiniteSet(Live) /\ Cardinality(Live) \in Nat
        /\ IsFiniteSet(Births) /\ Cardinality(Births) \in Nat
    BY PoolThreads DEF Live, Births
  <1>2. Cardinality(Live) = 0 /\ Cardinality(Births) = 0
    BY <1>1 DEF SyncInv, SpawnedExact
  <1> QED
    BY <1>1, <1>2, FS_EmptySet

(* Every step keeps the join chain's account of the workers that are leaving. *)
LEMMA JoinStep == SyncInv /\ JoinExact /\ [Next]_vars => JoinExact'
<1> SUFFICES ASSUME SyncInv, JoinExact, [Next]_vars PROVE JoinExact'
  OBVIOUS
<1>1. PoolTypes /\ StateExact
  BY DEF SyncInv
<1>2. sync.spawned = 0 => /\ \A w \in Workers : at[w] # "unregister"
                          /\ \A a \in Actors : at[a] \notin {"spawn", "warmSpawn"}
  BY NobodyCounted DEF Live, Births
<1> USE PoolAssumption, <1>1, <1>2
    DEF JoinExact, PoolTypes, SyncWord, OwnerLabels, WorkerLabels, Actors, AtLabel, Goto, Resume
<1>3. ASSUME NEW a \in Actors, NotifyFast(a) \/ NotifyIdleEvent(a) \/ SpawnForNotify(a)
                               \/ EventStep(a)
      PROVE  JoinExact'
  BY <1>3 DEF NotifyFast, NotifyIdleEvent, SpawnForNotify, Spawn, EventStep, endVars
<1>4. ASSUME NEW a \in Actors, NotifySlow(a) PROVE JoinExact'
  <2>1. UNCHANGED endVars /\ at[a] = "notifySlow"
        /\ \E to \in {"client", "run", "wokeIdle", "spawn"} : at' = [at EXCEPT ![a] = to]
    BY <1>4 DEF NotifySlow
  <2>2. sync.state = "Shutdown" => sync' = sync
    BY <1>4 DEF NotifySlow
  <2> QED
    BY <2>1, <2>2 DEF endVars
<1>5. ASSUME NEW a \in Actors, SpawnFails(a) PROVE JoinExact'
  <2>1. /\ at[a] \in {"spawn", "warmSpawn"}
        /\ \E to \in {"client", "run"} : at' = [at EXCEPT ![a] = to]
        /\ joinEvent' = (joinEvent \/ (sync.state = "Shutdown" /\ sync.spawned = 1))
        /\ UNCHANGED <<joinFlag, threads>>
    BY <1>5 DEF SpawnFails
  <2>2. sync'.state = sync.state /\ sync'.spawned = sync.spawned - 1
    BY <1>5 DEF SpawnFails
  <2>3. sync.spawned # 0
    BY <2>1
  <2> QED
    BY <2>1, <2>2, <2>3
<1>6. ASSUME NEW w \in Workers, PopLocal(w) \/ AcquireGlobal(w) \/ TakeGlobal(w)
                                \/ ReleaseGlobal(w) \/ LoadSpawned(w) \/ Steal(w)
      PROVE  JoinExact'
  BY <1>6 DEF PopLocal, Popped, AcquireGlobal, TakeGlobal, ReleaseGlobal, LoadSpawned,
              Steal, endVars
<1>R. ASSUME NEW w \in Workers, Register(w) PROVE JoinExact'
  <2>1. threads' \in Seq(Workers)
    BY <1>R DEF Register
  <2> QED
    BY <1>R, <2>1 DEF Register
<1>7. ASSUME NEW w \in Workers, Wait(w) PROVE JoinExact'
  BY <1>7 DEF Wait, endVars
<1>8. ASSUME NEW w \in Workers, DrainAndSleep(w) \/ ScheduleInside(w) \/ Finish(w) \/ ExitDrain(w)
                                \/ SpuriousReturn(w)
      PROVE  JoinExact'
  BY <1>8 DEF DrainAndSleep, ScheduleInside, Finish, ExitDrain, SpuriousReturn, endVars
<1>9. ASSUME NEW w \in Workers, Unregister(w) PROVE JoinExact'
  BY <1>9 DEF Unregister, endVars
<1>10. ASSUME NEW w \in Workers, NotifyJoin(w) \/ AwaitJoin(w) \/ Chain(w) PROVE JoinExact'
  BY <1>10, ZenonT(40) DEF NotifyJoin, AwaitJoin, Chain, endVars
<1>11. ASSUME Schedule \/ WakeForIdleEvents \/ ShutdownIdleEvent PROVE JoinExact'
  <2>1. /\ UNCHANGED <<sync, joinEvent, joinFlag, threads>>
        /\ \/ at[Owner] = "client" /\ \E to \in {"notify", "closing"} :
                                       at' = [at EXCEPT ![Owner] = to]
           \/ at[Owner] = "shutdown" /\ at' = [at EXCEPT ![Owner] = "join"]
    BY <1>11 DEF Schedule, WakeForIdleEvents, ShutdownIdleEvent, endVars
  <2> QED
    BY <2>1
<1>S. ASSUME WarmSpawn PROVE JoinExact'
  BY <1>S DEF WarmSpawn, Spawn, endVars
<1>12. ASSUME Warm \/ Shutdown PROVE JoinExact'
  BY <1>12 DEF Warm, Shutdown, StateExact, Closed, endVars
<1>13. ASSUME JoinCheck \/ JoinWait PROVE JoinExact'
  BY <1>13 DEF JoinCheck, JoinWait, StateExact, Closed, endVars
<1>F. ASSUME StartChain PROVE JoinExact'
  <2>1. joinFlag' \in [Workers -> BOOLEAN]
    BY <1>F DEF StartChain
  <2> QED
    BY <1>F, <2>1 DEF StartChain
<1>14. CASE UNCHANGED vars
  BY <1>14 DEF vars, endVars
<1> HIDE <1>1, <1>2 DEF JoinExact, Actors
<1>15. ASSUME NEW w \in Workers, WorkerStep(w) \/ SpuriousReturn(w) PROVE JoinExact'
  <2>1. w \in Actors
    BY DEF Actors
  <2> QED
    BY <1>15, <2>1, <1>3, <1>4, <1>5, <1>6, <1>R, <1>7, <1>8, <1>9, <1>10
    DEF WorkerStep, NotifyStep
<1>16. ASSUME OwnerStep PROVE JoinExact'
  <2>1. Owner \in Actors
    BY DEF Actors
  <2> QED
    BY <1>16, <2>1, <1>3, <1>4, <1>5, <1>11, <1>S, <1>12, <1>13, <1>F
    DEF OwnerStep, NotifyStep
<1> QED
  BY <1>14, <1>15, <1>16 DEF Next

(* The chain of join_events that lets the workers' stacks go starts only when
   every worker has unregistered, so that nobody can still steal from one. *)
THEOREM JoinWaitsForAll == Safety => []ChainAfterAll
<1>1. Init => JoinExact
  <2> SUFFICES ASSUME Init PROVE JoinExact
    OBVIOUS
  <2>1. joinEvent \in BOOLEAN /\ ~joinEvent
    BY DEF Init
  <2>2. /\ joinFlag \in [Workers -> BOOLEAN] /\ threads \in Seq(Workers)
        /\ at[Owner] = "client" /\ \A w \in Workers : ~joinFlag[w] /\ at[w] = "unborn"
    BY PoolAssumption DEF Init, Actors
  <2> QED
    BY <2>1, <2>2 DEF JoinExact
<1>2. SyncInv /\ JoinExact => ChainAfterAll
  <2> SUFFICES ASSUME SyncInv, JoinExact, NEW w \in Workers, joinFlag[w],
                      NEW u \in Registered
               PROVE  at[u] \in Detached \cup {"notifyJoin"}
    BY DEF ChainAfterAll
  <2>1. sync.spawned = 0 /\ u \in Workers
    BY DEF JoinExact, Registered
  <2> QED
    BY <2>1, NobodyCounted DEF Live, Detached
<1> QED
  BY <1>1, <1>2, SyncInit, SyncStep, JoinStep, PTL DEF Safety

-----------------------------------------------------------------------------
(* Queued tasks *)

(* Only a worker that looks at its own queue next, or has a task in hand, leaves
   tasks in that queue, and run_queue's consumer is at work on it. *)
LEMMA LocalStep ==
    ASSUME PoolTypes, LocalSeen, ConsumerPlace, [Next]_vars
    PROVE  LocalSeen' /\ ConsumerPlace'
<1> DEFINE Goal == LocalSeen' /\ ConsumerPlace'
<1> USE PoolAssumption DEF LocalSeen, ConsumerPlace, PoolTypes, Searching, OwnerLabels, WorkerLabels,
        Actors, AtLabel, Goto, Resume
<1>1. ASSUME NEW a \in Actors, NotifyFast(a) \/ NotifySlow(a) \/ NotifyIdleEvent(a) \/ SpawnFails(a)
      PROVE  Goal
  <2>1. /\ UNCHANGED <<local, consumer>>
        /\ at[a] \in {"notify", "notifySlow", "wokeIdle", "spawn", "warmSpawn"}
        /\ \E to \in {"client", "run", "notifySlow", "wokeIdle", "spawn"} :
               at' = [at EXCEPT ![a] = to] /\ (a \in Workers => to # "client")
    BY <1>1 DEF NotifyFast, NotifySlow, NotifyIdleEvent, SpawnFails, taskVars
  <2> QED
    BY <2>1
<1>2. ASSUME NEW a \in Actors, SpawnForNotify(a) \/ (a = Owner /\ WarmSpawn) PROVE Goal
  <2>1. /\ UNCHANGED <<local, consumer>> /\ at[a] \in {"spawn", "warmSpawn"}
        /\ \E w \in Workers : /\ at[w] = "unborn"
                               /\ at' = [at EXCEPT ![w] = "starting", ![a] = Resume(a)]
    BY <1>2 DEF SpawnForNotify, WarmSpawn, Spawn, taskVars
  <2> QED
    BY <2>1
<1>3. ASSUME NEW a \in Actors, EventStep(a) \/ (a \in Workers /\ SpuriousReturn(a)) PROVE Goal
  BY <1>3 DEF EventStep, SpuriousReturn, taskVars
<1>4. ASSUME NEW w \in Workers, Register(w) \/ Wait(w) \/ DrainAndSleep(w) \/ LoadSpawned(w) PROVE Goal
  <2>1. /\ UNCHANGED <<local, consumer>> /\ at[w] \in {"starting", "wait", "drain", "load"}
        /\ \E to \in {"wait", "exit", "own", "drain", "steal"} : at' = [at EXCEPT ![w] = to]
    BY <1>4 DEF Register, Wait, DrainAndSleep, LoadSpawned, taskVars
  <2> QED
    BY <2>1
<1>5. ASSUME NEW w \in Workers, PopLocal(w) PROVE Goal
  BY <1>5 DEF PopLocal, Popped
<1>6. ASSUME NEW w \in Workers, AcquireGlobal(w) \/ ReleaseGlobal(w) PROVE Goal
  BY <1>6 DEF AcquireGlobal, ReleaseGlobal
<1>7. ASSUME NEW w \in Workers, TakeGlobal(w) PROVE Goal
  BY <1>7 DEF TakeGlobal
<1>8. ASSUME NEW w \in Workers, Steal(w) PROVE Goal
  <2> DEFINE v == IF target[w] = Nil THEN Head(threads) ELSE target[w]
  <2>1. /\ at[w] = "steal" /\ UNCHANGED consumer
        /\ \/ UNCHANGED local /\ (at' = at \/ at' = [at EXCEPT ![w] = "wait"])
           \/ /\ v # w
              /\ \E loot \in SUBSET local[v] : \E k \in loot :
                    /\ local' = [local EXCEPT ![v] = @ \ loot, ![w] = @ \cup (loot \ {k})]
                    /\ Popped(w, k, loot # {k})
    BY <1>8 DEF Steal
  <2>2. CASE UNCHANGED local /\ (at' = at \/ at' = [at EXCEPT ![w] = "wait"])
    BY <2>1, <2>2
  <2>3. CASE ~(UNCHANGED local /\ (at' = at \/ at' = [at EXCEPT ![w] = "wait"]))
    <3>1. v # w
      BY <2>1, <2>3
    <3>2. PICK loot \in SUBSET local[v] : \E k \in loot :
              /\ local' = [local EXCEPT ![v] = @ \ loot, ![w] = @ \cup (loot \ {k})]
              /\ Popped(w, k, loot # {k})
      BY <2>1, <2>3
    <3>3. PICK k \in loot :
              /\ local' = [local EXCEPT ![v] = @ \ loot, ![w] = @ \cup (loot \ {k})]
              /\ Popped(w, k, loot # {k})
      BY <3>2
    <3> HIDE DEF v
    <3> QED
      BY <2>1, <3>1, <3>3, ZenonT(40) DEF Popped
  <2> QED
    BY <2>1, <2>2, <2>3
<1>9. ASSUME NEW w \in Workers, ScheduleInside(w) \/ Finish(w) PROVE Goal
  BY <1>9 DEF ScheduleInside, Finish
<1>10. ASSUME NEW w \in Workers, \/ ExitDrain(w) \/ Unregister(w) \/ NotifyJoin(w) \/ AwaitJoin(w)
                                 \/ Chain(w)
       PROVE  Goal
  <2>1. /\ UNCHANGED <<local, consumer>>
        /\ at[w] \in {"exit", "unregister", "notifyJoin", "awaitJoin", "chain"}
        /\ \E to \in Leaving : at' = [at EXCEPT ![w] = to]
    BY <1>10 DEF ExitDrain, Unregister, NotifyJoin, AwaitJoin, Chain, taskVars, Leaving
  <2> QED
    BY <2>1
<1>11. ASSUME \/ Schedule \/ Warm \/ WakeForIdleEvents \/ Shutdown \/ ShutdownIdleEvent
              \/ JoinCheck \/ JoinWait \/ StartChain
       PROVE  Goal
  <2>1. UNCHANGED <<local, consumer>> /\ \E to \in OwnerLabels : at' = [at EXCEPT ![Owner] = to]
    BY <1>11 DEF Schedule, Warm, WakeForIdleEvents, Shutdown, ShutdownIdleEvent, JoinCheck,
                 JoinWait, StartChain, taskVars
  <2> QED
    BY <2>1
<1>12. CASE UNCHANGED vars
  BY <1>12 DEF vars, taskVars
<1> HIDE DEF Actors, LocalSeen, ConsumerPlace
<1>13. Owner \in Actors /\ \A w \in Workers : w \in Actors
  BY DEF Actors
<1>14. ASSUME NEW w \in Workers, WorkerStep(w) \/ SpuriousReturn(w) PROVE Goal
  BY <1>13, <1>14, <1>1, <1>2, <1>3, <1>4, <1>5, <1>6, <1>7, <1>8, <1>9, <1>10
  DEF WorkerStep, NotifyStep
<1>15. ASSUME OwnerStep PROVE Goal
  BY <1>13, <1>15, <1>1, <1>2, <1>3, <1>11 DEF OwnerStep, NotifyStep
<1> QED
  BY <1>12, <1>14, <1>15 DEF Next

(* A queued task is on somebody's way, in the global queue too: a worker turned
   away from it leaves a consumer behind, and who takes the notified bit goes to
   look. *)
LEMMA GlobalStep ==
    ASSUME PoolTypes, StateExact, ConsumerPlace, GlobalSeen, [Next]_vars
    PROVE  GlobalSeen'
<1> USE PoolAssumption DEF GlobalSeen, PoolTypes, SyncWord, Searching, OwnerLabels, WorkerLabels,
        Actors, AtLabel, Goto, Resume
<1>1. ASSUME NEW w \in Workers, UNCHANGED <<global, sync>>, at[w] \notin Searching,
             \E to \in WorkerLabels : at' = [at EXCEPT ![w] = to]
      PROVE  GlobalSeen'
  BY <1>1
<1>2. ASSUME NEW a \in Actors, NotifyFast(a) \/ NotifyIdleEvent(a) \/ SpawnFails(a)
      PROVE  GlobalSeen'
  <2>1. /\ UNCHANGED global /\ sync'.state = sync.state /\ sync'.notified = sync.notified
    BY <1>2 DEF NotifyFast, NotifyIdleEvent, SpawnFails, taskVars
  <2>2. CASE a \in Workers
    <3>1. \E to \in {"run", "notifySlow"} : at' = [at EXCEPT ![a] = to]
      BY <1>2, <2>2 DEF NotifyFast, NotifyIdleEvent, SpawnFails
    <3> QED
      BY <2>1, <2>2, <3>1
  <2>3. CASE a = Owner
    <3>1. /\ \E to \in {"client", "notifySlow"} : at' = [at EXCEPT ![a] = to]
          /\ at[a] \in {"notify", "notifySlow"} => sync.notified \/ at'[a] = "notifySlow"
      BY <1>2, <2>3 DEF NotifyFast, NotifyIdleEvent, SpawnFails
    <3> QED
      BY <2>1, <2>3, <3>1
  <2> QED
    BY <2>2, <2>3
<1>3. ASSUME NEW a \in Actors, NotifySlow(a) PROVE GlobalSeen'
  <2>1. sync.state # "Shutdown" => sync'.notified
    BY <1>3, NotifySlowEffect DEF NotifyEffect
  <2>2. sync.state = "Shutdown" => sync' = sync
    BY <1>3 DEF NotifySlow
  <2> QED
    BY <2>1, <2>2
<1>4. ASSUME NEW a \in Actors, SpawnForNotify(a) \/ (a = Owner /\ WarmSpawn) PROVE GlobalSeen'
  <2>1. /\ UNCHANGED <<global, sync>> /\ at[a] \in {"spawn", "warmSpawn"}
        /\ \E w \in Workers : /\ at[w] = "unborn"
                               /\ at' = [at EXCEPT ![w] = "starting", ![a] = Resume(a)]
    BY <1>4 DEF SpawnForNotify, WarmSpawn, Spawn, taskVars
  <2> QED
    BY <2>1
<1>5. ASSUME NEW a \in Actors, EventStep(a) \/ (a \in Workers /\ SpuriousReturn(a))
      PROVE  GlobalSeen'
  BY <1>5 DEF EventStep, SpuriousReturn, taskVars
<1>6. ASSUME NEW w \in Workers, Register(w) \/ DrainAndSleep(w) \/ LoadSpawned(w) PROVE GlobalSeen'
  BY <1>1, <1>6 DEF Register, DrainAndSleep, LoadSpawned, taskVars
<1>7. ASSUME NEW w \in Workers, Steal(w) PROVE GlobalSeen'
  <2>1. /\ UNCHANGED <<global, sync>> /\ at[w] = "steal"
        /\ at' = at \/ \E to \in {"wait", "notify", "run"} : at' = [at EXCEPT ![w] = to]
    BY <1>7 DEF Steal, Popped
  <2> QED
    BY <1>1, <2>1
<1>8. ASSUME NEW w \in Workers, Wait(w) PROVE GlobalSeen'
  <2>1. UNCHANGED global /\ at[w] = "wait"
    BY <1>8 DEF Wait, taskVars
  <2>2. CASE sync.state # "Shutdown" /\ sync.notified
    BY <1>8, <2>1, <2>2 DEF Wait
  <2>3. CASE sync.state = "Shutdown"
    BY <1>8, <2>1, <2>3 DEF Wait
  <2>4. CASE sync.state # "Shutdown" /\ ~sync.notified
    <3>1. ~sync'.notified /\ at' = [at EXCEPT ![w] = "drain"]
      BY <1>8, <2>4 DEF Wait
    <3> QED
      BY <2>1, <2>4, <3>1
  <2> QED
    BY <2>2, <2>3, <2>4
<1>9. ASSUME NEW w \in Workers, \/ PopLocal(w) \/ TakeGlobal(w) \/ ReleaseGlobal(w)
                                \/ ScheduleInside(w) \/ Finish(w)
      PROVE  GlobalSeen'
  <2>1. UNCHANGED sync /\ \E to \in Searching : at' = [at EXCEPT ![w] = to]
    BY <1>9 DEF PopLocal, Popped, TakeGlobal, ReleaseGlobal, ScheduleInside, Finish
  <2> QED
    BY <2>1
<1>10. ASSUME NEW w \in Workers, AcquireGlobal(w) PROVE GlobalSeen'
  BY <1>10 DEF AcquireGlobal, ConsumerPlace
<1>11. ASSUME NEW w \in Workers, \/ ExitDrain(w) \/ Unregister(w) \/ NotifyJoin(w) \/ AwaitJoin(w)
                                 \/ Chain(w)
       PROVE  GlobalSeen'
  <2>1. sync'.state = sync.state
    BY <1>11 DEF ExitDrain, Unregister, NotifyJoin, AwaitJoin, Chain
  <2>2. sync.state = "Shutdown"
    BY <1>11 DEF ExitDrain, Unregister, NotifyJoin, AwaitJoin, Chain, StateExact, Leaving
  <2> QED
    BY <2>1, <2>2
<1>12. ASSUME Schedule \/ Warm \/ WakeForIdleEvents PROVE GlobalSeen'
  BY <1>12 DEF Schedule, Warm, WakeForIdleEvents, taskVars
<1>13. ASSUME Shutdown PROVE GlobalSeen'
  BY <1>13 DEF Shutdown
<1>14. ASSUME ShutdownIdleEvent \/ JoinCheck \/ JoinWait \/ StartChain PROVE GlobalSeen'
  BY <1>14 DEF ShutdownIdleEvent, JoinCheck, JoinWait, StartChain, StateExact, Closed
<1>15. CASE UNCHANGED vars
  BY <1>15 DEF vars, taskVars
<1> HIDE DEF Actors, GlobalSeen
<1>16. Owner \in Actors /\ \A w \in Workers : w \in Actors
  BY DEF Actors
<1>17. ASSUME NEW w \in Workers, WorkerStep(w) \/ SpuriousReturn(w) PROVE GlobalSeen'
  BY <1>16, <1>17, <1>2, <1>3, <1>4, <1>5, <1>6, <1>7, <1>8, <1>9, <1>10, <1>11
  DEF WorkerStep, NotifyStep
<1>18. ASSUME OwnerStep PROVE GlobalSeen'
  BY <1>16, <1>18, <1>2, <1>3, <1>4, <1>5, <1>12, <1>13, <1>14 DEF OwnerStep, NotifyStep
<1> QED
  BY <1>15, <1>17, <1>18 DEF Next

(* The notified bit is on somebody's way while thread creation does not fail: the
   last thread that could see it either consumes it or leaves it to one that
   will. *)
LEMMA NotifiedStep ==
    ASSUME ~SpawnMayFail, SyncInv, NotifiedSeen, [Next]_vars
    PROVE  NotifiedSeen'
<1>inv. PoolTypes /\ EventPlaces /\ StateExact /\ IdleExact /\ SpawnedExact /\ E!TypeOK
  BY DEF SyncInv, EventInv
<1>ev. ev \in [Actors -> {"out", "wakeOne", "wakeAll", "check", "park", "asleep"}]
  BY <1>inv DEF E!TypeOK, E!Inside
<1> USE PoolAssumption DEF PoolTypes, SyncWord, OwnerLabels, WorkerLabels,
        Actors, AtLabel, Goto, Resume
(* A step after which the same workers see the word and the word says no more. *)
<1>1. ASSUME sync'.notified => sync.notified, sync.state = "Shutdown" => sync'.state = "Shutdown",
             \A w \in Workers : Sees(w) => Sees(w)', Live \subseteq Live',
             event' = event \/ event' = E!NOTIFIED,
             at[Owner] \in {"spawn", "wokeIdle"} => at'[Owner] = at[Owner]
      PROVE  NotifiedSeen'
  BY <1>1 DEF NotifiedSeen
<1>2. ASSUME NEW a \in Actors, QuietStep(a) PROVE NotifiedSeen'
  <2>1. Quiet(a)
    BY <1>2, <1>inv, QuietSteps
  <2>2. PICK to \in OwnerLabels \cup WorkerLabels :
            at' = [at EXCEPT ![a] = to] /\ (Moves(a, at[a], to) \/ to = at[a])
    BY <2>1 DEF Quiet
  <2>3. UNCHANGED <<sync, ev, event>> /\ ev[a] = "out"
    BY <2>1 DEF Quiet, eventVars
  <2>4. /\ \A w \in Workers : Sees(w) => Sees(w)'
        /\ Live' = Live /\ (at[Owner] \in {"spawn", "wokeIdle"} => at'[Owner] = at[Owner])
    BY <2>2, <2>3, <1>inv DEF Sees, Searching, Live, Moves, Busy
  <2> QED
    BY <1>1, <2>3, <2>4
<1>3. ASSUME NEW w \in Workers, NotifySlow(w) PROVE NotifiedSeen'
  BY <1>3, <1>inv DEF NotifySlow, NotifiedSeen, Sees, Searching
<1>4. ASSUME NotifySlow(Owner), sync.state # "Shutdown" PROVE NotifiedSeen'
  <2>1. NotifyEffect(Owner) /\ ~waking[Owner]
    <3>1. Owner \notin Wakers
      BY <1>4, <1>inv DEF StateExact, SyncState
    <3> QED
      BY <1>4, <1>inv, <3>1, NotifySlowEffect DEF Wakers
  <2>2. \A w \in Workers : Sees(w) => Sees(w)'
    BY <2>1, <1>inv DEF NotifyEffect, Sees, Searching
  <2>3. Live' = Live
    BY <2>1, <1>inv DEF NotifyEffect, Live
  <2>4. CASE at'[Owner] = "wokeIdle"
    <3>1. sync.idle > 0
      BY <2>1, <2>4, <1>inv DEF NotifyEffect
    <3>2. Cardinality(Idle) # 0
      BY <1>4, <3>1, <1>inv DEF IdleExact
    <3>3. Idle # {}
      BY <3>2, FS_EmptySet
    <3>4. Live # {}
      BY <1>4, <3>3, <1>inv DEF IdleExact, Live, Idle
    <3> QED
      BY <2>3, <2>4, <3>4 DEF NotifiedSeen
  <2>5. CASE at'[Owner] = "spawn"
    BY <2>5 DEF NotifiedSeen
  <2>6. CASE at'[Owner] = "client"
    <3>1. /\ sync.state = "Pending" => sync.idle = 0 /\ sync.spawned >= MaxThreads
          /\ event' = event /\ at[Owner] = "notifySlow"
      BY <2>1, <2>6, <1>inv DEF NotifyEffect
    <3>2. CASE sync.state = "Signaled"
      BY <1>4, <2>2, <2>3, <3>1, <3>2, <1>inv DEF NotifiedSeen, StateExact
    <3>3. CASE sync.state = "Waking"
      BY <2>2, <3>3, <1>inv DEF NotifiedSeen, StateExact
    <3>4. CASE sync.state = "Pending"
      <4>1. /\ IsFiniteSet(Idle) /\ Cardinality(Live) \in Nat /\ Cardinality(Births) \in Nat
        BY PoolThreads DEF Idle, Live, Births
      <4>2. Idle = {}
        BY <3>1, <3>4, <4>1, <1>inv, FS_EmptySet DEF IdleExact
      <4>3. Cardinality(Live) # 0 \/ Cardinality(Births) # 0
        BY <3>1, <3>4, <4>1, <1>inv DEF SpawnedExact
      <4>4. Live # {} \/ Births # {}
        BY <4>3, FS_EmptySet
      <4>5. PICK w \in Workers : w \in Live
        BY <4>4, <3>1, <1>inv DEF Live, Births
      <4>6. ~isIdle[w]
        BY <4>2 DEF Idle
      <4>7. at[w] \notin Leaving
        BY <3>4, <1>inv DEF StateExact
      <4>8. at[w] # "drain" /\ ev[w] \notin {"check", "park", "asleep"}
        BY <3>4, <4>6, <1>inv DEF IdleExact
      <4>9. Sees(w)
        BY <4>5, <4>7, <4>8, <1>inv, <1>ev DEF Live, Leaving, EventPlaces, Sees, Searching
      <4> QED
        BY <2>2, <4>9 DEF NotifiedSeen
    <3> QED
      BY <1>4, <3>2, <3>3, <3>4, <1>inv DEF SyncState
  <2> QED
    BY <2>1, <2>4, <2>5, <2>6, <1>inv DEF NotifyEffect
<1>5. ASSUME NotifySlow(Owner), sync.state = "Shutdown" PROVE NotifiedSeen'
  BY <1>5 DEF NotifySlow, NotifiedSeen
<1>6. ASSUME NEW a \in Actors, NotifyIdleEvent(a) PROVE NotifiedSeen'
  <2>1. /\ UNCHANGED sync /\ at[a] = "wokeIdle" /\ ev[a] = "out" /\ event' = E!NOTIFIED
        /\ at' = [at EXCEPT ![a] = IF a = Owner THEN "client" ELSE "run"]
        /\ \A u \in Actors : u # a => ev'[u] = ev[u]
    BY <1>6, <1>ev DEF NotifyIdleEvent, E!Notify, E!Post, E!Goto
  <2>2. \A w \in Workers : Sees(w) => Sees(w)'
    BY <2>1, <1>inv DEF Sees, Searching
  <2>3. Live' = Live
    BY <2>1, <1>inv DEF Live
  <2>4. CASE a \in Workers
    BY <1>1, <2>1, <2>2, <2>3, <2>4, <1>inv
  <2>5. CASE a = Owner
    BY <2>1, <2>2, <2>3, <2>5, <1>inv DEF NotifiedSeen
  <2> QED
    BY <2>4, <2>5
<1>7. ASSUME NEW a \in Actors, SpawnForNotify(a) \/ (a = Owner /\ WarmSpawn) PROVE NotifiedSeen'
  <2>1. PICK w \in Workers : /\ at[w] = "unborn"
                             /\ at' = [at EXCEPT ![w] = "starting", ![a] = Resume(a)]
    BY <1>7 DEF SpawnForNotify, WarmSpawn, Spawn
  <2>2. at[a] \in {"spawn", "warmSpawn"}
    BY <1>7 DEF SpawnForNotify, WarmSpawn
  <2>3. Sees(w)'
    BY <2>1, <2>2, <1>inv DEF Sees
  <2> QED
    BY <2>3 DEF NotifiedSeen
<1>8. ASSUME NEW a \in Actors, SpawnFails(a) PROVE NotifiedSeen'
  BY <1>8 DEF SpawnFails
<1>9. ASSUME NEW a \in Actors, EventStep(a) \/ (a \in Workers /\ SpuriousReturn(a))
      PROVE  NotifiedSeen'
  <2>1. UNCHANGED <<sync, at>> /\ (E!WaitStep(a) \/ E!SpuriousReturn(a) \/ E!FutexWake(a))
    BY <1>9 DEF EventStep, SpuriousReturn
  <2>2. Live' = Live
    BY <2>1 DEF Live
  <2>3. CASE E!Check(a) /\ event = E!NOTIFIED
    <3>1. ev[a] = "check" /\ ev' = [ev EXCEPT ![a] = "out"]
      BY <2>3 DEF E!Check, E!Goto
    <3>2. a \in Workers /\ at[a] = "wait"
      BY <3>1, <1>inv DEF EventPlaces
    <3>3. Sees(a)'
      BY <2>1, <3>1, <3>2, <1>ev DEF Sees
    <3> QED
      BY <3>2, <3>3 DEF NotifiedSeen
  <2>4. CASE ~(E!Check(a) /\ event = E!NOTIFIED)
    <3>1. event' = event \/ event # E!NOTIFIED
      BY <2>1, <2>4 DEF E!WaitStep, E!Park, E!Sweep, E!SpuriousReturn, E!FutexWake
    <3>2. \A u \in Actors : ev[u] = "out" => ev'[u] = "out"
      <4>1. CASE E!WaitStep(a) \/ E!SpuriousReturn(a)
        BY <4>1, <1>ev DEF E!WaitStep, E!Check, E!Park, E!Sweep, E!SpuriousReturn, E!Goto
      <4>2. CASE E!FutexWake(a)
        BY <4>2, <1>ev DEF E!FutexWake, E!WakeOne
      <4> QED
        BY <2>1, <4>1, <4>2
    <3>3. \A w \in Workers : Sees(w) => Sees(w)'
      BY <2>1, <3>2 DEF Sees
    <3> QED
      BY <2>1, <2>2, <3>1, <3>3 DEF NotifiedSeen
  <2> QED
    BY <2>3, <2>4
<1>10. ASSUME NEW w \in Workers, Wait(w) PROVE NotifiedSeen'
  <2>1. sync.state = "Shutdown" => sync'.state = "Shutdown"
    BY <1>10 DEF Wait
  <2>2. sync.state # "Shutdown" => ~sync'.notified
    BY <1>10, <1>inv DEF Wait
  <2> QED
    BY <2>1, <2>2 DEF NotifiedSeen
<1>11. ASSUME NEW w \in Workers, DrainAndSleep(w) PROVE NotifiedSeen'
  <2>1. /\ UNCHANGED <<sync, event>> /\ at[w] = "drain" /\ at' = [at EXCEPT ![w] = "wait"]
        /\ ev' = [ev EXCEPT ![w] = "check"]
    BY <1>11 DEF DrainAndSleep, E!WaitCall, E!Goto
  <2>2. (\A u \in Workers : Sees(u) => Sees(u)') /\ Live' = Live
    BY <2>1, <1>inv, <1>ev DEF Sees, Searching, Live
  <2> QED
    BY <1>1, <2>1, <2>2, <1>inv
<1>12. ASSUME NEW w \in Workers, Unregister(w) PROVE NotifiedSeen'
  <2>1. sync.state = "Shutdown" /\ sync'.state = sync.state
    BY <1>12, <1>inv DEF Unregister, StateExact, Leaving
  <2> QED
    BY <2>1 DEF NotifiedSeen
<1>13. ASSUME Warm \/ WakeForIdleEvents PROVE NotifiedSeen'
  <2>1. /\ sync'.notified = sync.notified /\ sync'.state = sync.state /\ at[Owner] = "client"
        /\ \E to \in {"closing", "warmSpawn"} : at' = [at EXCEPT ![Owner] = to]
        /\ event' = event \/ event' = E!NOTIFIED
        /\ \A w \in Workers : ev'[w] = ev[w]
    BY <1>13, <1>inv, <1>ev DEF Warm, WakeForIdleEvents, E!Post, E!Goto, eventVars
  <2>2. (\A u \in Workers : Sees(u) => Sees(u)') /\ Live' = Live
    BY <2>1, <1>inv DEF Sees, Searching, Live
  <2> QED
    BY <1>1, <2>1, <2>2, <1>inv
<1>14. ASSUME Shutdown \/ ShutdownIdleEvent PROVE NotifiedSeen'
  <2>1. sync'.state = "Shutdown"
    BY <1>14, <1>inv DEF Shutdown, ShutdownIdleEvent, StateExact, Closed
  <2> QED
    BY <2>1 DEF NotifiedSeen
<1>15. CASE UNCHANGED vars
  <2>1. UNCHANGED <<sync, event, at, ev>>
    BY <1>15 DEF vars, eventVars
  <2>2. (\A u \in Workers : Sees(u) => Sees(u)') /\ Live' = Live
    BY <2>1 DEF Sees, Live
  <2> QED
    BY <1>1, <2>1, <2>2
<1>16. Owner \in Actors /\ \A w \in Workers : w \in Actors
  OBVIOUS
<1> HIDE DEF Actors
<1>17. ASSUME NEW w \in Workers, WorkerStep(w) \/ SpuriousReturn(w) PROVE NotifiedSeen'
  <2>1. QuietStep(w) => NotifiedSeen'
    BY <1>2, <1>16
  <2> QED
    BY <1>16, <1>17, <2>1, <1>3, <1>6, <1>7, <1>8, <1>9, <1>10, <1>11, <1>12
    DEF WorkerStep, NotifyStep, QuietStep
<1>18. ASSUME OwnerStep PROVE NotifiedSeen'
  <2>1. QuietStep(Owner) => NotifiedSeen'
    BY <1>2, <1>16
  <2> QED
    BY <1>16, <1>18, <2>1, <1>4, <1>5, <1>6, <1>7, <1>8, <1>9, <1>13, <1>14
    DEF OwnerStep, NotifyStep, QuietStep
<1> QED
  BY <1>15, <1>17, <1>18 DEF Next

(* A scheduled task is never stranded behind sleeping workers, for any pool size
   and any tasks, as long as thread creation does not fail: the lost wakeup that
   the comment in notify() warns of does not happen. *)
THEOREM QueuedTasksAreSeenTo == ~SpawnMayFail => (Safety => []NoStrandedTask)
<1> SUFFICES ASSUME ~SpawnMayFail PROVE Safety => []NoStrandedTask
  OBVIOUS
<1>1. Init => WorkInv
  <2> SUFFICES ASSUME Init PROVE WorkInv
    OBVIOUS
  <2>1. LocalSeen
    BY DEF Init, LocalSeen
  <2>2. ConsumerPlace /\ GlobalSeen
    BY DEF Init, ConsumerPlace, GlobalSeen
  <2>3. ~sync.notified
    BY DEF Init
  <2> QED
    BY <2>1, <2>2, <2>3 DEF WorkInv, NotifiedSeen
<1>2. SyncInv /\ WorkInv /\ [Next]_vars => WorkInv'
  BY LocalStep, GlobalStep, NotifiedStep DEF WorkInv, SyncInv
<1>3. SyncInv /\ WorkInv => NoStrandedTask
  <2> SUFFICES ASSUME SyncInv, WorkInv, sync.state # "Shutdown",
                      global # {} \/ \E w \in Workers : local[w] # {}
               PROVE  \/ \E w \in Workers : at[w] \notin Detached /\ ev[w] \notin {"asleep", "park"}
                      \/ \E w \in Workers : ev[w] = "park" /\ event # E!WAITING
                      \/ at[Owner] \in {"notify", "notifySlow", "wokeIdle", "spawn"}
                      \/ ev[Owner] # "out"
    BY DEF NoStrandedTask
  <2> USE DEF Detached
  <2>1. EventPlaces /\ StateExact /\ PoolTypes /\ E!NoStrandedSleeper
    BY DEF SyncInv, EventInv
  <2>2. ASSUME NEW w \in Workers, at[w] \in Searching
        PROVE  at[w] \notin Detached /\ ev[w] \notin {"asleep", "park"}
    BY <2>1, <2>2 DEF EventPlaces, Searching
  <2>3. CASE \E w \in Workers : local[w] # {}
    BY <2>2, <2>3 DEF WorkInv, LocalSeen
  <2>4. CASE \E w \in Workers : Sees(w)
    BY <2>1, <2>4 DEF EventPlaces, Sees, Searching, AtLabel
  <2>5. CASE event = E!NOTIFIED /\ Live # {}
    <3>1. PICK w \in Workers : w \in Live
      BY <2>5 DEF Live
    <3>2. at[w] \notin Detached
      BY <2>1, <3>1 DEF StateExact, Live, Leaving
    <3>3. event # E!WAITING
      BY <2>5 DEF E!NOTIFIED, E!WAITING
    <3>4. CASE ev[w] = "asleep"
      <4>1. PICK u \in Actors : ev[u] \in {"wakeOne", "wakeAll", "check", "park"}
        BY <2>1, <3>1, <3>3, <3>4 DEF E!NoStrandedSleeper, Actors
      <4> QED
        BY <2>1, <3>3, <4>1 DEF EventPlaces, Actors
    <3> QED
      BY <3>2, <3>3, <3>4
  <2>6. CASE global # {}
    BY <2>2, <2>4, <2>5, <2>6 DEF WorkInv, GlobalSeen, NotifiedSeen
  <2> QED
    BY <2>3, <2>6
<1> QED
  BY <1>1, <1>2, <1>3, SyncInit, SyncStep, PTL DEF Safety
=============================================================================
