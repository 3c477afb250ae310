----------------------------- MODULE ThreadPool -----------------------------
(* src/src/threading/ThreadPool.rs: the pool's packed Sync word and what     *)
(* schedule, notify, wait, warm, shutdown, register, unregister, join and    *)
(* the workers' run loop do with it and with idle_event (module Event).      *)
(*                                                                           *)
(* One action per atomic access to a shared word; a compare-exchange loop is *)
(* one action (a failed exchange re-reads, and each branch is chosen on the  *)
(* word as last read).  The run queues are sets of tasks here: the global    *)
(* queue with the consumer bit that makes other consumers turn away, and one *)
(* set per worker for its ring buffer and overflow queue.  A single waiter   *)
(* and a single notifier use each join_event, which is a flag here.          *)
EXTENDS Naturals, FiniteSets, Sequences

CONSTANTS Workers,       \* the OS threads the pool may come to spawn
          Owner,         \* the thread that owns the pool: schedules, shuts down, joins
          Nil,
          MaxThreads,    \* config.max_threads
          Tasks,
          Roots,         \* the tasks that the owner schedules, one batch each
          Children,      \* Children[k]: what task k schedules inside the pool
          WarmTo,        \* the owner begins with warm(WarmTo)
          SpawnMayFail,  \* thread creation may return an error
          IdleWork,      \* workers that the owner pushes an idle task to
          Drops          \* the owner drops the pool in the end

ASSUME PoolAssumption ==
    /\ IsFiniteSet(Workers) /\ Owner \notin Workers /\ Nil \notin Workers \cup {Owner} \cup Tasks
    /\ MaxThreads \in Nat \ {0} /\ Cardinality(Workers) >= MaxThreads
    /\ Roots \subseteq Tasks /\ Children \in [Tasks -> SUBSET Tasks]
    /\ WarmTo \in Nat /\ SpawnMayFail \in BOOLEAN /\ Drops \in BOOLEAN
    /\ IdleWork \subseteq Workers

VARIABLES sync,          \* ThreadPool.sync, by field
          threads,       \* ThreadPool.threads, the stack of registered workers
          global,        \* ThreadPool.run_queue
          consumer,      \* the worker that holds run_queue's IS_CONSUMING bit
          joinEvent,     \* ThreadPool.join_event
          freed,         \* the owner has dropped the pool
          at,            \* where each thread is in the pool's code
          waking,        \* is_waking of each thread
          isIdle,        \* is_idle of each worker's wait()
          local,         \* Thread.run_buffer and Thread.run_queue
          task,          \* the task that each worker has popped
          target, scans, \* Thread.target and num_threads of the steal loop
          idleTask,      \* Thread.idle_queue holds a task
          joinFlag,      \* Thread.join_event
          unscheduled, done,
          event, ev, parked, swept

eventVars == <<event, ev, parked, swept>>
taskVars  == <<global, consumer, local, task, target, scans, unscheduled, done>>
endVars   == <<joinEvent, joinFlag, freed, threads>>
vars == <<sync, at, waking, isIdle, idleTask, taskVars, endVars, eventVars>>

Actors == Workers \cup {Owner}

E == INSTANCE Event WITH Threads <- Actors

SyncState == {"Pending", "Signaled", "Waking", "Shutdown"}

(* Where a worker may be once it no longer touches the pool. *)
Detached == {"unborn", "awaitJoin", "chain", "gone"}

TypeOK ==
    /\ sync \in [idle : 0..Cardinality(Workers), spawned : 0..MaxThreads,
                 notified : BOOLEAN, state : SyncState]
    /\ threads \in Seq(Workers)
    /\ global \subseteq Tasks /\ consumer \in Workers \cup {Nil}
    /\ local \in [Workers -> SUBSET Tasks] /\ task \in [Workers -> Tasks \cup {Nil}]
    /\ target \in [Workers -> Workers \cup {Nil}] /\ scans \in [Workers -> 0..MaxThreads]
    /\ waking \in [Actors -> BOOLEAN] /\ isIdle \in [Workers -> BOOLEAN]
    /\ joinEvent \in BOOLEAN /\ freed \in BOOLEAN
    /\ joinFlag \in [Workers -> BOOLEAN] /\ idleTask \in [Workers -> BOOLEAN]
    /\ unscheduled \subseteq Tasks /\ done \subseteq Tasks
    /\ at \in [Actors -> Detached \cup
                {"starting", "wait", "drain", "own", "globalQ", "take", "release", "releasePushed",
                 "load", "steal", "run", "exit", "unregister", "notifyJoin",
                 "notify", "notifySlow", "spawn", "unspawn",
                 "client", "closing", "warmSpawn", "wokeIdle", "shutdown", "join", "awaitAll",
                 "startChain", "freed"}]
    /\ E!TypeOK

Init ==
    /\ sync = [idle |-> 0, spawned |-> 0, notified |-> FALSE, state |-> "Pending"]
    /\ threads = <<>> /\ global = {} /\ consumer = Nil
    /\ joinEvent = FALSE /\ freed = FALSE
    /\ at = [a \in Actors |-> IF a = Owner THEN "client" ELSE "unborn"]
    /\ waking = [a \in Actors |-> FALSE]
    /\ isIdle = [w \in Workers |-> FALSE]
    /\ local = [w \in Workers |-> {}] /\ task = [w \in Workers |-> Nil]
    /\ target = [w \in Workers |-> Nil] /\ scans = [w \in Workers |-> 0]
    /\ idleTask = [w \in Workers |-> FALSE] /\ joinFlag = [w \in Workers |-> FALSE]
    /\ unscheduled = Tasks /\ done = {}
    /\ E!Init

Goto(a, label) == at' = [at EXCEPT ![a] = label]

(* The thread is at a label, and not inside an idle_event call. *)
AtLabel(a, label) == at[a] = label /\ ev[a] = "out"

(* Where notify returns to: the owner's code, or the worker's popped task. *)
Resume(a) == IF a = Owner THEN "client" ELSE "run"

-----------------------------------------------------------------------------
(* Plausible slips. *)

(* A notifier that can wake nobody returns without leaving the notified bit. *)
SlipNotifyNobody(a) ==
    LET canWake == waking[a] \/ sync.state = "Pending"
        wakes   == canWake /\ sync.idle > 0
        spawns  == canWake /\ sync.idle = 0 /\ sync.spawned < MaxThreads
    IN
    /\ AtLabel(a, "notifySlow")
    /\ sync' = IF wakes \/ spawns
                 THEN [sync EXCEPT !.notified = TRUE, !.state = "Signaled",
                                   !.spawned = IF spawns THEN @ + 1 ELSE @]
                 ELSE [sync EXCEPT !.state = IF waking[a] THEN "Pending" ELSE @]
    /\ Goto(a, IF wakes THEN "wokeIdle" ELSE IF spawns THEN "spawn" ELSE Resume(a))
    /\ waking' = [waking EXCEPT ![a] = FALSE]
    /\ UNCHANGED <<isIdle, idleTask, taskVars, endVars, eventVars>>

(* consume returns a task without publishing the others that it took. *)
SlipTakeUnpublished(w) ==
    /\ AtLabel(w, "take")
    /\ \E k \in global : task' = [task EXCEPT ![w] = k]
    /\ global' = {}
    /\ Goto(w, "release")
    /\ UNCHANGED <<sync, waking, isIdle, idleTask, consumer, local, target, scans,
                   unscheduled, done, endVars, eventVars>>

(* A notified thread does not take itself out of the idle count. *)
SlipWaitStaysIdle(w) ==
    /\ AtLabel(w, "wait") /\ sync.state # "Shutdown"
    /\ IF sync.notified
         THEN /\ sync' = [sync EXCEPT !.notified = FALSE,
                                      !.state = IF @ = "Signaled" THEN "Waking" ELSE @]
              /\ waking' = [waking EXCEPT ![w] = @ \/ sync.state = "Signaled"]
              /\ isIdle' = [isIdle EXCEPT ![w] = FALSE]
              /\ Goto(w, "own")
         ELSE /\ sync' = IF isIdle[w] THEN sync
                         ELSE [sync EXCEPT !.idle = @ + 1,
                                           !.state = IF waking[w] THEN "Pending" ELSE @]
              /\ waking' = [waking EXCEPT ![w] = FALSE]
              /\ isIdle' = [isIdle EXCEPT ![w] = TRUE]
              /\ Goto(w, "drain")
    /\ UNCHANGED <<idleTask, taskVars, endVars, eventVars>>

(* A worker leaves without a last drain of its idle queue. *)
SlipExitUndrained(w) ==
    /\ AtLabel(w, "exit")
    /\ Goto(w, "unregister")
    /\ UNCHANGED <<sync, waking, isIdle, idleTask, taskVars, endVars, eventVars>>

(* fetch_sub is taken to return the new count. *)
SlipUnregisterNewCount(w) ==
    /\ AtLabel(w, "unregister")
    /\ sync' = [sync EXCEPT !.spawned = @ - 1]
    /\ Goto(w, IF sync.state = "Shutdown" /\ sync.spawned = 0 THEN "notifyJoin" ELSE "awaitJoin")
    /\ UNCHANGED <<waking, isIdle, idleTask, taskVars, endVars, eventVars>>

(* join looks at the state but not at the count. *)
SlipJoinEarly ==
    /\ AtLabel(Owner, "join")
    /\ Goto(Owner, IF sync.state = "Shutdown" THEN "startChain" ELSE "awaitAll")
    /\ UNCHANGED <<sync, waking, isIdle, idleTask, taskVars, endVars, eventVars>>

-----------------------------------------------------------------------------
(* notify *)

(* The fetch_or(0) of the fast path; a waking thread goes on regardless. *)
NotifyFast(a) ==
    /\ AtLabel(a, "notify")
    /\ Goto(a, IF sync.notified /\ ~waking[a] THEN Resume(a) ELSE "notifySlow")
    /\ UNCHANGED <<sync, waking, isIdle, idleTask, taskVars, endVars, eventVars>>

(* notify_slow's exchange. *)
NotifySlow(a) ==
    LET canWake == waking[a] \/ sync.state = "Pending" IN
    /\ AtLabel(a, "notifySlow")
    /\ CASE sync.state = "Shutdown" ->
              UNCHANGED sync /\ Goto(a, Resume(a))
         [] sync.state # "Shutdown" /\ canWake /\ sync.idle > 0 ->
              /\ sync' = [sync EXCEPT !.notified = TRUE, !.state = "Signaled"]
              /\ Goto(a, "wokeIdle")
         [] sync.state # "Shutdown" /\ canWake /\ sync.idle = 0 /\ sync.spawned < MaxThreads ->
              /\ sync' = [sync EXCEPT !.notified = TRUE, !.state = "Signaled",
                                      !.spawned = @ + 1]
              /\ Goto(a, "spawn")
         [] OTHER ->
              /\ sync' = [sync EXCEPT !.notified = TRUE,
                                      !.state = IF waking[a] THEN "Pending" ELSE @]
              /\ Goto(a, Resume(a))
    /\ waking' = [waking EXCEPT ![a] = FALSE]
    /\ UNCHANGED <<isIdle, idleTask, taskVars, endVars, eventVars>>

(* idle_event.notify() *)
NotifyIdleEvent(a) ==
    /\ AtLabel(a, "wokeIdle")
    /\ E!Notify(a)
    /\ Goto(a, Resume(a))
    /\ UNCHANGED <<sync, waking, isIdle, idleTask, taskVars, endVars>>

(* The OS starts a thread. *)
Spawn(a) ==
    /\ \E w \in Workers :
          /\ at[w] = "unborn"
          /\ at' = [at EXCEPT ![w] = "starting", ![a] = Resume(a)]
    /\ UNCHANGED <<sync, waking, isIdle, idleTask, taskVars, endVars, eventVars>>

SpawnForNotify(a) == AtLabel(a, "spawn") /\ Spawn(a)

(* The OS refuses: unregister(pool, null) takes the count back. *)
SpawnFails(a) ==
    /\ SpawnMayFail
    /\ AtLabel(a, "spawn") \/ AtLabel(a, "warmSpawn")
    /\ sync' = [sync EXCEPT !.spawned = @ - 1]
    /\ joinEvent' = (joinEvent \/ (sync.state = "Shutdown" /\ sync.spawned = 1))
    /\ Goto(a, Resume(a))
    /\ UNCHANGED <<waking, isIdle, idleTask, taskVars, joinFlag, freed, threads, eventVars>>

-----------------------------------------------------------------------------
(* The worker: register, wait *)

Register(w) ==
    /\ AtLabel(w, "starting")
    /\ threads' = <<w>> \o threads
    /\ Goto(w, "wait")
    /\ UNCHANGED <<sync, waking, isIdle, idleTask, taskVars, joinEvent, joinFlag, freed,
                   eventVars>>

(* wait: leave on Shutdown; consume a notification; or become idle, which the
   loop follows up with idle_event.wait on the word it read before. *)
Wait(w) ==
    /\ AtLabel(w, "wait")
    /\ \/ /\ sync.state = "Shutdown"
          /\ Goto(w, "exit")
          /\ UNCHANGED <<sync, waking, isIdle>>
       \/ /\ sync.state # "Shutdown" /\ sync.notified
          /\ sync' = [sync EXCEPT !.notified = FALSE,
                                  !.idle = IF isIdle[w] THEN @ - 1 ELSE @,
                                  !.state = IF @ = "Signaled" THEN "Waking" ELSE @]
          /\ waking' = [waking EXCEPT ![w] = @ \/ sync.state = "Signaled"]
          /\ isIdle' = [isIdle EXCEPT ![w] = FALSE]
          /\ Goto(w, "own")
       \/ /\ sync.state # "Shutdown" /\ ~sync.notified /\ ~isIdle[w]
          /\ sync' = [sync EXCEPT !.idle = @ + 1,
                                  !.state = IF waking[w] THEN "Pending" ELSE @]
          /\ waking' = [waking EXCEPT ![w] = FALSE]
          /\ isIdle' = [isIdle EXCEPT ![w] = TRUE]
          /\ Goto(w, "drain")
       \/ /\ sync.state # "Shutdown" /\ ~sync.notified /\ isIdle[w]
          /\ Goto(w, "drain")
          /\ UNCHANGED <<sync, waking, isIdle>>
    /\ UNCHANGED <<idleTask, taskVars, endVars, eventVars>>

(* drain_idle_events, then idle_event.wait() *)
DrainAndSleep(w) ==
    /\ AtLabel(w, "drain")
    /\ idleTask' = [idleTask EXCEPT ![w] = FALSE]
    /\ E!WaitCall(w)
    /\ Goto(w, "wait")
    /\ UNCHANGED <<sync, waking, isIdle, taskVars, endVars>>

-----------------------------------------------------------------------------
(* The worker: pop *)

(* Take task k off; notify if more tasks were pushed or this thread is waking. *)
Popped(w, k, pushed) ==
    /\ task' = [task EXCEPT ![w] = k]
    /\ Goto(w, IF pushed \/ waking[w] THEN "notify" ELSE "run")

(* The local buffer and queue. *)
PopLocal(w) ==
    /\ AtLabel(w, "own")
    /\ \/ \E k \in local[w] :
             /\ local' = [local EXCEPT ![w] = @ \ {k}]
             /\ Popped(w, k, FALSE)
       \/ /\ local[w] = {}
          /\ Goto(w, "globalQ")
          /\ UNCHANGED <<local, task>>
    /\ UNCHANGED <<sync, waking, isIdle, idleTask, global, consumer, target, scans,
                   unscheduled, done, endVars, eventVars>>

(* consume(&pool.run_queue): turned away if it is empty or being consumed. *)
AcquireGlobal(w) ==
    /\ AtLabel(w, "globalQ")
    /\ IF global # {} /\ consumer = Nil
         THEN consumer' = w /\ Goto(w, "take")
         ELSE UNCHANGED consumer /\ Goto(w, "load")
    /\ UNCHANGED <<sync, waking, isIdle, idleTask, global, local, task, target, scans,
                   unscheduled, done, endVars, eventVars>>

(* One task to run, the others into the own buffer. *)
TakeGlobal(w) ==
    /\ AtLabel(w, "take")
    /\ \E k \in global :
          /\ task' = [task EXCEPT ![w] = k]
          /\ local' = [local EXCEPT ![w] = @ \cup (global \ {k})]
          /\ Goto(w, IF global = {k} THEN "release" ELSE "releasePushed")
    /\ global' = {}
    /\ UNCHANGED <<sync, waking, isIdle, idleTask, consumer, target, scans,
                   unscheduled, done, endVars, eventVars>>

ReleaseGlobal(w) ==
    /\ AtLabel(w, "release") \/ AtLabel(w, "releasePushed")
    /\ consumer' = Nil
    /\ Goto(w, IF at[w] = "releasePushed" \/ waking[w] THEN "notify" ELSE "run")
    /\ UNCHANGED <<sync, waking, isIdle, idleTask, global, local, task, target, scans,
                   unscheduled, done, endVars, eventVars>>

(* num_threads = sync.load().spawned() *)
LoadSpawned(w) ==
    /\ AtLabel(w, "load")
    /\ scans' = [scans EXCEPT ![w] = sync.spawned]
    /\ Goto(w, "steal")
    /\ UNCHANGED <<sync, waking, isIdle, idleTask, global, consumer, local, task, target,
                   unscheduled, done, endVars, eventVars>>

(* Thread.next of a registered worker *)
NextOf(w) ==
    LET i == CHOOSE j \in DOMAIN threads : threads[j] = w
    IN  IF i < Len(threads) THEN threads[i + 1] ELSE Nil

(* One round of the steal loop: half of the target's tasks, rounded up.  With
   nothing found, drain_idle_events and wait again. *)
Steal(w) ==
    LET v     == IF target[w] = Nil THEN Head(threads) ELSE target[w]
        halve == (Cardinality(local[v]) + 1) \div 2
    IN
    /\ AtLabel(w, "steal")
    /\ \/ /\ scans[w] = 0
          /\ Goto(w, "wait")
          /\ idleTask' = [idleTask EXCEPT ![w] = FALSE]
          /\ UNCHANGED <<local, task, target, scans>>
       \/ /\ scans[w] > 0
          /\ UNCHANGED idleTask
          /\ target' = [target EXCEPT ![w] = NextOf(v)]
          /\ IF v # w /\ local[v] # {}
               THEN \E loot \in SUBSET local[v] : \E k \in loot :
                       /\ Cardinality(loot) = halve
                       /\ local' = [local EXCEPT ![v] = @ \ loot, ![w] = @ \cup (loot \ {k})]
                       /\ scans' = [scans EXCEPT ![w] = 0]
                       /\ Popped(w, k, loot # {k})
               ELSE /\ scans' = [scans EXCEPT ![w] = @ - 1]
                    /\ UNCHANGED <<local, task, at>>
    /\ UNCHANGED <<sync, waking, isIdle, global, consumer, unscheduled, done,
                   endVars, eventVars>>

-----------------------------------------------------------------------------
(* The worker: run the callback *)

(* schedule_inside_thread_pool *)
ScheduleInside(w) ==
    /\ AtLabel(w, "run")
    /\ \E k \in Children[task[w]] \cap unscheduled :
          /\ local' = [local EXCEPT ![w] = @ \cup {k}]
          /\ unscheduled' = unscheduled \ {k}
    /\ Goto(w, "notify")
    /\ UNCHANGED <<sync, waking, isIdle, idleTask, global, consumer, task, target, scans,
                   done, endVars, eventVars>>

Finish(w) ==
    /\ AtLabel(w, "run")
    /\ Children[task[w]] \cap unscheduled = {}
    /\ done' = done \cup {task[w]}
    /\ task' = [task EXCEPT ![w] = Nil]
    /\ Goto(w, "own")
    /\ UNCHANGED <<sync, waking, isIdle, idleTask, global, consumer, local, target, scans,
                   unscheduled, endVars, eventVars>>

-----------------------------------------------------------------------------
(* The worker: unregister *)

(* drain_idle_events on the way out *)
ExitDrain(w) ==
    /\ AtLabel(w, "exit")
    /\ idleTask' = [idleTask EXCEPT ![w] = FALSE]
    /\ Goto(w, "unregister")
    /\ UNCHANGED <<sync, waking, isIdle, taskVars, endVars, eventVars>>

(* sync.fetch_sub(one_spawned) *)
Unregister(w) ==
    /\ AtLabel(w, "unregister")
    /\ sync' = [sync EXCEPT !.spawned = @ - 1]
    /\ Goto(w, IF sync.state = "Shutdown" /\ sync.spawned = 1 THEN "notifyJoin" ELSE "awaitJoin")
    /\ UNCHANGED <<waking, isIdle, idleTask, taskVars, endVars, eventVars>>

(* pool.join_event.notify(), by the last thread *)
NotifyJoin(w) ==
    /\ AtLabel(w, "notifyJoin")
    /\ joinEvent' = TRUE
    /\ Goto(w, "awaitJoin")
    /\ UNCHANGED <<sync, waking, isIdle, idleTask, taskVars, joinFlag, freed, threads, eventVars>>

(* thread.join_event.wait() *)
AwaitJoin(w) ==
    /\ AtLabel(w, "awaitJoin") /\ joinFlag[w]
    /\ Goto(w, "chain")
    /\ UNCHANGED <<sync, waking, isIdle, idleTask, taskVars, endVars, eventVars>>

(* Release the next thread by the .next link, without the pool. *)
Chain(w) ==
    /\ AtLabel(w, "chain")
    /\ joinFlag' = IF NextOf(w) = Nil THEN joinFlag ELSE [joinFlag EXCEPT ![NextOf(w)] = TRUE]
    /\ Goto(w, "gone")
    /\ UNCHANGED <<sync, waking, isIdle, idleTask, taskVars, joinEvent, freed, threads, eventVars>>

-----------------------------------------------------------------------------
(* The owner *)

(* schedule: push the batch on the global queue, then notify. *)
Schedule ==
    /\ AtLabel(Owner, "client")
    /\ \E k \in Roots \cap unscheduled :
          global' = global \cup {k} /\ unscheduled' = unscheduled \ {k}
    /\ Goto(Owner, "notify")
    /\ UNCHANGED <<sync, waking, isIdle, idleTask, consumer, local, task, target, scans,
                   done, endVars, eventVars>>

(* warm: raise the count, then spawn. *)
Warm ==
    /\ AtLabel(Owner, "client")
    /\ sync.spawned < WarmTo /\ sync.spawned < MaxThreads
    /\ unscheduled = Tasks
    /\ sync' = [sync EXCEPT !.spawned = @ + 1]
    /\ Goto(Owner, "warmSpawn")
    /\ UNCHANGED <<waking, isIdle, idleTask, taskVars, endVars, eventVars>>

WarmSpawn == AtLabel(Owner, "warmSpawn") /\ Spawn(Owner)

(* The owner is done: push_idle_task to registered workers, then
   wake_for_idle_events. *)
WakeForIdleEvents ==
    /\ AtLabel(Owner, "client")
    /\ Roots \cap unscheduled = {}
    /\ IdleWork # {} /\ IdleWork \subseteq {threads[i] : i \in DOMAIN threads}
    /\ idleTask' = [w \in Workers |-> w \in IdleWork]
    /\ E!Post(Owner, E!NOTIFIED, TRUE)
    /\ Goto(Owner, "closing")
    /\ UNCHANGED <<sync, waking, isIdle, taskVars, endVars>>

(* Drop: shutdown's exchange; idle_event is shut down if threads were idle. *)
Shutdown ==
    /\ Drops
    /\ AtLabel(Owner, "client") \/ AtLabel(Owner, "closing")
    /\ Roots \cap unscheduled = {}
    /\ sync' = [sync EXCEPT !.notified = TRUE, !.state = "Shutdown", !.idle = 0]
    /\ Goto(Owner, IF sync.idle > 0 THEN "shutdown" ELSE "join")
    /\ UNCHANGED <<waking, isIdle, idleTask, taskVars, endVars, eventVars>>

ShutdownIdleEvent ==
    /\ AtLabel(Owner, "shutdown")
    /\ E!Post(Owner, E!SHUTDOWN, TRUE)
    /\ Goto(Owner, "join")
    /\ UNCHANGED <<sync, waking, isIdle, idleTask, taskVars, endVars>>

(* join: wait unless every thread has already unregistered. *)
JoinCheck ==
    /\ AtLabel(Owner, "join")
    /\ Goto(Owner, IF sync.spawned = 0 THEN "startChain" ELSE "awaitAll")
    /\ UNCHANGED <<sync, waking, isIdle, idleTask, taskVars, endVars, eventVars>>

JoinWait ==
    /\ AtLabel(Owner, "awaitAll") /\ joinEvent
    /\ Goto(Owner, "startChain")
    /\ UNCHANGED <<sync, waking, isIdle, idleTask, taskVars, endVars, eventVars>>

(* Release the first registered thread; join returns and the pool is freed. *)
StartChain ==
    /\ AtLabel(Owner, "startChain")
    /\ joinFlag' = IF threads = <<>> THEN joinFlag ELSE [joinFlag EXCEPT ![Head(threads)] = TRUE]
    /\ freed' = TRUE
    /\ Goto(Owner, "freed")
    /\ UNCHANGED <<sync, waking, isIdle, idleTask, taskVars, joinEvent, threads, eventVars>>

-----------------------------------------------------------------------------
NotifyStep(a) ==
    NotifyFast(a) \/ NotifySlow(a) \/ NotifyIdleEvent(a) \/ SpawnForNotify(a) \/ SpawnFails(a)

EventStep(a) ==
    /\ E!WaitStep(a) \/ E!FutexWake(a)
    /\ UNCHANGED <<sync, at, waking, isIdle, idleTask, taskVars, endVars>>

SpuriousReturn(w) ==
    E!SpuriousReturn(w) /\ UNCHANGED <<sync, at, waking, isIdle, idleTask, taskVars, endVars>>

WorkerStep(w) ==
    \/ Register(w) \/ Wait(w) \/ DrainAndSleep(w)
    \/ PopLocal(w) \/ AcquireGlobal(w) \/ TakeGlobal(w) \/ ReleaseGlobal(w)
    \/ LoadSpawned(w) \/ Steal(w)
    \/ ScheduleInside(w) \/ Finish(w)
    \/ ExitDrain(w) \/ Unregister(w) \/ NotifyJoin(w) \/ AwaitJoin(w) \/ Chain(w)
    \/ NotifyStep(w) \/ EventStep(w)

OwnerStep ==
    \/ Schedule \/ Warm \/ WarmSpawn \/ WakeForIdleEvents
    \/ Shutdown \/ ShutdownIdleEvent \/ JoinCheck \/ JoinWait \/ StartChain
    \/ NotifyStep(Owner) \/ EventStep(Owner)

Next == OwnerStep \/ \E w \in Workers : WorkerStep(w) \/ SpuriousReturn(w)

Safety == Init /\ [][Next]_vars

(* The threads are scheduled and the callbacks return; spurious returns and
   failing spawns are never counted on. *)
Spec == Safety /\ WF_vars(OwnerStep) /\ \A w \in Workers : WF_vars(WorkerStep(w))

-----------------------------------------------------------------------------
(* Properties *)

Registered == {threads[i] : i \in DOMAIN threads}

(* The Sync word tells the truth.  Waking: exactly one thread is the waking
   thread while the state says so, which notify_slow and wait debug_assert.
   Idle: the count is the workers that announced themselves idle, so that a
   notifier never signals an event on which nobody will wait and set_idle(idle-1)
   never borrows from the spawned field.  Spawned: one for each thread that is
   started or being started, so max_threads is respected. *)
SyncConsistent ==
    LET wakers == {a \in Actors : waking[a]}
        live   == {w \in Workers : at[w] \notin {"unborn", "notifyJoin", "awaitJoin",
                                                 "chain", "gone"}}
        births == {a \in Actors : at[a] \in {"spawn", "warmSpawn"}}
    IN  /\ sync.state # "Shutdown" =>
             /\ Cardinality(wakers) = IF sync.state = "Waking" THEN 1 ELSE 0
             /\ sync.idle = Cardinality({w \in Workers : isIdle[w]})
        /\ sync.spawned = Cardinality(live) + Cardinality(births)

(* A task that is scheduled is on its way to be run: if tasks are queued, some
   thread is awake in the pool, or about to be started, or a wake is on its way
   to a sleeper.  Workers all asleep in idle_event with work queued would be the
   lost wakeup that the comment in notify() warns of. *)
NoStrandedTask ==
    (global # {} \/ \E w \in Workers : local[w] # {}) /\ sync.state # "Shutdown" =>
        \/ \E w \in Workers : at[w] \notin Detached /\ ev[w] \notin {"asleep", "park"}
        \/ \E w \in Workers : ev[w] = "park" /\ event # E!WAITING
        \/ at[Owner] \in {"notify", "notifySlow", "wokeIdle", "spawn"}
        \/ ev[Owner] # "out"

(* "Schedule a batch of tasks to be executed by some thread on the thread pool"
   (schedule): the owner schedules its roots, tasks schedule their children, and
   every one of them is executed. *)
EveryTaskRuns == <>(done = Tasks)

(* A notify that began before the shutdown is about to swap SHUTDOWN away. *)
LateNotify == event = E!SHUTDOWN /\ \E w \in Workers : at[w] = "wokeIdle"

(* A worker's idle task is run, if no notify comes late: at the latest on the way
   out, which is what the second drain in run is for when shutdown races
   wake_for_idle_events.  The wake alone does not reach a worker that finds the
   token taken. *)
IdleTasksRun == []~LateNotify => \A w \in IdleWork : idleTask[w] ~> ~idleTask[w]

(* Nobody is left asleep in idle_event behind a word that would make the next
   notify skip the futex. *)
SleepersSeenTo == E!NoStrandedSleeper

(* "The event can be shutdown(), waking up all wait()ing threads and making
   subsequent wait()'s return immediately" (Event): dropping the pool ends.  Every
   worker sees the shutdown and unregisters, the last one lets join() go on, and
   the chain of join_events reaches them all. *)
DropReturns ==
    sync.state = "Shutdown" ~>
        /\ at[Owner] = "freed"
        /\ \A w \in Workers : at[w] \in {"unborn", "gone"}

(* A notify that swaps after the shutdown is all that can keep the drop from
   ending: otherwise the wake of everybody reaches also those who sleep behind an
   EMPTY or NOTIFIED word, and nobody goes to sleep after it. *)
DropReturnsUnlessLate == []~LateNotify => DropReturns

(* "pool is live until this notify wakes the joiner" (unregister): once the owner
   has freed the pool, no worker has an access to it ahead. *)
NoUseAfterFree == freed => \A w \in Workers : at[w] \in Detached /\ ev[w] = "out"

(* join() starts the chain only when every registered thread has unregistered,
   so that no worker's stack is let go while another may steal from it.  The last
   of them may still have its join_event.notify() to make. *)
ChainAfterAll ==
    (\E w \in Workers : joinFlag[w]) =>
        \A w \in Registered : at[w] \in Detached \cup {"notifyJoin"}
=============================================================================
