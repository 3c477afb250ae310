---------------------------- MODULE BundleThread ----------------------------
(* The thread that runs every Bun.build of the process                       *)
(* (src/src/bundler/BundleThread.rs), the builds the JavaScript VMs hand to  *)
(* it (src/src/runtime/api/js_bundle_completion_task.rs), and the requests a *)
(* build puts to plugins that run on its VM's thread. A VM that is torn down *)
(* takes back the builds that wait and cancels the one that runs.            *)
(*                                                                           *)
(* The queue is the Fifo that UnboundedQueue implements; the event the first *)
(* caller waits on is ResetEvent, step by step. A VM's own queue and its     *)
(* tickets, which VmHandle models, are a sequence and a flag here.           *)
EXTENDS Naturals, Sequences, SequencesExt

CONSTANTS VMs, Builds, Bundler, None,
          Owner,        \* the VM of each build
          Plugins       \* the builds that put a request to a plugin (one each)

ASSUME BundleThreadAssumption ==
    /\ Owner \in [Builds -> VMs] /\ Plugins \subseteq Builds
    /\ Bundler \notin VMs /\ None \notin Builds \cup {"task", "thread"}

VARIABLES vm,        \* per VM: its life, where its thread is and with which build, its queue
          once,      \* the OnceLock of the singleton
          ready, at, \* ready_event: its word and where each thread is in it
          waker,     \* BundleThread.waker: whether it is initialised, whether it is signalled
          items, unlinked, out,    \* BundleThread.queue
          bundler,   \* the bundle thread: where it is, with which build, graph.cancelled
          mini,      \* the wakeup of the bundle thread's own event loop
          task       \* the JSBundleCompletionTasks

queue == <<items, unlinked, out>>
vars == <<vm, once, ready, at, waker, queue, bundler, mini, task>>

Q == INSTANCE Fifo WITH Items <- Builds
R == INSTANCE ResetEvent WITH Waiters <- VMs, Setters <- {Bundler}, state <- ready, pc <- at

(* A task. ticket: who holds the VM's ticket; js: the promise, the keep-alive
   and the plugin cell; request: where the question to the plugin is. *)
NewTask == [mem |-> "none", stage |-> "Queued", ticket |-> None, js |-> FALSE,
            registered |-> FALSE, cancelled |-> FALSE,
            loop |-> FALSE, request |-> "none"]

TypeOK ==
    /\ R!TypeOK
    /\ once \in {"empty", "running", "complete"}
    /\ \A b \in Builds : task[b].ticket \in {None, "task", "thread"}

Init ==
    /\ vm = [v \in VMs |-> [life |-> "running", pc |-> "idle", on |-> None, queue |-> <<>>]]
    /\ once = "empty" /\ R!Init /\ Q!Init
    /\ waker = [init |-> FALSE, set |-> FALSE]
    /\ bundler = [pc |-> "unborn", on |-> None, cancelled |-> FALSE]
    /\ mini = FALSE
    /\ task = [b \in Builds |-> NewTask]

-----------------------------------------------------------------------------
Idle(v, life) == vm[v].life = life /\ vm[v].pc = "idle"

At(v, label) == vm[v].pc = label

Goto(v, label) == vm' = [vm EXCEPT ![v].pc = label, ![v].on = IF label = "idle" THEN None ELSE @]

Begin(v, label, b) == vm' = [vm EXCEPT ![v].pc = label, ![v].on = b]

Bundle(label) == bundler' = [bundler EXCEPT !.pc = label]

(* Ticket::post on the concurrent queue of the build's VM *)
Post(b, what) == vm' = [vm EXCEPT ![Owner[b]].queue = Append(@, [build |-> b, is |-> what])]

(* A question that the build counts as a pending item. *)
Pending(b) == task[b].request \in {"hop", "held", "answered"}

-----------------------------------------------------------------------------
(* Plausible slips. *)

(* free_released_unstarted does not wait for ReleasedUnstarted. *)
SlipFreeWhileReleasing ==
    /\ bundler.pc = "unstarted"
    /\ task' = [task EXCEPT ![bundler.on].mem = "freed"]
    /\ bundler' = [bundler EXCEPT !.pc = "pop", !.on = None, !.cancelled = FALSE]
    /\ UNCHANGED <<vm, once, ready, at, waker, queue, mini>>

(* The stop phase releases the JavaScript side but keeps the ticket in the
   task, to be dropped with it. *)
SlipKeepTicket(v) ==
    /\ At(v, "release")
    /\ task' = [task EXCEPT ![vm[v].on].js = FALSE]
    /\ Goto(v, "publish")
    /\ UNCHANGED <<once, ready, at, waker, queue, bundler, mini>>

(* A hop that the teardown releases is only freed. *)
SlipForgetHop(v) ==
    /\ Idle(v, "draining") /\ vm[v].queue # <<>> /\ Head(vm[v].queue).is = "hop"
    /\ vm' = [vm EXCEPT ![v].queue = Tail(@)]
    /\ UNCHANGED <<once, ready, at, waker, queue, bundler, mini, task>>

-----------------------------------------------------------------------------
(* Bun.build, on a VM's thread *)

(* new and schedule: the task takes a ticket, is registered with its VM's
   active handles, and is handed to the singleton. *)
Schedule(v, b) ==
    /\ Idle(v, "running")
    /\ Owner[b] = v /\ task[b].mem = "none"
    /\ task' = [task EXCEPT ![b].mem = "live", ![b].ticket = "task", ![b].js = TRUE,
                            ![b].registered = TRUE]
    /\ Begin(v, "get", b)
    /\ UNCHANGED <<once, ready, at, waker, queue, bundler, mini>>

(* singleton::get: the first caller spawns the thread and waits until it is
   ready; a caller that comes meanwhile is blocked by the OnceLock. *)
GetReady(v) ==
    /\ At(v, "get") /\ once = "complete"
    /\ Goto(v, "push")
    /\ UNCHANGED <<once, ready, at, waker, queue, bundler, mini, task>>

Spawn(v) ==
    /\ At(v, "get") /\ once = "empty"
    /\ once' = "running"
    /\ Bundle("start")
    /\ R!WaitCall(v)
    /\ Goto(v, "wait")
    /\ UNCHANGED <<waker, queue, mini, task>>

WaitReady(v) ==
    /\ At(v, "wait")
    /\ R!WaitStep(v)
    /\ UNCHANGED <<vm, once, waker, queue, bundler, mini, task>>

WaitSpurious(v) ==
    /\ At(v, "wait")
    /\ R!SpuriousReturn(v)
    /\ UNCHANGED <<vm, once, waker, queue, bundler, mini, task>>

SpawnDone(v) ==
    /\ At(v, "wait") /\ at[v] = "returned"
    /\ once' = "complete"
    /\ Goto(v, "push")
    /\ UNCHANGED <<ready, at, waker, queue, bundler, mini, task>>

(* enqueue: push, in its two steps, and wake *)
Push(v) ==
    /\ At(v, "push")
    /\ Q!Push(vm[v].on)
    /\ Goto(v, "link")
    /\ UNCHANGED <<once, ready, at, waker, bundler, mini, task>>

Link(v) ==
    /\ At(v, "link")
    /\ Q!Link(vm[v].on)
    /\ Goto(v, "wake")
    /\ UNCHANGED <<once, ready, at, waker, bundler, mini, task>>

Wake(v) ==
    /\ At(v, "wake")
    /\ waker' = [waker EXCEPT !.set = TRUE]
    /\ Goto(v, "idle")
    /\ UNCHANGED <<once, ready, at, queue, bundler, mini, task>>

-----------------------------------------------------------------------------
(* thread_main *)

WriteWaker ==
    /\ bundler.pc = "start"
    /\ waker' = [init |-> TRUE, set |-> FALSE]
    /\ Bundle("set")
    /\ UNCHANGED <<vm, once, ready, at, queue, mini, task>>

SetReady ==
    /\ bundler.pc = "set"
    /\ R!SetCall(Bundler)
    /\ Bundle("setting")
    /\ UNCHANGED <<vm, once, waker, queue, mini, task>>

SetReadyStep ==
    /\ bundler.pc = "setting"
    /\ R!SetStep(Bundler)
    /\ Bundle(IF at'[Bundler] = "idle" THEN "pop" ELSE "setting")
    /\ UNCHANGED <<vm, once, waker, queue, mini, task>>

PopBuild ==
    /\ bundler.pc = "pop"
    /\ Q!Pop
    /\ bundler' = [bundler EXCEPT !.pc = "claim", !.on = out'[1]]
    /\ UNCHANGED <<vm, once, ready, at, waker, mini, task>>

PopEmpty ==
    /\ bundler.pc = "pop"
    /\ Q!PopEmpty
    /\ Bundle("sleep")
    /\ UNCHANGED <<vm, once, ready, at, waker, mini, task>>

(* waker.wait(): a wake that came before it is not lost. *)
Sleep ==
    /\ bundler.pc = "sleep" /\ waker.set
    /\ waker' = [waker EXCEPT !.set = FALSE]
    /\ Bundle("pop")
    /\ UNCHANGED <<vm, once, ready, at, queue, mini, task>>

TryStart ==
    /\ bundler.pc = "claim"
    /\ LET b == bundler.on IN
       IF task[b].stage = "Queued"
       THEN task' = [task EXCEPT ![b].stage = "Started"] /\ Bundle("setup")
       ELSE UNCHANGED task /\ Bundle("unstarted")
    /\ UNCHANGED <<vm, once, ready, at, waker, queue, mini>>

FreeReleasedUnstarted ==
    /\ bundler.pc = "unstarted"
    /\ task[bundler.on].stage = "ReleasedUnstarted"
    /\ task' = [task EXCEPT ![bundler.on].mem = "freed"]
    /\ bundler' = [bundler EXCEPT !.pc = "pop", !.on = None, !.cancelled = FALSE]
    /\ UNCHANGED <<vm, once, ready, at, waker, queue, mini>>

(* generate_in_new_thread and init_and_run: the options may be refused; else
   the pass gets an event loop, which the task publishes. *)
Setup ==
    /\ bundler.pc = "setup"
    /\ \/ Bundle("complete") /\ UNCHANGED task
       \/ /\ task' = [task EXCEPT ![bundler.on].loop = TRUE]
          /\ bundler' = [bundler EXCEPT !.pc = "build", !.cancelled = FALSE]
    /\ UNCHANGED <<vm, once, ready, at, waker, queue, mini>>

(* Resolve::dispatch and Load::dispatch: a cancelled pass answers itself,
   through its own queue. *)
Dispatch ==
    LET b == bundler.on IN
    /\ bundler.pc = "build"
    /\ b \in Plugins /\ task[b].request = "none"
    /\ IF bundler.cancelled
       THEN task' = [task EXCEPT ![b].request = "answered"] /\ mini' = TRUE /\ UNCHANGED vm
       ELSE task' = [task EXCEPT ![b].request = "hop"] /\ Post(b, "hop") /\ UNCHANGED mini
    /\ UNCHANGED <<once, ready, at, waker, queue, bundler>>

(* is_done: takes note of a cancellation; done when nothing is pending. *)
IsDone ==
    LET b == bundler.on IN
    /\ bundler.pc = "build"
    /\ bundler' = [bundler EXCEPT !.cancelled = @ \/ task[b].cancelled,
                                  !.pc = IF Pending(b) THEN "tick" ELSE "complete"]
    /\ UNCHANGED <<vm, once, ready, at, waker, queue, mini, task>>

(* tick_once: the answers that have come, or else the poll *)
Tick ==
    LET b == bundler.on IN
    /\ bundler.pc = "tick"
    /\ IF task[b].request = "answered"
       THEN task' = [task EXCEPT ![b].request = "consumed"] /\ Bundle("build")
       ELSE UNCHANGED task /\ Bundle("poll")
    /\ UNCHANGED <<vm, once, ready, at, waker, queue, mini>>

Poll ==
    /\ bundler.pc = "poll" /\ mini
    /\ mini' = FALSE
    /\ Bundle("build")
    /\ UNCHANGED <<vm, once, ready, at, waker, queue, task>>

(* complete_on_bundle_thread: the ticket is moved out, the task posted, and
   the ticket dropped. *)
Complete ==
    /\ bundler.pc = "complete"
    /\ task' = [task EXCEPT ![bundler.on].loop = FALSE, ![bundler.on].ticket = "thread"]
    /\ Bundle("post")
    /\ UNCHANGED <<vm, once, ready, at, waker, queue, mini>>

PostDone ==
    /\ bundler.pc = "post"
    /\ Post(bundler.on, "done")
    /\ Bundle("drop")
    /\ UNCHANGED <<once, ready, at, waker, queue, mini, task>>

DropTicket ==
    /\ bundler.pc = "drop"
    /\ task' = [task EXCEPT ![bundler.on].ticket = None]
    /\ bundler' = [bundler EXCEPT !.pc = "pop", !.on = None, !.cancelled = FALSE]
    /\ UNCHANGED <<vm, once, ready, at, waker, queue, mini>>

-----------------------------------------------------------------------------
(* The VM's thread: its queue and its plugins *)

(* Resolve::run_on_js_thread: the plugin is asked and holds the request. *)
RunHop(v) ==
    /\ Idle(v, "running") /\ vm[v].queue # <<>> /\ Head(vm[v].queue).is = "hop"
    /\ task' = [task EXCEPT ![Head(vm[v].queue).build].request = "held"]
    /\ vm' = [vm EXCEPT ![v].queue = Tail(@)]
    /\ UNCHANGED <<once, ready, at, waker, queue, bundler, mini>>

(* The plugin answers: on_resolve_async queues the answer on the pass's loop. *)
PluginAnswer(v, b) ==
    /\ Idle(v, "running")
    /\ Owner[b] = v /\ task[b].request = "held"
    /\ task' = [task EXCEPT ![b].request = "answered"]
    /\ Begin(v, "rouse", b)
    /\ UNCHANGED <<once, ready, at, waker, queue, bundler, mini>>

(* and wakes that loop, in its second step. *)
Rouse(v) ==
    /\ At(v, "rouse")
    /\ mini' = TRUE
    /\ Goto(v, IF vm[v].life = "stopping" THEN "cancel" ELSE "idle")
    /\ UNCHANGED <<once, ready, at, waker, queue, bundler, task>>

(* on_complete_anytask, run or released: unregister, settle unless cancelled,
   drop the last reference. *)
OnComplete(v) ==
    /\ Idle(v, "running") \/ Idle(v, "draining")
    /\ vm[v].queue # <<>> /\ Head(vm[v].queue).is = "done"
    /\ LET b == Head(vm[v].queue).build IN
       task' = [task EXCEPT ![b].mem = "freed", ![b].js = FALSE, ![b].registered = FALSE]
    /\ vm' = [vm EXCEPT ![v].queue = Tail(@)]
    /\ UNCHANGED <<once, ready, at, waker, queue, bundler, mini>>

-----------------------------------------------------------------------------
(* The VM's teardown *)

Teardown(v) ==
    /\ Idle(v, "running")
    /\ vm' = [vm EXCEPT ![v].life = "stopping"]
    /\ UNCHANGED <<once, ready, at, waker, queue, bundler, mini, task>>

(* stop_for_vm_teardown: a build that waits is taken back; else the plugin is
   tombstoned, which answers what it holds. *)
Stop(v, b) ==
    /\ Idle(v, "stopping")
    /\ Owner[b] = v /\ task[b].registered
    /\ IF task[b].stage = "Queued"
       THEN /\ task' = [task EXCEPT ![b].registered = FALSE, ![b].stage = "Releasing"]
            /\ Begin(v, "release", b)
       ELSE IF task[b].request = "held"
       THEN /\ task' = [task EXCEPT ![b].registered = FALSE, ![b].request = "answered"]
            /\ Begin(v, "rouse", b)
       ELSE task' = [task EXCEPT ![b].registered = FALSE] /\ Begin(v, "cancel", b)
    /\ UNCHANGED <<once, ready, at, waker, queue, bundler, mini>>

(* Keep-alive, plugin cell, promise and ticket are released, *)
ReleaseJs(v) ==
    /\ At(v, "release")
    /\ task' = [task EXCEPT ![vm[v].on].js = FALSE, ![vm[v].on].ticket = None]
    /\ Goto(v, "publish")
    /\ UNCHANGED <<once, ready, at, waker, queue, bundler, mini>>

(* and only then may the bundle thread free the task. *)
PublishReleased(v) ==
    /\ At(v, "publish")
    /\ task' = [task EXCEPT ![vm[v].on].stage = "ReleasedUnstarted"]
    /\ Goto(v, "idle")
    /\ UNCHANGED <<once, ready, at, waker, queue, bundler, mini>>

Cancel(v) ==
    /\ At(v, "cancel")
    /\ task' = [task EXCEPT ![vm[v].on].cancelled = TRUE]
    /\ Goto(v, "wakeloop")
    /\ UNCHANGED <<once, ready, at, waker, queue, bundler, mini>>

WakeLoop(v) ==
    /\ At(v, "wakeloop")
    /\ mini' = (mini \/ task[vm[v].on].loop)
    /\ Goto(v, "idle")
    /\ UNCHANGED <<once, ready, at, waker, queue, bundler, task>>

(* No handle is left: the VM waits for its tickets and releases what it gets. *)
Drain(v) ==
    /\ Idle(v, "stopping")
    /\ \A b \in Builds : Owner[b] = v => ~task[b].registered
    /\ vm' = [vm EXCEPT ![v].life = "draining"]
    /\ UNCHANGED <<once, ready, at, waker, queue, bundler, mini, task>>

(* Resolve::release_unrun: a hop that never reached the plugin *)
ReleaseHop(v) ==
    /\ Idle(v, "draining") /\ vm[v].queue # <<>> /\ Head(vm[v].queue).is = "hop"
    /\ LET b == Head(vm[v].queue).build IN
       /\ task' = [task EXCEPT ![b].request = "answered"]
       /\ vm' = [vm EXCEPT ![v].queue = Tail(@), ![v].pc = "rouse", ![v].on = b]
    /\ UNCHANGED <<once, ready, at, waker, queue, bundler, mini>>

Close(v) ==
    /\ Idle(v, "draining") /\ vm[v].queue = <<>>
    /\ \A b \in Builds : Owner[b] = v => task[b].ticket = None
    /\ vm' = [vm EXCEPT ![v].life = "closed"]
    /\ UNCHANGED <<once, ready, at, waker, queue, bundler, mini, task>>

-----------------------------------------------------------------------------
BundlerStep ==
    \/ WriteWaker \/ SetReady \/ SetReadyStep
    \/ PopBuild \/ PopEmpty \/ Sleep \/ TryStart \/ FreeReleasedUnstarted
    \/ Setup \/ IsDone \/ Tick \/ Poll \/ Complete \/ PostDone \/ DropTicket

VmStep(v) ==
    \/ GetReady(v) \/ Spawn(v) \/ WaitReady(v) \/ SpawnDone(v)
    \/ Push(v) \/ Link(v) \/ Wake(v)
    \/ RunHop(v) \/ Rouse(v) \/ OnComplete(v)
    \/ ReleaseJs(v) \/ PublishReleased(v) \/ Cancel(v) \/ WakeLoop(v)
    \/ Drain(v) \/ ReleaseHop(v) \/ Close(v)
    \/ \E b \in Builds : Stop(v, b)

Next ==
    \/ BundlerStep \/ Dispatch
    \/ \E v \in VMs :
          \/ VmStep(v) \/ Teardown(v) \/ WaitSpurious(v)
          \/ \E b \in Builds : Schedule(v, b) \/ PluginAnswer(v, b)

(* Both threads keep going, and plugins answer as long as their VM runs. No
   VM need build anything or ever be torn down. *)
Spec ==
    /\ Init /\ [][Next]_vars
    /\ WF_vars(BundlerStep)
    /\ \A v \in VMs : WF_vars(VmStep(v)) /\ WF_vars(\E b \in Builds : PluginAnswer(v, b))

-----------------------------------------------------------------------------
(* Properties *)

Working == {"setup", "build", "tick", "poll", "complete"}

(* Nobody uses what is gone or not there yet: the waker is initialised before
   any enqueue; a thread that works on a task finds it allocated, the bundle
   thread finds the task's VM as well; a request that is out has its pass; and
   the bundle thread never frees a task with a JavaScript side, which it may
   not touch. *)
NothingTouchedDead ==
    /\ \A v \in VMs :
          /\ vm[v].pc \in {"push", "link", "wake"} => waker.init
          /\ vm[v].pc \in {"push", "link", "release", "publish", "cancel", "wakeloop"} =>
                task[vm[v].on].mem = "live"
    /\ bundler.pc \in Working \cup {"claim", "unstarted"} => task[bundler.on].mem = "live"
    /\ bundler.pc \in Working \cup {"post"} => vm[Owner[bundler.on]].life # "closed"
    /\ \A b \in Builds :
          /\ Pending(b) => bundler.on = b /\ bundler.pc \in {"build", "tick", "poll"}
          /\ task[b].mem = "freed" => ~task[b].js
          /\ vm[Owner[b]].life = "closed" => ~task[b].js

(* A VM that is torn down waits for one build at most, the one the bundle
   thread has in hand, never behind the builds of others. *)
TeardownWaitsOnlyForStarted ==
    \A b \in Builds :
        vm[Owner[b]].life = "draining" /\ task[b].ticket # None => bundler.on = b

(* No build is slept over: each ends, completed or released, and is freed; and
   every teardown returns. *)
EveryBuildSettled ==
    /\ \A b \in Builds : (task[b].mem = "live") ~> (task[b].mem = "freed")
    /\ \A v \in VMs : (vm[v].life = "stopping") ~> (vm[v].life = "closed")
=============================================================================
