------------------------------ MODULE VmHandle ------------------------------
(* How other threads reach a JavaScript VM, and how the VM ends              *)
(* (src/src/jsc/VmHandle.rs), with the event loop that takes what they post  *)
(* (src/src/jsc/event_loop.rs) and the life of a worker around it            *)
(* (src/src/jsc/web_worker.rs, VirtualMachine.rs).                           *)
(*                                                                           *)
(* A job that left the VM's thread holds a ticket, which the VM waits for. A *)
(* poster holds none: it passes a gate that a closed VM keeps shut. Both put *)
(* their task on the VM's concurrent queue, the Fifo that UnboundedQueue     *)
(* implements, and then wake whoever takes it: the loop while it polls, the  *)
(* teardown while it waits on its condition variable.                        *)
EXTENDS Integers, Sequences, SequencesExt, FiniteSets

CONSTANTS Jobs,        \* ticketed work; each posts one completion
          Posters,     \* threads that post one task without a ticket
          Parent,      \* the thread that may terminate the VM
          Kept,        \* who gives back a job's keep-alive: "pool" or "loop"
          Refills      \* CONCURRENT_REFILLS_PER_TICK

ASSUME VmHandleAssumption ==
    /\ Kept \in [Jobs -> {"pool", "loop"}] /\ Refills \in Nat
    /\ IsFiniteSet(Jobs) /\ IsFiniteSet(Posters)
    /\ Jobs \cap Posters = {} /\ Parent \notin Jobs \cup Posters

VARIABLES state,       \* Open, Stopping, Draining, Closed
          tickets, active,
          concurrentRef, refs,     \* keep-alive: changes not yet folded; the loop's count
          items, unlinked,         \* EventLoop.concurrent_tasks
          tasks, out,  \* EventLoop.tasks: what was there before the last batch, and that batch
          woken,       \* the wakeup of the platform loop
          js,          \* the VM's thread
          pc,          \* where each other thread is
          fate         \* what became of each task

queue == <<items, unlinked, tasks, out>>
counts == <<tickets, active>>
keep == <<concurrentRef, refs>>
vars == <<state, counts, keep, queue, woken, js, pc, fate>>

Senders == Jobs \cup Posters

Q == INSTANCE Fifo WITH Items <- Senders

TypeOK ==
    /\ state \in {"Open", "Stopping", "Draining", "Closed"}
    /\ tickets \in 0..Cardinality(Jobs) /\ active \in 0..Cardinality(Posters)
    /\ concurrentRef \in Int /\ refs \in Nat /\ woken \in BOOLEAN
    /\ fate \in [Senders -> {"none", "queued", "run", "released", "refused"}]

Init ==
    /\ state = "Open" /\ tickets = 0 /\ active = 0
    /\ concurrentRef = 0 /\ refs = 0
    /\ Q!Init /\ tasks = <<>> /\ woken = FALSE
    /\ js = [pc |-> "run", refills |-> 0, dry |-> 0, turned |-> TRUE, cut |-> 0]
    /\ pc = [t \in Senders \cup {Parent} |-> "idle"]
    /\ fate = [t \in Senders |-> "none"]

-----------------------------------------------------------------------------
Draining == state \in {"Draining", "Closed"}

Go(t, label) == pc' = [pc EXCEPT ![t] = label]

Js(label) == js' = [js EXCEPT !.pc = label]

(* The VM's thread holds the mutex of `drained` from its lock to its wait;
   the others hold it for the length of a notify. *)
Locked == js.pc \in {"count", "sleep-tickets", "sleep-calls"}

Tasks == tasks \o out

HasPendingTasks == Tasks # <<>> \/ ~Q!IsEmpty

(* Slip: a loop is alive as long as something is counted as keeping it alive. *)
SlipCountOnly == refs > 0 \/ concurrentRef > 0

IsEventLoopAlive == refs > 0 \/ HasPendingTasks \/ concurrentRef > 0

(* apply_concurrent_ref_delta, after a change of this thread's own: the sum
   saturates at zero. *)
Folded(delta) == LET sum == refs + concurrentRef + delta IN IF sum < 0 THEN 0 ELSE sum

(* The worker's loop may still poll, and its handle is published. *)
Published ==
    js.pc \in {"fold", "batch", "run", "auto-tick", "poll", "sleep",
               "alive", "before-exit", "unpublish"}

Stopped == IF state = "Open" THEN "Stopping" ELSE state

-----------------------------------------------------------------------------
(* Other threads: what deliver does *)

Push(t) ==
    /\ pc[t] = "push"
    /\ Q!Push(t)
    /\ fate' = [fate EXCEPT ![t] = "queued"]
    /\ Go(t, "link")
    /\ UNCHANGED <<state, counts, keep, tasks, woken, js>>

Link(t) ==
    /\ pc[t] = "link"
    /\ Q!Link(t)
    /\ Go(t, "wake")
    /\ UNCHANGED <<state, counts, keep, tasks, woken, js, fate>>

Delivered(t) == IF t \in Posters THEN "leave" ELSE IF Kept[t] = "pool" THEN "unref" ELSE "drop"

(* The loop is woken, unless the teardown has begun its wait. *)
Wake(t) ==
    /\ pc[t] = "wake"
    /\ woken' = (woken \/ (Published /\ ~Draining))
    /\ Go(t, IF Draining THEN "notify" ELSE Delivered(t))
    /\ UNCHANGED <<state, counts, keep, queue, js, fate>>

(* Slip: notify_all without the mutex. *)
SlipNotifyUnlocked(t, label) ==
    /\ js' = [js EXCEPT !.pc = IF @ = "wait" THEN "service"
                               ELSE IF @ = "wait-calls" THEN "mid-call" ELSE @]
    /\ Go(t, label)
    /\ UNCHANGED <<state, counts, keep, queue, woken, fate>>

(* notify: only a thread that is in the wait hears it. *)
NotifyTo(t, label) ==
    /\ ~Locked
    /\ js' = [js EXCEPT !.pc = IF @ = "wait" THEN "service"
                               ELSE IF @ = "wait-calls" THEN "mid-call" ELSE @]
    /\ Go(t, label)
    /\ UNCHANGED <<state, counts, keep, queue, woken, fate>>

Notify(t) == pc[t] = "notify" /\ NotifyTo(t, Delivered(t))

LastNotify(t) == pc[t] = "last-notify" /\ NotifyTo(t, "done")

(* unref_keep_alive from the pool's thread, which wakes the loop as well *)
Unref(j) ==
    /\ pc[j] = "unref"
    /\ concurrentRef' = concurrentRef - 1
    /\ woken' = (woken \/ Published)
    /\ Go(j, "drop")
    /\ UNCHANGED <<state, counts, refs, queue, js, fate>>

(* Ticket::drop: the last one looks whether the teardown waits for it. *)
Drop(j) ==
    /\ pc[j] = "drop"
    /\ tickets' = tickets - 1
    /\ Go(j, IF tickets = 1 THEN "last-ticket" ELSE "done")
    /\ UNCHANGED <<state, active, keep, queue, woken, js, fate>>

LastTicket(j) ==
    /\ pc[j] = "last-ticket"
    /\ Go(j, IF Draining THEN "last-notify" ELSE "done")
    /\ UNCHANGED <<state, counts, keep, queue, woken, js, fate>>

-----------------------------------------------------------------------------
(* Threads without a ticket *)

Enter(t) ==
    /\ pc[t] = "idle"
    /\ active' = active + 1
    /\ Go(t, "gate")
    /\ UNCHANGED <<state, tickets, keep, queue, woken, js, fate>>

(* Refused, a poster has its task back. *)
Gate(t) ==
    /\ pc[t] = "gate"
    /\ IF state = "Closed"
       THEN Go(t, "leave") /\ fate' = [fate EXCEPT ![t] = "refused"]
       ELSE Go(t, "push") /\ UNCHANGED fate
    /\ UNCHANGED <<state, counts, keep, queue, woken, js>>

(* Access::drop *)
Leave(t) ==
    /\ pc[t] = "leave"
    /\ active' = active - 1
    /\ Go(t, IF active = 1 THEN "last-out" ELSE "done")
    /\ UNCHANGED <<state, tickets, keep, queue, woken, js, fate>>

LastOut(t) ==
    /\ pc[t] = "last-out"
    /\ Go(t, IF state = "Closed" THEN "last-notify" ELSE "done")
    /\ UNCHANGED <<state, counts, keep, queue, woken, js, fate>>

(* WebWorker::request_termination sets its flag and stops the VM under the
   lock of vm_handle, which a worker that has seen the flag must have before
   it can go on to its shutdown; it lets the lock go after the wake. *)
RequestTermination ==
    /\ pc[Parent] = "idle" /\ Published
    /\ state' = Stopped
    /\ Go(Parent, "rouse")
    /\ UNCHANGED <<counts, keep, queue, woken, js, fate>>

Rouse ==
    /\ pc[Parent] = "rouse"
    /\ woken' = TRUE
    /\ Go(Parent, "done")
    /\ UNCHANGED <<state, counts, keep, queue, js, fate>>

-----------------------------------------------------------------------------
(* The VM's thread: work leaves it *)

(* Script runs: a task, a listener of 'beforeExit' or 'exit', the entry. In
   the teardown a released completion may still be a native continuation. *)
MayIssue ==
    \/ state = "Open" /\ js.pc \in {"run", "before-exit", "exit"}
    \/ js.pc = "release" /\ Tasks # <<>>

(* ref_keep_alive, folded at once, and ticket *)
Issue(j) ==
    /\ MayIssue /\ pc[j] = "idle"
    /\ tickets' = tickets + 1
    /\ refs' = Folded(1) /\ concurrentRef' = 0
    /\ Go(j, "push")
    /\ UNCHANGED <<state, active, queue, woken, js, fate>>

(* The next task, run or released, gives its keep-alive back if it holds it. *)
Consume(how) ==
    LET t == Head(Tasks) IN
    /\ Tasks # <<>>
    /\ fate' = [fate EXCEPT ![t] = how]
    /\ IF tasks # <<>> THEN tasks' = Tail(tasks) /\ UNCHANGED out
                       ELSE out' = Tail(out) /\ UNCHANGED tasks
    /\ IF t \in Jobs /\ Kept[t] = "loop"
       THEN refs' = Folded(-1) /\ concurrentRef' = 0
       ELSE UNCHANGED keep
    /\ UNCHANGED <<state, counts, items, unlinked, woken, pc>>

-----------------------------------------------------------------------------
(* tick *)

(* tick_concurrent: first the keep-alive changes, then the batch *)
Fold ==
    /\ js.pc = "fold"
    /\ refs' = Folded(0) /\ concurrentRef' = 0
    /\ Js("batch")
    /\ UNCHANGED <<state, counts, queue, woken, pc, fate>>

(* pop_batch: its two swaps fix what is in the batch. *)
BatchCut ==
    /\ js.pc \in {"batch", "service", "last-service"} /\ js.cut = 0
    /\ items # <<>> /\ Head(items) \notin unlinked
    /\ js' = [js EXCEPT !.cut = Len(items)]
    /\ UNCHANGED <<state, counts, keep, queue, woken, pc, fate>>

(* Its walk waits for the links of those; what is pushed meanwhile stays. *)
Batch(from, to) ==
    /\ js.pc = from
    /\ (js.cut > 0 /\ Q!Take(js.cut)) \/ (js.cut = 0 /\ Q!PopEmpty)
    /\ tasks' = Tasks
    /\ js' = [js EXCEPT !.pc = to, !.cut = 0]
    /\ UNCHANGED <<state, counts, keep, woken, pc, fate>>

TickBatch == Batch("batch", "run")

RunTask ==
    /\ js.pc = "run"
    /\ Consume("run")
    /\ js' = [js EXCEPT !.dry = 0]

EndTurn == js' = [js EXCEPT !.pc = "auto-tick", !.refills = 0, !.dry = 1]

(* tick_turn ends after two refills in a row that brought nothing (the second
   is the one after the microtasks), or after Refills refills. *)
RunDone ==
    /\ js.pc = "run" /\ Tasks = <<>>
    /\ IF js.refills = Refills \/ js.dry = 2 THEN EndTurn
       ELSE js' = [js EXCEPT !.pc = "fold", !.refills = @ + 1, !.dry = @ + 1]
    /\ UNCHANGED <<state, counts, keep, queue, woken, pc, fate>>

(* Err(Stopped): the termination ends the turn, whatever is left. *)
RunStopped ==
    /\ js.pc = "run" /\ state # "Open"
    /\ EndTurn
    /\ UNCHANGED <<state, counts, keep, queue, woken, pc, fate>>

-----------------------------------------------------------------------------
(* The loop around it: first that of the worker, then that of on_before_exit *)

(* auto_tick_active: the poll blocks when something keeps the loop alive and
   nothing is queued. *)
AutoTick ==
    /\ js.pc = "auto-tick"
    /\ Js(IF state # "Open" THEN "unpublish"
          ELSE IF refs > 0 /\ ~HasPendingTasks THEN "sleep" ELSE "poll")
    /\ UNCHANGED <<state, counts, keep, queue, woken, pc, fate>>

Poll ==
    /\ js.pc = "poll" \/ (js.pc = "sleep" /\ woken)
    /\ woken' = FALSE
    /\ Js("alive")
    /\ UNCHANGED <<state, counts, keep, queue, pc, fate>>

(* A loop that has run dry is offered 'beforeExit', again after every time
   that brought it back to life. *)
Alive ==
    /\ js.pc = "alive"
    /\ js' = IF state # "Open" THEN [js EXCEPT !.pc = "unpublish"]
             ELSE IF IsEventLoopAlive THEN [js EXCEPT !.pc = "fold", !.turned = TRUE]
             ELSE [js EXCEPT !.pc = IF js.turned THEN "before-exit" ELSE "unpublish"]
    /\ UNCHANGED <<state, counts, keep, queue, woken, pc, fate>>

BeforeExit ==
    /\ js.pc = "before-exit"
    /\ js' = [js EXCEPT !.pc = "alive", !.turned = FALSE]
    /\ UNCHANGED <<state, counts, keep, queue, woken, pc, fate>>

-----------------------------------------------------------------------------
(* shutdown and teardown *)

(* What concerns only the loop, which polls no more, is forgotten here. *)
Unpublish ==
    /\ js.pc = "unpublish" /\ pc[Parent] # "rouse"
    /\ js' = [js EXCEPT !.pc = "exit", !.turned = FALSE]
    /\ woken' = FALSE
    /\ UNCHANGED <<state, counts, keep, queue, pc, fate>>

ForbidScript ==
    /\ js.pc = "exit"
    /\ state' = Stopped
    /\ Js("drain")
    /\ UNCHANGED <<counts, keep, queue, woken, pc, fate>>

(* close_and_wait *)
Drain ==
    /\ js.pc = "drain"
    /\ state' = "Draining"
    /\ Js("service")
    /\ UNCHANGED <<counts, keep, queue, woken, pc, fate>>

(* release_queued_tasks *)
Service == Batch("service", "release")

ReleaseTask ==
    /\ js.pc \in {"release", "last-release"}
    /\ Consume("released")
    /\ UNCHANGED js

(* Under the lock: nothing may have come, no ticket may be out. *)
Peek ==
    /\ js.pc = "release" /\ Tasks = <<>>
    /\ Js(IF Q!IsEmpty THEN "count" ELSE "service")
    /\ UNCHANGED <<state, counts, keep, queue, woken, pc, fate>>

CountTickets ==
    /\ js.pc = "count"
    /\ IF tickets = 0 THEN state' = "Closed" /\ Js("closed")
                      ELSE UNCHANGED state /\ Js("sleep-tickets")
    /\ UNCHANGED <<counts, keep, queue, woken, pc, fate>>

AnyMidCall ==
    /\ js.pc = "closed"
    /\ Js(IF active # 0 THEN "mid-call" ELSE "last-service")
    /\ UNCHANGED <<state, counts, keep, queue, woken, pc, fate>>

MidCall ==
    /\ js.pc = "mid-call"
    /\ Js(IF active # 0 THEN "sleep-calls" ELSE "last-service")
    /\ UNCHANGED <<state, counts, keep, queue, woken, pc, fate>>

(* The wait gives the lock up. *)
Wait ==
    /\ js.pc \in {"sleep-tickets", "sleep-calls"}
    /\ Js(IF js.pc = "sleep-tickets" THEN "wait" ELSE "wait-calls")
    /\ UNCHANGED <<state, counts, keep, queue, woken, pc, fate>>

(* The wait for tickets is timed: a second passes. *)
Timeout ==
    /\ js.pc = "wait"
    /\ Js("service")
    /\ UNCHANGED <<state, counts, keep, queue, woken, pc, fate>>

(* Slip: what came before Closed was published is not looked for again. *)
SlipNoLastService ==
    /\ js.pc = "last-service"
    /\ Js("last-release")
    /\ UNCHANGED <<state, counts, keep, queue, woken, pc, fate>>

LastService == Batch("last-service", "last-release")

(* The loops and the VM are freed. *)
Destroy ==
    /\ js.pc = "last-release" /\ Tasks = <<>>
    /\ Js("dead")
    /\ UNCHANGED <<state, counts, keep, queue, woken, pc, fate>>

-----------------------------------------------------------------------------
JsStep ==
    \/ Fold \/ BatchCut \/ TickBatch \/ RunTask \/ RunDone \/ RunStopped
    \/ AutoTick \/ Poll \/ Alive \/ BeforeExit
    \/ Unpublish \/ ForbidScript \/ Drain \/ Service \/ ReleaseTask
    \/ Peek \/ CountTickets \/ AnyMidCall \/ MidCall \/ Wait
    \/ LastService \/ Destroy

Deliver(t) == Push(t) \/ Link(t) \/ Wake(t) \/ Notify(t) \/ LastNotify(t)

JobStep(j) == Deliver(j) \/ Unref(j) \/ Drop(j) \/ LastTicket(j)

PosterStep(t) == Deliver(t) \/ Gate(t) \/ Leave(t) \/ LastOut(t)

OtherStep ==
    \/ Rouse
    \/ \E j \in Jobs : JobStep(j)
    \/ \E t \in Posters : PosterStep(t)

Next ==
    \/ JsStep \/ Timeout \/ OtherStep \/ RequestTermination
    \/ \E j \in Jobs : Issue(j)
    \/ \E t \in Posters : Enter(t)

(* Both sides keep going: work that was handed out is done, and whoever wants
   the lock of `drained` gets it some time when it is free. Nothing need be
   started or terminated, and the timeout of the wait need never help. Each
   thread takes a bounded number of steps, so one condition for all is enough. *)
Spec ==
    /\ Init /\ [][Next]_vars
    /\ WF_vars(JsStep) /\ WF_vars(OtherStep)
    /\ SF_vars(\E t \in Senders : Notify(t) \/ LastNotify(t))

-----------------------------------------------------------------------------
(* Properties *)

(* Once the teardown is past its wait nobody is left who would push on the
   VM's queue, link in it, wake its loop or change its keep-alive, and nothing
   is left in it when the VM is freed. A ticket never outlives Closed. *)
NothingAfterTeardown ==
    /\ js.pc \in {"last-service", "last-release", "dead"} =>
          \A t \in Senders \cup {Parent} :
              pc[t] \notin {"push", "link", "wake", "unref", "rouse"}
    /\ js.pc = "dead" => items = <<>> /\ Tasks = <<>>
    /\ state = "Closed" => \A j \in Jobs : pc[j] \in {"idle", "last-ticket", "last-notify", "done"}

(* A worker that ends of its own accord, because its loop has run dry, has run
   every completion that kept the loop alive: none is left to be released. *)
NaturalExitRunsAll ==
    js.pc = "unpublish" /\ state = "Open" =>
        \A j \in Jobs : pc[j] # "idle" => fate[j] = "run"

(* Nothing that was posted is slept over, in the poll or in the wait; a
   termination is heard; and a teardown returns. *)
EveryPostTaken ==
    /\ <>[](\A t \in Senders : fate[t] # "queued")
    /\ (state # "Open" \/ js.pc = "unpublish") ~> (js.pc = "dead")
=============================================================================
