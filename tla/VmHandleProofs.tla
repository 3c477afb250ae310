--------------------------- MODULE VmHandleProofs ---------------------------
(* Proofs about module VmHandle for any finite sets of jobs and posters.     *)
EXTENDS VmHandle, FiniteSetTheorems, SequenceTheorems, TLAPS

JsLabels ==
    {"fold", "batch", "run", "auto-tick", "poll", "sleep", "alive", "before-exit", "unpublish",
     "exit", "drain", "service", "release", "count", "sleep-tickets", "wait", "closed", "mid-call",
     "sleep-calls", "wait-calls", "last-service", "last-release", "dead"}

JobLabels == {"idle", "push", "link", "wake", "notify", "unref", "drop", "last-ticket",
              "last-notify", "done"}

PosterLabels == {"idle", "gate", "push", "link", "wake", "notify", "leave", "last-out",
                 "last-notify", "done"}

(* The teardown while it waits for tickets, after it has closed, and after its
   last wait. *)
Waiting == {"service", "release", "count", "sleep-tickets", "wait"}
Final   == {"last-service", "last-release", "dead"}
After   == {"closed", "mid-call", "sleep-calls", "wait-calls"} \cup Final

Holders == {j \in Jobs : pc[j] \in {"push", "link", "wake", "notify", "unref", "drop"}}
Inside  == {t \in Posters : pc[t] \in {"gate", "push", "link", "wake", "notify", "leave"}}

JsRecord == [pc : JsLabels, refills : Nat, dry : Nat, turned : BOOLEAN, cut : Nat]

VmTypes ==
    /\ state \in {"Open", "Stopping", "Draining", "Closed"}
    /\ js \in JsRecord
    /\ pc \in [Senders \cup {Parent} -> JobLabels \cup PosterLabels \cup {"rouse"}]
    /\ \A j \in Jobs : pc[j] \in JobLabels
    /\ \A t \in Posters : pc[t] \in PosterLabels
    /\ pc[Parent] \in {"idle", "rouse", "done"}
    /\ items \in Seq(Senders)

(* The two counts are of those who hold a ticket and who are inside the gate. *)
CountsExact == tickets = Cardinality(Holders) /\ active = Cardinality(Inside)

(* What is closed stays so, and to whom. *)
StateMatches ==
    /\ state = "Draining" <=> js.pc \in Waiting
    /\ state = "Closed" <=> js.pc \in After
    /\ state = "Closed" => Holders = {}
    /\ js.pc \in Final => \A t \in Posters : pc[t] \notin {"push", "link", "wake", "notify"}
    /\ pc[Parent] = "rouse" => Published

(* The queue: only a thread at its link has one unlinked; the last batch takes
   all there is. *)
QueueMatches ==
    /\ unlinked = {t \in Senders : pc[t] = "link"}
    /\ js.cut # 0 => js.pc \in {"batch", "service", "last-service"}
    /\ js.pc = "last-service" /\ js.cut # 0 => js.cut = Len(items)
    /\ js.pc \in {"last-release", "dead"} => items = <<>>
    /\ js.pc = "dead" => Tasks = <<>>

TeardownInv == VmTypes /\ CountsExact /\ StateMatches /\ QueueMatches

-----------------------------------------------------------------------------
(* The teardown *)

(* Jobs and posters are finitely many. *)
LEMMA VmThreads ==
    /\ \A S \in SUBSET Jobs : IsFiniteSet(S) /\ Cardinality(S) \in Nat
    /\ \A S \in SUBSET Posters : IsFiniteSet(S) /\ Cardinality(S) \in Nat
  BY VmHandleAssumption, FS_Subset, FS_CardinalityType

(* A fresh handle, with no ticket given out and nothing posted, satisfies it. *)
LEMMA TeardownInit == Init => TeardownInv
  <1> SUFFICES ASSUME Init PROVE TeardownInv
    OBVIOUS
  <1>1. VmTypes
    BY VmHandleAssumption
    DEF Init, Q!Init, VmTypes, JsRecord, Senders, JsLabels, JobLabels, PosterLabels
  <1>2. Holders = {} /\ Inside = {}
    BY DEF Init, Holders, Inside, Senders
  <1>3. CountsExact
    BY <1>2, FS_EmptySet DEF Init, CountsExact
  <1>4. StateMatches /\ QueueMatches
    BY <1>2, VmHandleAssumption
    DEF Init, Q!Init, StateMatches, QueueMatches, Waiting, After, Final, Senders
  <1> QED
    BY <1>1, <1>3, <1>4 DEF TeardownInv

(* The record stays one. *)
LEMMA JsTyped == ASSUME VmTypes, JsStep \/ Timeout PROVE js' \in JsRecord
<1>1. js \in JsRecord /\ js.refills + 1 \in Nat /\ js.dry + 1 \in Nat /\ 0 \in Nat /\ 1 \in Nat
  BY DEF VmTypes, JsRecord
<1>2. Len(items) \in Nat
  BY DEF VmTypes
<1>3. CASE \/ Fold \/ AutoTick \/ Poll \/ ForbidScript \/ Drain \/ Peek \/ CountTickets
           \/ AnyMidCall \/ MidCall \/ Wait \/ Destroy \/ Timeout
  <2>1. \E to \in JsLabels : js' = [js EXCEPT !.pc = to]
    BY <1>3 DEF Fold, AutoTick, Poll, ForbidScript, Drain, Peek, CountTickets, AnyMidCall, MidCall,
                Wait, Destroy, Timeout, Js, JsLabels
  <2> QED
    BY <1>1, <2>1 DEF JsRecord
<1>4. CASE Alive \/ BeforeExit \/ Unpublish
  <2>1. \/ \E to \in JsLabels : js' = [js EXCEPT !.pc = to]
        \/ \E to \in JsLabels, b \in BOOLEAN : js' = [js EXCEPT !.pc = to, !.turned = b]
    BY <1>4 DEF Alive, BeforeExit, Unpublish, JsLabels
  <2>2. CASE \E to \in JsLabels : js' = [js EXCEPT !.pc = to]
    BY <1>1, <2>2 DEF JsRecord
  <2>3. CASE \E to \in JsLabels, b \in BOOLEAN : js' = [js EXCEPT !.pc = to, !.turned = b]
    BY <1>1, <2>3 DEF JsRecord
  <2> QED
    BY <2>1, <2>2, <2>3
<1>5. CASE RunDone \/ RunStopped
  <2>1. \E to \in JsLabels, n \in Nat, m \in Nat :
            js' = [js EXCEPT !.pc = to, !.refills = n, !.dry = m]
    BY <1>1, <1>5 DEF RunDone, RunStopped, EndTurn, JsLabels
  <2> QED
    BY <1>1, <2>1 DEF JsRecord
<1>6. CASE RunTask \/ BatchCut \/ ReleaseTask
  <2>1. CASE RunTask
    BY <1>1, <2>1 DEF JsRecord, RunTask
  <2>2. CASE BatchCut
    BY <1>1, <1>2, <2>2 DEF JsRecord, BatchCut
  <2> QED
    BY <1>1, <1>6, <2>1, <2>2 DEF ReleaseTask
<1>7. CASE TickBatch \/ Service \/ LastService
  <2>1. \E to \in JsLabels : js' = [js EXCEPT !.pc = to, !.cut = 0]
    BY <1>7 DEF TickBatch, Service, LastService, Batch, JsLabels
  <2> QED
    BY <1>1, <2>1 DEF JsRecord
<1> QED
  BY <1>3, <1>4, <1>5, <1>6, <1>7 DEF JsStep

(* A step of the VM's thread, within its loop or within the teardown. *)
LEMMA JsMoves == ASSUME TeardownInv, JsStep \/ Timeout PROVE TeardownInv'
<1> USE VmHandleAssumption DEF Js
<1>1. VmTypes /\ CountsExact /\ StateMatches /\ QueueMatches
  BY DEF TeardownInv
<1>2. UNCHANGED <<pc, tickets, active>>
  BY DEF JsStep, Timeout, Fold, BatchCut, TickBatch, Batch, RunTask, Consume, RunDone, RunStopped,
         AutoTick, Poll, Alive, BeforeExit, Unpublish, ForbidScript, Drain, Service, ReleaseTask,
         Peek, CountTickets, AnyMidCall, MidCall, Wait, LastService, Destroy, counts
<1>3. Holders' = Holders /\ Inside' = Inside /\ CountsExact'
  BY <1>1, <1>2 DEF Holders, Inside, CountsExact
<1>js. /\ js \in JsRecord /\ js' \in JsRecord
       /\ js.pc \in JsLabels /\ js'.pc \in JsLabels /\ js.cut \in Nat /\ js'.cut \in Nat
  BY <1>1, JsTyped DEF VmTypes, JsRecord
<1>k. ASSUME items' \in Seq(Senders), state' \in {"Open", "Stopping", "Draining", "Closed"}
      PROVE  VmTypes'
  BY <1>1, <1>2, <1>js, <1>k DEF VmTypes
(* Steps of the loop. *)
<1>5. CASE Fold \/ RunDone \/ RunStopped \/ AutoTick \/ Poll \/ Alive \/ BeforeExit
  <2>1. /\ UNCHANGED <<state, items, unlinked>>
        /\ js.pc \in {"fold", "run", "auto-tick", "poll", "sleep", "alive", "before-exit"}
        /\ js'.pc \in {"batch", "fold", "auto-tick", "poll", "sleep", "unpublish", "alive",
                       "before-exit"}
        /\ js'.cut = js.cut
    BY <1>js, <1>5, ZenonT(40)
    DEF JsRecord, Fold, RunDone, RunStopped, EndTurn, AutoTick, Poll, Alive, BeforeExit, queue
  <2>2. StateMatches' /\ QueueMatches'
    BY <1>1, <1>2, <1>3, <2>1
    DEF StateMatches, QueueMatches, Waiting, After, Final, Published
  <2> QED
    BY <1>1, <1>3, <1>k, <2>1, <2>2 DEF TeardownInv, VmTypes
<1>6. CASE BatchCut
  <2>1. /\ UNCHANGED <<state, items, unlinked>> /\ js'.pc = js.pc /\ js'.cut = Len(items)
        /\ js.pc \in {"batch", "service", "last-service"}
    BY <1>js, <1>6 DEF JsRecord, BatchCut, queue
  <2>2. StateMatches' /\ QueueMatches'
    BY <1>1, <1>2, <1>3, <2>1 DEF StateMatches, QueueMatches, Published
  <2> QED
    BY <1>1, <1>3, <1>k, <2>1, <2>2 DEF TeardownInv, VmTypes
<1>7. ASSUME Q!Take(js.cut) \/ Q!PopEmpty PROVE items' \in Seq(Senders) /\ UNCHANGED unlinked
  <2>1. SubSeq(items, js.cut + 1, Len(items)) \in Seq(Senders)
    BY <1>1, <1>js DEF VmTypes
  <2> QED
    BY <1>1, <1>7, <2>1 DEF Q!Take, Q!PopEmpty, VmTypes
<1>8. CASE TickBatch \/ Service
  <2>1. /\ UNCHANGED state /\ items' \in Seq(Senders) /\ UNCHANGED unlinked
        /\ \/ js.pc = "batch" /\ js'.pc = "run"
           \/ js.pc = "service" /\ js'.pc = "release"
        /\ js'.cut = 0
    BY <1>js, <1>7, <1>8 DEF JsRecord, TickBatch, Service, Batch
  <2>2. StateMatches' /\ QueueMatches'
    BY <1>1, <1>2, <1>3, <2>1
    DEF StateMatches, QueueMatches, Waiting, After, Final, Published
  <2> QED
    BY <1>1, <1>3, <1>k, <2>1, <2>2 DEF TeardownInv, VmTypes
<1>9. CASE LastService
  <2>1. /\ UNCHANGED state /\ items' \in Seq(Senders) /\ UNCHANGED unlinked
        /\ js.pc = "last-service" /\ js'.pc = "last-release" /\ js'.cut = 0
        /\ (js.cut > 0 /\ Q!Take(js.cut)) \/ (js.cut = 0 /\ Q!PopEmpty)
    BY <1>js, <1>7, <1>9 DEF JsRecord, LastService, Batch
  <2>2. unlinked = {}
    <3>1. \A j \in Jobs : pc[j] # "link"
      BY <1>1, <2>1 DEF StateMatches, After, Final, Holders
    <3>2. \A t \in Posters : pc[t] # "link"
      BY <1>1, <2>1 DEF StateMatches, Final
    <3> QED
      BY <1>1, <3>1, <3>2 DEF QueueMatches, Senders
  <2>3. items' = <<>>
    <3>1. CASE js.cut > 0
      <4>1. items' = SubSeq(items, Len(items) + 1, Len(items))
        BY <1>1, <2>1, <3>1 DEF QueueMatches, Q!Take
      <4> QED
        BY <1>1, <4>1 DEF VmTypes
    <3>2. CASE js.cut = 0
      BY <2>1, <2>2, <3>2 DEF Q!PopEmpty
    <3> QED
      BY <1>js, <3>1, <3>2
  <2>4. StateMatches' /\ QueueMatches'
    BY <1>1, <1>2, <1>3, <2>1, <2>3
    DEF StateMatches, QueueMatches, Waiting, After, Final, Published
  <2> QED
    BY <1>1, <1>3, <1>k, <2>1, <2>4 DEF TeardownInv, VmTypes
<1>10. CASE RunTask \/ ReleaseTask
  <2>1. /\ UNCHANGED <<state, items, unlinked>> /\ js'.pc = js.pc /\ js'.cut = js.cut
        /\ js.pc \in {"run", "release", "last-release"}
    BY <1>js, <1>10 DEF JsRecord, RunTask, ReleaseTask, Consume
  <2>2. StateMatches' /\ QueueMatches'
    BY <1>1, <1>2, <1>3, <2>1 DEF StateMatches, QueueMatches, Published
  <2> QED
    BY <1>1, <1>3, <1>k, <2>1, <2>2 DEF TeardownInv, VmTypes
(* The way out of the loop, up to the teardown's wait. *)
<1>11. CASE Unpublish \/ ForbidScript \/ Drain
  <2>1. /\ UNCHANGED <<items, unlinked>> /\ js'.cut = js.cut
        /\ \/ /\ js.pc = "unpublish" /\ js'.pc = "exit" /\ state' = state
              /\ pc[Parent] # "rouse"
           \/ js.pc = "exit" /\ js'.pc = "drain" /\ state' = Stopped
           \/ js.pc = "drain" /\ js'.pc = "service" /\ state' = "Draining"
    BY <1>js, <1>11 DEF JsRecord, Unpublish, ForbidScript, Drain, queue
  <2>2. state' \in {"Open", "Stopping", "Draining", "Closed"}
    BY <1>1, <2>1 DEF VmTypes, Stopped
  <2>3. StateMatches' /\ QueueMatches'
    BY <1>1, <1>2, <1>3, <2>1
    DEF StateMatches, QueueMatches, Stopped, Waiting, After, Final, Published
  <2> QED
    BY <1>1, <1>3, <1>k, <2>1, <2>2, <2>3 DEF TeardownInv, VmTypes
<1>12. CASE Peek \/ Wait \/ Timeout
  <2>1. /\ UNCHANGED <<state, items, unlinked>> /\ js'.cut = js.cut
        /\ \/ /\ js.pc \in {"release", "sleep-tickets", "wait"}
              /\ js'.pc \in {"count", "service", "wait"}
           \/ js.pc = "sleep-calls" /\ js'.pc = "wait-calls"
    BY <1>js, <1>12 DEF JsRecord, Peek, Wait, Timeout, queue
  <2>2. StateMatches' /\ QueueMatches'
    BY <1>1, <1>2, <1>3, <2>1
    DEF StateMatches, QueueMatches, Waiting, After, Final, Published
  <2> QED
    BY <1>1, <1>3, <1>k, <2>1, <2>2 DEF TeardownInv, VmTypes
(* Closed is published only when no ticket is out. *)
<1>13. CASE CountTickets
  <2>1. /\ UNCHANGED <<items, unlinked>> /\ js'.cut = js.cut /\ js.pc = "count"
        /\ \/ tickets = 0 /\ state' = "Closed" /\ js'.pc = "closed"
           \/ state' = state /\ js'.pc = "sleep-tickets"
    BY <1>js, <1>13 DEF JsRecord, CountTickets, queue
  <2>2. tickets = 0 => Holders = {}
    BY <1>1, VmThreads, FS_EmptySet DEF CountsExact, Holders
  <2>3. StateMatches' /\ QueueMatches'
    BY <1>1, <1>2, <1>3, <2>1, <2>2
    DEF StateMatches, QueueMatches, Waiting, After, Final, Published
  <2> QED
    BY <1>1, <1>3, <1>k, <2>1, <2>3 DEF TeardownInv, VmTypes
(* And the last service begins only when nobody is inside the gate. *)
<1>14. CASE AnyMidCall \/ MidCall
  <2>1. /\ UNCHANGED <<state, items, unlinked>> /\ js'.cut = js.cut
        /\ js.pc \in {"closed", "mid-call"}
        /\ \/ active = 0 /\ js'.pc = "last-service"
           \/ js'.pc \in {"mid-call", "sleep-calls"}
    BY <1>js, <1>14 DEF JsRecord, AnyMidCall, MidCall, queue
  <2>2. active = 0 => Inside = {}
    BY <1>1, VmThreads, FS_EmptySet DEF CountsExact, Inside
  <2>3. active = 0 => \A t \in Posters : pc[t] \notin {"push", "link", "wake", "notify"}
    BY <2>2 DEF Inside
  <2>4. StateMatches' /\ QueueMatches'
    BY <1>1, <1>2, <1>3, <2>1, <2>3
    DEF StateMatches, QueueMatches, Waiting, After, Final, Published
  <2> QED
    BY <1>1, <1>3, <1>k, <2>1, <2>4 DEF TeardownInv, VmTypes
<1>15. CASE Destroy
  <2>1. /\ UNCHANGED <<state, items, unlinked, tasks, out>> /\ js'.cut = js.cut /\ Tasks = <<>>
        /\ js.pc = "last-release" /\ js'.pc = "dead"
    BY <1>js, <1>15 DEF JsRecord, Destroy, queue
  <2>2. StateMatches' /\ QueueMatches'
    BY <1>1, <1>2, <1>3, <2>1
    DEF StateMatches, QueueMatches, Tasks, Waiting, After, Final, Published
  <2> QED
    BY <1>1, <1>3, <1>k, <2>1, <2>2 DEF TeardownInv, VmTypes
<1> QED
  BY <1>5, <1>6, <1>8, <1>9, <1>10, <1>11, <1>12, <1>13, <1>14, <1>15 DEF JsStep

(* What the other threads do, and the work that is handed to them. *)
OtherMove ==
    \/ OtherStep \/ RequestTermination
    \/ \E j \in Jobs : Issue(j)
    \/ \E t \in Posters : Enter(t)

(* The steps of the jobs and of the posters keep it. *)
LEMMA OtherMoves == ASSUME TeardownInv, OtherMove PROVE TeardownInv'
<1> USE VmHandleAssumption DEF Go, Senders, JobLabels, PosterLabels
<1>1. VmTypes /\ CountsExact /\ StateMatches /\ QueueMatches
  BY DEF TeardownInv
<1>fin. /\ IsFiniteSet(Holders) /\ Cardinality(Holders) \in Nat
        /\ IsFiniteSet(Inside) /\ Cardinality(Inside) \in Nat
  BY VmThreads DEF Holders, Inside
(* deliver *)
<1>2. ASSUME NEW t \in Senders, Push(t) PROVE TeardownInv'
  <2>1. /\ UNCHANGED <<state, tickets, active, js>> /\ pc[t] = "push"
        /\ pc' = [pc EXCEPT ![t] = "link"]
        /\ items' = Append(items, t) /\ unlinked' = unlinked \cup {t}
    BY <1>2 DEF Push, Q!Push, counts
  <2>2. Holders' = Holders /\ Inside' = Inside
    BY <1>1, <2>1 DEF VmTypes, Holders, Inside
  <2>3. js.pc \notin Final
    BY <1>1, <2>1 DEF StateMatches, Holders, After, Final
  <2>4. VmTypes' /\ CountsExact'
    BY <1>1, <2>1, <2>2 DEF VmTypes, CountsExact
  <2>5. StateMatches' /\ QueueMatches'
    BY <1>1, <2>1, <2>2, <2>3 DEF VmTypes, StateMatches, QueueMatches, Published, Final, Tasks
  <2> QED
    BY <2>4, <2>5 DEF TeardownInv
<1>3. ASSUME NEW t \in Senders, Link(t) PROVE TeardownInv'
  <2>1. /\ UNCHANGED <<state, tickets, active, js, items, tasks, out>> /\ pc[t] = "link"
        /\ pc' = [pc EXCEPT ![t] = "wake"] /\ unlinked' = unlinked \ {t}
    BY <1>3 DEF Link, Q!Link, counts
  <2>2. Holders' = Holders /\ Inside' = Inside
    BY <1>1, <2>1 DEF VmTypes, Holders, Inside
  <2>3. js.pc \notin Final
    BY <1>1, <2>1 DEF StateMatches, Holders, After, Final
  <2>4. VmTypes' /\ CountsExact'
    BY <1>1, <2>1, <2>2 DEF VmTypes, CountsExact
  <2>5. StateMatches' /\ QueueMatches'
    BY <1>1, <2>1, <2>2, <2>3 DEF VmTypes, StateMatches, QueueMatches, Published, Final, Tasks
  <2> QED
    BY <2>4, <2>5 DEF TeardownInv
(* A thread goes on, and neither takes nor gives back a ticket or an access. *)
<1>4. ASSUME NEW t \in Senders, NEW to,
             UNCHANGED <<state, tickets, active, items, unlinked, tasks, out>>,
             js' = js \/ /\ js.pc = "wait" /\ js' = [js EXCEPT !.pc = "service"]
                      \/ /\ js.pc = "wait-calls" /\ js' = [js EXCEPT !.pc = "mid-call"],
             pc' = [pc EXCEPT ![t] = to], pc[t] # "link",
             \/ t \in Jobs /\ pc[t] \in {"wake", "notify", "unref"} /\ to \in {"notify", "unref", "drop"}
             \/ t \in Jobs /\ pc[t] \in {"last-ticket", "last-notify"} /\ to \in {"last-notify", "done"}
             \/ t \in Posters /\ pc[t] \in {"wake", "notify"} /\ to \in {"notify", "leave"}
             \/ t \in Posters /\ pc[t] \in {"last-out", "last-notify"} /\ to \in {"last-notify", "done"}
             \/ t \in Posters /\ pc[t] = "gate" /\ to = (IF state = "Closed" THEN "leave" ELSE "push")
      PROVE  TeardownInv'
  <2>1. Holders' = Holders /\ Inside' = Inside
    BY <1>1, <1>4 DEF VmTypes, Holders, Inside
  <2>2. /\ js' \in JsRecord /\ js'.cut = js.cut
        /\ js'.pc = js.pc \/ (js.pc = "wait" /\ js'.pc = "service")
                         \/ (js.pc = "wait-calls" /\ js'.pc = "mid-call")
    BY <1>1, <1>4 DEF VmTypes, JsRecord, JsLabels
  <2>3. VmTypes' /\ CountsExact'
    BY <1>1, <1>4, <2>1, <2>2 DEF VmTypes, CountsExact
  <2>4. StateMatches'
    BY <1>1, <1>4, <2>1, <2>2 DEF VmTypes, StateMatches, Published, Waiting, After, Final
  <2>5. QueueMatches'
    BY <1>1, <1>4, <2>2 DEF VmTypes, QueueMatches, Tasks
  <2> QED
    BY <2>3, <2>4, <2>5 DEF TeardownInv
<1>5. ASSUME NEW t \in Senders, Wake(t) \/ Notify(t) \/ LastNotify(t) PROVE TeardownInv'
  <2>1. /\ UNCHANGED <<state, tickets, active, items, unlinked, tasks, out>>
        /\ js' = js \/ /\ js.pc = "wait" /\ js' = [js EXCEPT !.pc = "service"]
                    \/ /\ js.pc = "wait-calls" /\ js' = [js EXCEPT !.pc = "mid-call"]
    BY <1>1, <1>5 DEF Wake, Notify, LastNotify, NotifyTo, counts, queue, VmTypes, JsRecord
  <2>2. CASE Wake(t)
    BY <1>4, <2>1, <2>2 DEF Wake, Delivered
  <2>3. CASE Notify(t)
    BY <1>4, <2>1, <2>3 DEF Notify, NotifyTo, Delivered
  <2>4. CASE LastNotify(t)
    BY <1>4, <2>1, <2>4 DEF LastNotify, NotifyTo
  <2> QED
    BY <1>5, <2>2, <2>3, <2>4
<1>6. ASSUME NEW j \in Jobs, Unref(j) \/ LastTicket(j) PROVE TeardownInv'
  <2>1. CASE Unref(j)
    BY <1>4, <2>1 DEF Unref, counts, queue
  <2>2. CASE LastTicket(j)
    BY <1>4, <2>2 DEF LastTicket, counts, queue
  <2> QED
    BY <1>6, <2>1, <2>2
<1>7. ASSUME NEW t \in Posters, Gate(t) \/ LastOut(t) PROVE TeardownInv'
  <2>1. CASE Gate(t)
    BY <1>4, <2>1 DEF Gate, counts, queue
  <2>2. CASE LastOut(t)
    BY <1>4, <2>2 DEF LastOut, counts, queue
  <2> QED
    BY <1>7, <2>1, <2>2
(* Tickets and accesses. *)
<1>8. ASSUME NEW j \in Jobs, Drop(j) PROVE TeardownInv'
  <2>1. /\ UNCHANGED <<state, active, js, items, unlinked, tasks, out>> /\ pc[j] = "drop"
        /\ tickets' = tickets - 1
        /\ \E to \in {"last-ticket", "done"} : pc' = [pc EXCEPT ![j] = to]
    BY <1>8 DEF Drop, queue
  <2>2. Holders' = Holders \ {j} /\ j \in Holders /\ Inside' = Inside
    BY <1>1, <2>1 DEF VmTypes, Holders, Inside
  <2>3. Cardinality(Holders') = Cardinality(Holders) - 1
    BY <2>2, <1>fin, FS_RemoveElement
  <2>4. VmTypes' /\ CountsExact'
    BY <1>1, <2>1, <2>2, <2>3 DEF VmTypes, CountsExact
  <2>5. StateMatches' /\ QueueMatches'
    BY <1>1, <2>1, <2>2 DEF VmTypes, StateMatches, QueueMatches, Published, Tasks
  <2> QED
    BY <2>4, <2>5 DEF TeardownInv
<1>9. ASSUME NEW j \in Jobs, Issue(j) PROVE TeardownInv'
  <2>1. /\ UNCHANGED <<state, active, js, items, unlinked, tasks, out>> /\ pc[j] = "idle"
        /\ tickets' = tickets + 1 /\ pc' = [pc EXCEPT ![j] = "push"] /\ MayIssue
    BY <1>9 DEF Issue, queue
  <2>2. state # "Closed"
    BY <1>1, <2>1 DEF MayIssue, StateMatches, Waiting, After, Final
  <2>3. Holders' = Holders \cup {j} /\ j \notin Holders /\ Inside' = Inside
    BY <1>1, <2>1 DEF VmTypes, Holders, Inside
  <2>4. Cardinality(Holders') = Cardinality(Holders) + 1
    BY <2>3, <1>fin, FS_AddElement
  <2>5. VmTypes' /\ CountsExact'
    BY <1>1, <2>1, <2>3, <2>4 DEF VmTypes, CountsExact
  <2>6. StateMatches' /\ QueueMatches'
    BY <1>1, <2>1, <2>2, <2>3 DEF VmTypes, StateMatches, QueueMatches, Published, Tasks
  <2> QED
    BY <2>5, <2>6 DEF TeardownInv
<1>10. ASSUME NEW t \in Posters, Enter(t) PROVE TeardownInv'
  <2>1. /\ UNCHANGED <<state, tickets, js, items, unlinked, tasks, out>> /\ pc[t] = "idle"
        /\ active' = active + 1 /\ pc' = [pc EXCEPT ![t] = "gate"]
    BY <1>10 DEF Enter, queue
  <2>2. Inside' = Inside \cup {t} /\ t \notin Inside /\ Holders' = Holders
    BY <1>1, <2>1 DEF VmTypes, Holders, Inside
  <2>3. Cardinality(Inside') = Cardinality(Inside) + 1
    BY <2>2, <1>fin, FS_AddElement
  <2>4. VmTypes' /\ CountsExact'
    BY <1>1, <2>1, <2>2, <2>3 DEF VmTypes, CountsExact
  <2>5. StateMatches' /\ QueueMatches'
    BY <1>1, <2>1, <2>2 DEF VmTypes, StateMatches, QueueMatches, Published, Tasks
  <2> QED
    BY <2>4, <2>5 DEF TeardownInv
<1>11. ASSUME NEW t \in Posters, Leave(t) PROVE TeardownInv'
  <2>1. /\ UNCHANGED <<state, tickets, js, items, unlinked, tasks, out>> /\ pc[t] = "leave"
        /\ active' = active - 1
        /\ \E to \in {"last-out", "done"} : pc' = [pc EXCEPT ![t] = to]
    BY <1>11 DEF Leave, queue
  <2>2. Inside' = Inside \ {t} /\ t \in Inside /\ Holders' = Holders
    BY <1>1, <2>1 DEF VmTypes, Holders, Inside
  <2>3. Cardinality(Inside') = Cardinality(Inside) - 1
    BY <2>2, <1>fin, FS_RemoveElement
  <2>4. VmTypes' /\ CountsExact'
    BY <1>1, <2>1, <2>2, <2>3 DEF VmTypes, CountsExact
  <2>5. StateMatches' /\ QueueMatches'
    BY <1>1, <2>1, <2>2 DEF VmTypes, StateMatches, QueueMatches, Published, Tasks
  <2> QED
    BY <2>4, <2>5 DEF TeardownInv
(* The parent *)
<1>12. ASSUME RequestTermination \/ Rouse PROVE TeardownInv'
  <2>1. /\ UNCHANGED <<tickets, active, js, items, unlinked, tasks, out>>
        /\ \/ Published /\ state' = Stopped /\ pc' = [pc EXCEPT ![Parent] = "rouse"]
           \/ state' = state /\ pc' = [pc EXCEPT ![Parent] = "done"]
    BY <1>12 DEF RequestTermination, Rouse, counts, queue
  <2>2. Holders' = Holders /\ Inside' = Inside
    BY <1>1, <2>1 DEF VmTypes, Holders, Inside
  <2>3. VmTypes' /\ CountsExact'
    BY <1>1, <2>1, <2>2 DEF VmTypes, CountsExact, Stopped
  <2>4. StateMatches' /\ QueueMatches'
    BY <1>1, <2>1, <2>2
    DEF VmTypes, StateMatches, QueueMatches, Published, Stopped, Waiting, After, Final, Tasks
  <2> QED
    BY <2>3, <2>4 DEF TeardownInv
<1>13. ASSUME NEW j \in Jobs, JobStep(j) PROVE TeardownInv'
  BY <1>13, <1>2, <1>3, <1>5, <1>6, <1>8 DEF JobStep, Deliver
<1>14. ASSUME NEW t \in Posters, PosterStep(t) PROVE TeardownInv'
  BY <1>14, <1>2, <1>3, <1>5, <1>7, <1>11 DEF PosterStep, Deliver
<1> QED
  BY <1>9, <1>10, <1>12, <1>13, <1>14 DEF OtherMove, OtherStep

(* So does every step. *)
LEMMA TeardownStep == TeardownInv /\ [Next]_vars => TeardownInv'
  <1> SUFFICES ASSUME TeardownInv, [Next]_vars PROVE TeardownInv'
    OBVIOUS
  <1>1. CASE UNCHANGED vars
    BY <1>1 DEF vars, counts, queue, TeardownInv, VmTypes, CountsExact, StateMatches, QueueMatches,
                Holders, Inside, Published, Tasks
  <1> QED
    BY <1>1, JsMoves, OtherMoves DEF Next, OtherMove

(* Whatever the number of jobs and posters and whoever comes late: once the
   teardown is past its wait nobody is about to touch the VM's queue, its loop or
   its keep-alive, no ticket outlives Closed, and the VM is freed with an empty
   queue. *)
THEOREM TeardownIsFinal == Spec => []NothingAfterTeardown
<1>1. TeardownInv => NothingAfterTeardown
  <2> SUFFICES ASSUME TeardownInv PROVE NothingAfterTeardown
    OBVIOUS
  <2>1. VmTypes /\ StateMatches /\ QueueMatches
    BY DEF TeardownInv
  <2>2. state = "Closed" => \A j \in Jobs : pc[j] \in {"idle", "last-ticket", "last-notify", "done"}
    BY <2>1 DEF VmTypes, StateMatches, Holders, JobLabels
  <2>3. js.pc \in Final => \A t \in Senders \cup {Parent} :
            pc[t] \notin {"push", "link", "wake", "unref", "rouse"}
    BY <2>1, <2>2 DEF VmTypes, StateMatches, Final, After, Senders, PosterLabels, Published
  <2> QED
    BY <2>1, <2>2, <2>3 DEF NothingAfterTeardown, QueueMatches, Final
<1> QED
  BY <1>1, TeardownInit, TeardownStep, PTL DEF Spec

-----------------------------------------------------------------------------
(* A natural exit *)

Distinct(s) == \A i, k \in 1..Len(s) : s[i] = s[k] => i = k

(* The jobs that the keep-alive stands for: until the pool's thread, or the loop
   with the completion, gives it back. *)
KeptAlive ==
    {j \in Jobs : IF Kept[j] = "pool"
                  THEN pc[j] \in {"push", "link", "wake", "notify", "unref"}
                  ELSE pc[j] # "idle" /\ fate[j] \notin {"run", "released"}}

KeepAliveExact ==
    refs \in Nat /\ concurrentRef \in Int /\ refs + concurrentRef = Cardinality(KeptAlive)

(* What is queued is once in one of the three lists, and nothing else is. *)
OncePerTask ==
    /\ tasks \in Seq(Senders) /\ out \in Seq(Senders)
    /\ Distinct(tasks) /\ Distinct(out) /\ Distinct(items)
    /\ Range(tasks) \cap Range(out) = {} /\ Range(tasks) \cap Range(items) = {}
    /\ Range(out) \cap Range(items) = {}
    /\ Range(tasks) \cup Range(out) \cup Range(items) = {t \in Senders : fate[t] = "queued"}
    /\ js.cut <= Len(items)

FatesMatch ==
    /\ fate \in [Senders -> {"none", "queued", "run", "released", "refused"}]
    /\ \A t \in Senders : pc[t] \in {"idle", "gate", "push"} => fate[t] = "none"
    /\ \A j \in Jobs : pc[j] \notin {"idle", "push"} => fate[j] \in {"queued", "run", "released"}
    /\ \A j \in Jobs : pc[j] = "unref" => Kept[j] = "pool"
    /\ state = "Open" => \A j \in Jobs : fate[j] # "released"

ExitInv == KeepAliveExact /\ OncePerTask /\ FatesMatch /\ NaturalExitRunsAll

(* Lists without repetition: what joining, cutting, adding and taking do. *)
LEMMA InRange ==
    ASSUME NEW S, NEW s \in Seq(S), NEW e
    PROVE  e \in Range(s) <=> (\E i \in 1..Len(s) : s[i] = e)
<1>1. DOMAIN s = 1..Len(s)
  OBVIOUS
<1>2. e \in Range(s) <=> \E i \in DOMAIN s : s[i] = e
  BY Zenon DEF Range
<1> QED
  BY <1>1, <1>2, Zenon

(* Two lists with no element twice and none in common, one after the other. *)
LEMMA JoinDistinct ==
    ASSUME NEW S, NEW s \in Seq(S), NEW t \in Seq(S), Distinct(s), Distinct(t),
           Range(s) \cap Range(t) = {}
    PROVE  s \o t \in Seq(S) /\ Distinct(s \o t) /\ Range(s \o t) = Range(s) \cup Range(t)
<1>1. /\ s \o t \in Seq(S) /\ Len(s \o t) = Len(s) + Len(t)
      /\ \A i \in 1..(Len(s) + Len(t)) : (s \o t)[i] = IF i <= Len(s) THEN s[i] ELSE t[i - Len(s)]
  OBVIOUS
<1>2. \A i \in 1..Len(s), k \in 1..Len(t) : s[i] # t[k]
  BY DEF Range
<1>3. Distinct(s \o t)
  BY <1>1, <1>2 DEF Distinct
<1>4. Range(s \o t) = Range(s) \cup Range(t)
  BY RangeConcatenation
<1> QED
  BY <1>1, <1>3, <1>4

(* A list with no element twice, cut in two. *)
LEMMA CutDistinct ==
    ASSUME NEW S, NEW s \in Seq(S), NEW k \in 0..Len(s), Distinct(s)
    PROVE  LET p == SubSeq(s, 1, k)
               r == SubSeq(s, k + 1, Len(s))
           IN  /\ p \in Seq(S) /\ r \in Seq(S) /\ Distinct(p) /\ Distinct(r)
               /\ Range(p) \cap Range(r) = {} /\ Range(p) \cup Range(r) = Range(s)
<1> DEFINE p == SubSeq(s, 1, k)
           r == SubSeq(s, k + 1, Len(s))
<1>1. p \in Seq(S) /\ Len(p) = k /\ \A i \in 1..k : p[i] = s[i]
  OBVIOUS
<1>2. r \in Seq(S) /\ Len(r) = Len(s) - k /\ \A i \in 1..(Len(s) - k) : r[i] = s[k + i]
  OBVIOUS
<1>len. Len(s) \in Nat /\ k \in Nat /\ k <= Len(s)
  OBVIOUS
<1> HIDE DEF p, r
<1>3. Distinct(p) /\ Distinct(r)
  <2>1. \A i \in 1..k : i \in 1..Len(s)
    BY <1>len
  <2>2. Distinct(p)
    BY <1>1, <2>1 DEF Distinct
  <2>3. \A i \in 1..(Len(s) - k) : k + i \in 1..Len(s)
    BY <1>len
  <2>4. \A i, n \in 1..(Len(s) - k) : k + i = k + n => i = n
    BY <1>len
  <2>5. Distinct(r)
    BY <1>2, <2>3, <2>4 DEF Distinct
  <2> QED
    BY <2>2, <2>5
<1>4. ASSUME NEW e \in Range(p), e \in Range(r) PROVE FALSE
  <2>1. PICK i \in 1..k : s[i] = e
    BY <1>1, <1>4, InRange
  <2>2. PICK n \in 1..(Len(s) - k) : s[k + n] = e
    BY <1>2, <1>4, InRange
  <2>3. i \in 1..Len(s) /\ k + n \in 1..Len(s) /\ i # k + n
    BY <1>len
  <2> QED
    BY <2>1, <2>2, <2>3 DEF Distinct
<1>5. \A i \in 1..Len(s) : i \in 1..k \/ (i - k \in 1..(Len(s) - k) /\ k + (i - k) = i)
  OBVIOUS
<1>6. /\ \A i \in 1..k : i \in 1..Len(s)
      /\ \A i \in 1..(Len(s) - k) : k + i \in 1..Len(s)
  OBVIOUS
<1>7. ASSUME NEW e \in Range(s) PROVE e \in Range(p) \cup Range(r)
  <2>1. PICK i \in 1..Len(s) : s[i] = e
    BY InRange
  <2>2. CASE i \in 1..k
    BY <1>1, <2>1, <2>2, InRange
  <2>3. CASE i - k \in 1..(Len(s) - k) /\ k + (i - k) = i
    <3>1. r[i - k] = e
      BY <1>2, <2>1, <2>3
    <3> QED
      BY <1>2, <2>3, <3>1, InRange
  <2> QED
    BY <1>5, <2>2, <2>3
<1>8. Range(p) \subseteq Range(s) /\ Range(r) \subseteq Range(s)
  BY <1>1, <1>2, <1>6, InRange
<1> QED
  BY <1>1, <1>2, <1>3, <1>4, <1>7, <1>8 DEF p, r

(* Adding a new element at the end of such a list. *)
LEMMA AddDistinct ==
    ASSUME NEW S, NEW s \in Seq(S), NEW e \in S, Distinct(s), e \notin Range(s)
    PROVE  /\ Append(s, e) \in Seq(S) /\ Distinct(Append(s, e))
           /\ Range(Append(s, e)) = Range(s) \cup {e}
<1>1. /\ Append(s, e) \in Seq(S) /\ Len(Append(s, e)) = Len(s) + 1
      /\ \A i \in 1..Len(s) : Append(s, e)[i] = s[i] /\ s[i] # e
      /\ Append(s, e)[Len(s) + 1] = e
  BY DEF Range
<1>2. \A i \in 1..(Len(s) + 1) : i \in 1..Len(s) \/ i = Len(s) + 1
  OBVIOUS
<1>3. \A i \in 1..Len(s) : i \in 1..(Len(s) + 1)
  OBVIOUS
<1>4. Distinct(Append(s, e))
  BY <1>1, <1>2 DEF Distinct
<1>5. Range(Append(s, e)) = Range(s) \cup {e}
  BY <1>1, <1>2, <1>3 DEF Range
<1> QED
  BY <1>1, <1>4, <1>5

(* Taking the first element of such a list off. *)
LEMMA TakeDistinct ==
    ASSUME NEW S, NEW s \in Seq(S), s # <<>>, Distinct(s)
    PROVE  /\ Tail(s) \in Seq(S) /\ Distinct(Tail(s)) /\ Head(s) \in Range(s)
           /\ Range(Tail(s)) = Range(s) \ {Head(s)}
<1>1. /\ Tail(s) \in Seq(S) /\ Len(Tail(s)) = Len(s) - 1 /\ Head(s) = s[1] /\ 1 \in 1..Len(s)
      /\ \A i \in 1..(Len(s) - 1) : Tail(s)[i] = s[i + 1]
  OBVIOUS
<1>2. Distinct(Tail(s))
  BY <1>1 DEF Distinct
<1>3. \A i \in 1..(Len(s) - 1) : i + 1 \in 1..Len(s) /\ i + 1 # 1
  OBVIOUS
<1>4. \A i \in 1..Len(s) : i = 1 \/ (i - 1 \in 1..(Len(s) - 1) /\ (i - 1) + 1 = i)
  OBVIOUS
<1>5. Range(Tail(s)) \subseteq Range(s) \ {Head(s)}
  BY <1>1, <1>3 DEF Distinct, Range
<1>6. ASSUME NEW e \in Range(s), e # Head(s) PROVE e \in Range(Tail(s))
  <2>1. PICK i \in 1..Len(s) : s[i] = e
    BY InRange
  <2>2. i - 1 \in 1..(Len(s) - 1) /\ (i - 1) + 1 = i
    BY <1>1, <1>4, <1>6, <2>1
  <2>3. Tail(s)[i - 1] = e
    BY <1>1, <2>1, <2>2
  <2> QED
    BY <1>1, <2>2, <2>3, InRange
<1>7. Head(s) \in Range(s)
  BY <1>1, InRange
<1> QED
  BY <1>1, <1>2, <1>5, <1>6, <1>7

(* Nothing has been queued or run at the start. *)
LEMMA ExitInit == Init => ExitInv
<1> SUFFICES ASSUME Init PROVE ExitInv
  OBVIOUS
<1> USE VmHandleAssumption
<1>1. KeptAlive = {}
  BY DEF Init, KeptAlive, Senders
<1>2. KeepAliveExact
  BY <1>1, FS_EmptySet DEF Init, KeepAliveExact
<1>3. FatesMatch
  BY DEF Init, FatesMatch, Senders
<1>4. Range(<<>>) = {}
  BY DEF Range
<1>5. /\ tasks = <<>> /\ out = <<>> /\ items = <<>> /\ js.cut = 0
      /\ \A t \in Senders : fate[t] # "queued"
  BY DEF Init, Q!Init
<1>6. OncePerTask
  BY <1>4, <1>5 DEF OncePerTask, Distinct
<1> QED
  BY <1>2, <1>3, <1>6 DEF ExitInv, NaturalExitRunsAll, Init

(* A step that leaves the tasks, the threads and the keep-alive alone. *)
LEMMA ExitStutter ==
    ASSUME ExitInv, UNCHANGED <<pc, fate, keep, items, tasks, out>>,
           js'.cut <= Len(items), state' = "Open" => state = "Open", NaturalExitRunsAll'
    PROVE  ExitInv'
<1>1. KeptAlive' = KeptAlive
  BY DEF KeptAlive
<1>2. KeepAliveExact'
  BY <1>1 DEF ExitInv, KeepAliveExact, keep
<1>3. OncePerTask'
  BY DEF ExitInv, OncePerTask, Distinct
<1>4. FatesMatch'
  BY DEF ExitInv, FatesMatch
<1> QED
  BY <1>2, <1>3, <1>4 DEF ExitInv

(* The JavaScript thread's steps keep the account of the tasks. *)
LEMMA ExitJsMoves == ASSUME TeardownInv, ExitInv, JsStep \/ Timeout PROVE ExitInv'
<1> USE VmHandleAssumption DEF Js
<1>1. /\ VmTypes /\ StateMatches /\ QueueMatches
      /\ KeepAliveExact /\ OncePerTask /\ FatesMatch /\ NaturalExitRunsAll
  BY DEF TeardownInv, ExitInv
<1>2. UNCHANGED pc
  BY DEF JsStep, Timeout, Fold, BatchCut, TickBatch, Batch, RunTask, Consume, RunDone, RunStopped,
         AutoTick, Poll, Alive, BeforeExit, Unpublish, ForbidScript, Drain, Service, ReleaseTask,
         Peek, CountTickets, AnyMidCall, MidCall, Wait, LastService, Destroy
<1>js. /\ js \in JsRecord /\ js' \in JsRecord /\ js.cut \in Nat
  BY <1>1, JsTyped DEF VmTypes, JsRecord
<1>kept. IsFiniteSet(KeptAlive) /\ Cardinality(KeptAlive) \in Nat
  BY VmThreads DEF KeptAlive
(* The loop: it goes to its exit by itself only when nothing keeps it alive. *)
<1>3. CASE Alive
  <2>1. /\ UNCHANGED <<state, fate, keep, items, tasks, out>> /\ js'.cut = js.cut
        /\ \/ state # "Open" \/ js'.pc # "unpublish" \/ ~IsEventLoopAlive
    BY <1>js, <1>3 DEF JsRecord, Alive, queue
  <2>2. ASSUME state = "Open", ~IsEventLoopAlive, NEW j \in Jobs, pc[j] # "idle"
        PROVE  fate[j] = "run"
    <3>1. refs = 0 /\ concurrentRef <= 0 /\ tasks \o out = <<>> /\ items = <<>>
      BY <1>1, <2>2 DEF KeepAliveExact, IsEventLoopAlive, HasPendingTasks, Tasks, Q!IsEmpty
    <3>2. Cardinality(KeptAlive) = 0
      BY <1>1, <1>kept, <3>1 DEF KeepAliveExact
    <3>3. KeptAlive = {}
      BY <1>kept, <3>2, FS_EmptySet
    <3>4. tasks = <<>> /\ out = <<>>
      BY <1>1, <3>1 DEF OncePerTask
    <3>5. Range(<<>>) = {}
      BY DEF Range
    <3>6. {t \in Senders : fate[t] = "queued"} = {}
      BY <1>1, <3>1, <3>4, <3>5 DEF OncePerTask
    <3>7. fate[j] # "queued" /\ fate[j] # "released"
      BY <1>1, <2>2, <3>6 DEF FatesMatch, Senders
    <3>8. pc[j] # "push"
      BY <1>1, <3>3 DEF KeptAlive, FatesMatch, Senders
    <3> QED
      BY <1>1, <2>2, <3>7, <3>8 DEF FatesMatch
  <2>3. NaturalExitRunsAll'
    BY <1>2, <2>1, <2>2 DEF NaturalExitRunsAll
  <2> QED
    BY <1>1, <1>2, <2>1, <2>3, ExitStutter DEF OncePerTask
<1>4. CASE BatchCut
  <2>1. /\ UNCHANGED <<state, fate, keep, items, tasks, out>>
        /\ js'.cut = Len(items) /\ js'.pc # "unpublish"
    BY <1>js, <1>4 DEF JsRecord, BatchCut, queue
  <2>2. Len(items) <= Len(items)
    BY <1>1 DEF VmTypes
  <2> QED
    BY <1>2, <2>1, <2>2, ExitStutter DEF NaturalExitRunsAll
<1>5. CASE \/ RunDone \/ RunStopped \/ AutoTick \/ Poll \/ BeforeExit \/ Unpublish
           \/ ForbidScript \/ Drain \/ Peek \/ CountTickets \/ AnyMidCall \/ MidCall
           \/ Wait \/ Destroy \/ Timeout
  <2>1. /\ UNCHANGED <<fate, keep, items, tasks, out>> /\ js'.cut = js.cut
        /\ js'.pc # "unpublish" \/ state # "Open"
    <3>1. CASE RunDone \/ RunStopped
      BY <1>js, <3>1, ZenonT(40) DEF JsRecord, RunDone, RunStopped, EndTurn, queue
    <3>2. CASE Poll \/ ForbidScript \/ Drain
      BY <1>js, <3>2 DEF JsRecord, Poll, ForbidScript, Drain, queue
    <3>3. CASE BeforeExit
      BY <1>js, <3>3 DEF JsRecord, BeforeExit, queue
    <3>6. CASE Unpublish
      BY <1>js, <3>6 DEF JsRecord, Unpublish, queue
    <3>4. CASE AutoTick
      <4>1. /\ UNCHANGED <<fate, keep, items, tasks, out>>
            /\ \/ state # "Open" /\ js' = [js EXCEPT !.pc = "unpublish"]
               \/ js' = [js EXCEPT !.pc = "sleep"]
               \/ js' = [js EXCEPT !.pc = "poll"]
        BY <3>4 DEF AutoTick, queue
      <4> QED
        BY <1>js, <4>1 DEF JsRecord
    <3>5. CASE Peek \/ CountTickets \/ AnyMidCall \/ MidCall \/ Wait \/ Destroy \/ Timeout
      BY <1>js, <3>5
      DEF JsRecord, Peek, CountTickets, AnyMidCall, MidCall, Wait, Destroy, Timeout, queue
    <3> QED
      BY <1>5, <3>1, <3>2, <3>3, <3>4, <3>5, <3>6
  <2>2. state' \in {state, Stopped, "Draining", "Closed"}
    BY <1>5
    DEF RunDone, RunStopped, EndTurn, AutoTick, Poll, BeforeExit, Unpublish, ForbidScript,
        Drain, Peek, CountTickets, AnyMidCall, MidCall, Wait, Destroy, Timeout
  <2>3. state' = "Open" => state = "Open"
    BY <2>2 DEF Stopped
  <2>4. js.cut <= Len(items)
    BY <1>1 DEF OncePerTask
  <2> QED
    BY <1>2, <2>1, <2>3, <2>4, ExitStutter DEF NaturalExitRunsAll
(* The sum is the number of jobs kept alive, so it never saturates. *)
<1>6. CASE Fold
  <2>1. /\ UNCHANGED <<state, fate, items, tasks, out>> /\ js'.pc # "unpublish"
        /\ js'.cut = js.cut /\ refs' = Folded(0) /\ concurrentRef' = 0
    BY <1>js, <1>6 DEF JsRecord, Fold, queue
  <2>2. KeptAlive' = KeptAlive
    BY <1>2, <2>1 DEF KeptAlive
  <2>3. KeepAliveExact'
    BY <1>1, <1>kept, <2>1, <2>2 DEF KeepAliveExact, Folded
  <2>4. OncePerTask' /\ FatesMatch'
    BY <1>1, <1>2, <2>1 DEF OncePerTask, Distinct, FatesMatch
  <2> QED
    BY <2>1, <2>3, <2>4 DEF ExitInv, NaturalExitRunsAll
(* The batch moves from the concurrent queue to the loop's, all of it. *)
<1>7. CASE TickBatch \/ Service \/ LastService
  <2>1. /\ UNCHANGED <<state, fate, keep>> /\ js'.pc # "unpublish"
        /\ tasks' = tasks \o out /\ js'.cut = 0
        /\ (js.cut > 0 /\ Q!Take(js.cut)) \/ (js.cut = 0 /\ Q!PopEmpty)
    BY <1>js, <1>7 DEF JsRecord, TickBatch, Service, LastService, Batch, Tasks
  <2>2. KeptAlive' = KeptAlive
    BY <1>2, <2>1 DEF KeptAlive
  <2>3. KeepAliveExact' /\ FatesMatch'
    BY <1>1, <1>2, <2>1, <2>2 DEF KeepAliveExact, FatesMatch, keep
  <2>4. /\ tasks' \in Seq(Senders) /\ Distinct(tasks')
        /\ Range(tasks') = Range(tasks) \cup Range(out)
    BY <1>1, <2>1, JoinDistinct DEF OncePerTask
  <2>5. /\ out' \in Seq(Senders) /\ items' \in Seq(Senders) /\ Distinct(out') /\ Distinct(items')
        /\ Range(out') \cap Range(items') = {} /\ Range(out') \cup Range(items') = Range(items)
    <3>1. CASE js.cut > 0 /\ Q!Take(js.cut)
      <4>1. js.cut \in 0..Len(items) /\ items \in Seq(Senders) /\ Distinct(items)
        BY <1>1, <1>js DEF OncePerTask, VmTypes
      <4>2. out' = SubSeq(items, 1, js.cut) /\ items' = SubSeq(items, js.cut + 1, Len(items))
        BY <3>1 DEF Q!Take
      <4> QED
        BY <4>1, <4>2, CutDistinct
    <3>2. CASE Q!PopEmpty
      <4>1. out' = <<>> /\ items' = items
        BY <3>2 DEF Q!PopEmpty
      <4>2. Range(<<>>) = {}
        BY DEF Range
      <4>3. items \in Seq(Senders) /\ Distinct(items)
        BY <1>1 DEF VmTypes, OncePerTask
      <4>4. <<>> \in Seq(Senders) /\ Distinct(<<>>)
        BY DEF Distinct
      <4> QED
        BY <4>1, <4>2, <4>3, <4>4
    <3> QED
      BY <2>1, <3>1, <3>2
  <2>6. 0 <= Len(items')
    BY <2>5
  <2>7. OncePerTask'
    BY <1>1, <2>1, <2>4, <2>5, <2>6 DEF OncePerTask
  <2> QED
    BY <2>1, <2>3, <2>7 DEF ExitInv, NaturalExitRunsAll
(* A task is run or released, and its keep-alive with it. *)
<1>8. CASE RunTask \/ ReleaseTask
  <2>1. PICK how \in {"run", "released"} :
            /\ Consume(how) /\ js'.pc = js.pc /\ js'.cut = js.cut
            /\ (how = "run" /\ js.pc = "run") \/ js.pc \in {"release", "last-release"}
    BY <1>js, <1>8 DEF JsRecord, RunTask, ReleaseTask
  <2> DEFINE t == Head(Tasks)
  <2>2. /\ UNCHANGED <<state, items>> /\ Tasks # <<>> /\ fate' = [fate EXCEPT ![t] = how]
        /\ \/ tasks # <<>> /\ tasks' = Tail(tasks) /\ out' = out
           \/ tasks = <<>> /\ out' = Tail(out) /\ tasks' = tasks
        /\ IF t \in Jobs /\ Kept[t] = "loop" THEN refs' = Folded(-1) /\ concurrentRef' = 0
                                             ELSE UNCHANGED keep
    BY <2>1 DEF Consume
  <2>3. \/ tasks # <<>> /\ t = Head(tasks)
        \/ tasks = <<>> /\ out # <<>> /\ t = Head(out)
    BY <1>1, <2>2 DEF OncePerTask, Tasks
  <2> HIDE DEF t
  <2>4. /\ tasks' \in Seq(Senders) /\ out' \in Seq(Senders) /\ Distinct(tasks') /\ Distinct(out')
        /\ t \in Range(tasks) \cup Range(out)
        /\ Range(tasks') = Range(tasks) \ {t} /\ Range(out') = Range(out) \ {t}
    <3>1. CASE tasks # <<>> /\ t = Head(tasks)
      <4>1. /\ tasks' = Tail(tasks) /\ out' = out
        BY <2>2, <3>1
      <4>2. /\ tasks' \in Seq(Senders) /\ Distinct(tasks') /\ t \in Range(tasks)
            /\ Range(tasks') = Range(tasks) \ {t}
        BY <1>1, <3>1, <4>1, TakeDistinct DEF OncePerTask
      <4> QED
        BY <1>1, <4>1, <4>2 DEF OncePerTask
    <3>2. CASE tasks = <<>> /\ out # <<>> /\ t = Head(out)
      <4>1. /\ out' = Tail(out) /\ tasks' = tasks
        BY <2>2, <3>2
      <4>2. /\ out' \in Seq(Senders) /\ Distinct(out') /\ t \in Range(out)
            /\ Range(out') = Range(out) \ {t}
        BY <1>1, <3>2, <4>1, TakeDistinct DEF OncePerTask
      <4> QED
        BY <1>1, <4>1, <4>2 DEF OncePerTask
    <3> QED
      BY <2>3, <3>1, <3>2
  <2>5. t \in Senders /\ fate[t] = "queued" /\ t \notin Range(items)
    BY <1>1, <2>4 DEF OncePerTask
  <2>6. {u \in Senders : fate'[u] = "queued"} = {u \in Senders : fate[u] = "queued"} \ {t}
    BY <1>1, <2>1, <2>2, <2>5 DEF FatesMatch
  <2>7. OncePerTask'
    <3>1. Distinct(items') /\ Range(items') = Range(items) /\ js'.cut <= Len(items')
      BY <1>1, <2>1, <2>2 DEF OncePerTask
    <3> QED
      BY <1>1, <2>4, <2>5, <2>6, <3>1 DEF OncePerTask
  <2>8. state = "Open" => how = "run"
    BY <1>1, <2>1 DEF StateMatches, Waiting, After, Final
  <2>9. FatesMatch'
    BY <1>1, <1>2, <2>1, <2>2, <2>5, <2>8 DEF FatesMatch, Senders
  <2>10. KeepAliveExact'
    <3>1. CASE t \in Jobs /\ Kept[t] = "loop"
      <4>1. pc[t] \notin {"idle", "gate", "push"}
        BY <1>1, <2>5 DEF FatesMatch
      <4>2. t \in KeptAlive /\ KeptAlive' = KeptAlive \ {t}
        BY <1>1, <1>2, <2>1, <2>2, <2>5, <3>1, <4>1 DEF KeptAlive, FatesMatch, Senders
      <4>3. Cardinality(KeptAlive') = Cardinality(KeptAlive) - 1
        BY <1>kept, <4>2, FS_RemoveElement
      <4>4. Cardinality(KeptAlive') \in Nat
        BY VmThreads DEF KeptAlive
      <4> QED
        BY <1>1, <1>kept, <2>2, <3>1, <4>3, <4>4 DEF KeepAliveExact, Folded
    <3>2. CASE ~(t \in Jobs /\ Kept[t] = "loop")
      <4>1. KeptAlive' = KeptAlive
        BY <1>1, <1>2, <2>2, <2>5, <3>2 DEF KeptAlive, FatesMatch, Senders
      <4> QED
        BY <1>1, <2>2, <3>2, <4>1 DEF KeepAliveExact, keep
    <3> QED
      BY <3>1, <3>2
  <2>11. NaturalExitRunsAll'
    BY <2>1 DEF NaturalExitRunsAll
  <2> QED
    BY <2>7, <2>9, <2>10, <2>11 DEF ExitInv
<1> QED
  BY <1>3, <1>4, <1>5, <1>6, <1>7, <1>8 DEF JsStep

(* So do the steps of the jobs and of the posters. *)
LEMMA ExitOtherMoves == ASSUME TeardownInv, ExitInv, OtherMove PROVE ExitInv'
<1> USE VmHandleAssumption DEF Go, Senders, JobLabels, PosterLabels
<1>1. /\ VmTypes /\ StateMatches /\ QueueMatches
      /\ KeepAliveExact /\ OncePerTask /\ FatesMatch /\ NaturalExitRunsAll
  BY DEF TeardownInv, ExitInv
<1>kept. /\ IsFiniteSet(KeptAlive) /\ Cardinality(KeptAlive) \in Nat
         /\ Cardinality(KeptAlive') \in Nat
  BY VmThreads DEF KeptAlive
<1>2. ASSUME NEW t \in Senders, Push(t) PROVE ExitInv'
  <2>1. /\ UNCHANGED <<state, keep, tasks, out, js>> /\ pc[t] = "push"
        /\ pc' = [pc EXCEPT ![t] = "link"] /\ fate' = [fate EXCEPT ![t] = "queued"]
        /\ items' = Append(items, t)
    BY <1>2 DEF Push, Q!Push
  <2>2. fate[t] = "none"
    BY <1>1, <2>1 DEF FatesMatch
  <2>3. t \notin Range(tasks) /\ t \notin Range(out) /\ t \notin Range(items)
    BY <1>1, <2>2 DEF OncePerTask
  <2>4. /\ Distinct(items') /\ Range(items') = Range(items) \cup {t}
    BY <1>1, <2>1, <2>3, AddDistinct DEF OncePerTask, VmTypes
  <2>5. {u \in Senders : fate'[u] = "queued"} = {u \in Senders : fate[u] = "queued"} \cup {t}
    BY <1>1, <2>1 DEF FatesMatch
  <2>6. js'.cut <= Len(items')
    <3>1. Len(items') = Len(items) + 1 /\ Len(items) \in Nat /\ js.cut \in Nat
      BY <1>1, <2>1 DEF VmTypes, JsRecord
    <3> QED
      BY <1>1, <2>1, <3>1 DEF OncePerTask
  <2>7. OncePerTask'
    BY <1>1, <2>1, <2>3, <2>4, <2>5, <2>6 DEF OncePerTask
  <2>8. KeptAlive' = KeptAlive
    BY <1>1, <2>1, <2>2 DEF KeptAlive, VmTypes, FatesMatch
  <2>9. KeepAliveExact' /\ FatesMatch'
    BY <1>1, <2>1, <2>2, <2>8 DEF VmTypes, KeepAliveExact, FatesMatch, keep
  <2>10. NaturalExitRunsAll'
    BY <1>1, <2>1, <2>2 DEF VmTypes, FatesMatch, NaturalExitRunsAll
  <2> QED
    BY <2>7, <2>9, <2>10 DEF ExitInv
(* A thread goes on after its push or without one. *)
<1>3. ASSUME NEW t \in Senders, NEW to, UNCHANGED <<state, fate, items, tasks, out>>,
             js' = js \/ (js.pc = "wait" /\ js' = [js EXCEPT !.pc = "service"])
                     \/ (js.pc = "wait-calls" /\ js' = [js EXCEPT !.pc = "mid-call"]),
             pc' = [pc EXCEPT ![t] = to], to \notin {"idle", "gate", "push"},
             pc[t] \notin {"idle", "gate", "push"}, KeepAliveExact',
             t \in Jobs /\ to = "unref" => Kept[t] = "pool"
      PROVE  ExitInv'
  <2>1. js'.cut = js.cut /\ (js'.pc = "unpublish" => js.pc = "unpublish")
    BY <1>1, <1>3 DEF VmTypes, JsRecord
  <2>2. OncePerTask'
    BY <1>1, <1>3, <2>1 DEF OncePerTask, Distinct
  <2>3. FatesMatch'
    BY <1>1, <1>3 DEF VmTypes, FatesMatch
  <2>4. NaturalExitRunsAll'
    BY <1>1, <1>3, <2>1 DEF VmTypes, NaturalExitRunsAll
  <2> QED
    BY <1>3, <2>2, <2>3, <2>4 DEF ExitInv
<1>4. ASSUME NEW t \in Senders, NEW to, UNCHANGED <<fate, keep>>, pc' = [pc EXCEPT ![t] = to],
             to \notin {"idle", "gate", "push"}, pc[t] \notin {"idle", "gate", "push"},
             t \in Jobs /\ Kept[t] = "pool" =>
                 /\ pc[t] \in {"link", "wake", "notify"} => to \in {"wake", "notify", "unref"}
                 /\ pc[t] \notin {"link", "wake", "notify", "unref"} =>
                        to \in {"last-ticket", "last-notify", "done"}
                 /\ pc[t] # "unref"
      PROVE  KeepAliveExact'
  <2>1. KeptAlive' = KeptAlive
    BY <1>1, <1>4 DEF VmTypes, KeptAlive
  <2> QED
    BY <1>1, <1>4, <2>1 DEF KeepAliveExact, keep
<1>5. ASSUME NEW t \in Senders, Link(t) \/ Wake(t) \/ Notify(t) \/ LastNotify(t) PROVE ExitInv'
  <2>1. /\ UNCHANGED <<state, fate, keep, items, tasks, out>>
        /\ js' = js \/ (js.pc = "wait" /\ js' = [js EXCEPT !.pc = "service"])
                    \/ (js.pc = "wait-calls" /\ js' = [js EXCEPT !.pc = "mid-call"])
    BY <1>1, <1>5 DEF Link, Q!Link, Wake, Notify, LastNotify, NotifyTo, queue, VmTypes, JsRecord
  <2>2. /\ pc[t] \in {"link", "wake", "notify", "last-notify"}
        /\ \E to \in {"wake", "notify", "leave", "unref", "drop", "done"} :
              /\ pc' = [pc EXCEPT ![t] = to]
              /\ pc[t] = "last-notify" <=> to = "done"
              /\ t \in Jobs /\ Kept[t] = "pool" => to \in {"wake", "notify", "unref", "done"}
              /\ t \in Jobs /\ to = "unref" => Kept[t] = "pool"
    BY <1>5 DEF Link, Wake, Notify, LastNotify, NotifyTo, Delivered
  <2>3. PICK to \in {"wake", "notify", "leave", "unref", "drop", "done"} :
              /\ pc' = [pc EXCEPT ![t] = to]
              /\ pc[t] = "last-notify" <=> to = "done"
              /\ t \in Jobs /\ Kept[t] = "pool" => to \in {"wake", "notify", "unref", "done"}
              /\ t \in Jobs /\ to = "unref" => Kept[t] = "pool"
    BY <2>2
  <2>4. KeepAliveExact'
    BY <1>4, <2>1, <2>2, <2>3
  <2> QED
    BY <1>3, <2>1, <2>2, <2>3, <2>4
<1>6. ASSUME NEW j \in Jobs, Drop(j) \/ LastTicket(j) PROVE ExitInv'
  <2>1. /\ UNCHANGED <<state, fate, keep, items, tasks, out, js>>
        /\ pc[j] \in {"drop", "last-ticket"}
    BY <1>6 DEF Drop, LastTicket, queue
  <2>2. PICK to \in {"last-ticket", "last-notify", "done"} : pc' = [pc EXCEPT ![j] = to]
    BY <1>6 DEF Drop, LastTicket
  <2>3. KeepAliveExact'
    BY <1>4, <2>1, <2>2
  <2> QED
    BY <1>3, <2>1, <2>2, <2>3
<1>7. ASSUME NEW t \in Posters, Leave(t) \/ LastOut(t) PROVE ExitInv'
  <2>1. /\ UNCHANGED <<state, fate, keep, items, tasks, out, js>> /\ t \notin Jobs
        /\ pc[t] \in {"leave", "last-out"}
    BY <1>7 DEF Leave, LastOut, queue
  <2>2. PICK to \in {"last-out", "last-notify", "done"} : pc' = [pc EXCEPT ![t] = to]
    BY <1>7 DEF Leave, LastOut
  <2>3. KeepAliveExact'
    BY <1>4, <2>1, <2>2
  <2> QED
    BY <1>3, <2>1, <2>2, <2>3
(* The keep-alive given back by the pool's thread, and taken by a new job. *)
<1>8. ASSUME NEW j \in Jobs, Unref(j) PROVE ExitInv'
  <2>1. /\ UNCHANGED <<state, fate, refs, items, tasks, out, js>> /\ pc[j] = "unref"
        /\ pc' = [pc EXCEPT ![j] = "drop"] /\ concurrentRef' = concurrentRef - 1
    BY <1>8 DEF Unref, queue
  <2>2. Kept[j] = "pool"
    BY <1>1, <2>1 DEF FatesMatch
  <2>3. j \in KeptAlive /\ KeptAlive' = KeptAlive \ {j}
    BY <1>1, <2>1, <2>2 DEF VmTypes, KeptAlive
  <2>4. Cardinality(KeptAlive') = Cardinality(KeptAlive) - 1
    BY <1>kept, <2>3, FS_RemoveElement
  <2>5. KeepAliveExact'
    BY <1>1, <1>kept, <2>1, <2>4 DEF KeepAliveExact
  <2> QED
    BY <1>3, <2>1, <2>5
<1>9. ASSUME NEW j \in Jobs, Issue(j) PROVE ExitInv'
  <2>1. /\ UNCHANGED <<state, fate, items, tasks, out, js>> /\ pc[j] = "idle" /\ MayIssue
        /\ pc' = [pc EXCEPT ![j] = "push"] /\ refs' = Folded(1) /\ concurrentRef' = 0
    BY <1>9 DEF Issue, queue
  <2>2. fate[j] = "none"
    BY <1>1, <2>1 DEF FatesMatch
  <2>3. j \notin KeptAlive /\ KeptAlive' = KeptAlive \cup {j}
    BY <1>1, <2>1, <2>2 DEF VmTypes, KeptAlive
  <2>4. Cardinality(KeptAlive') = Cardinality(KeptAlive) + 1
    BY <1>kept, <2>3, FS_AddElement
  <2>5. KeepAliveExact'
    BY <1>1, <1>kept, <2>1, <2>4 DEF KeepAliveExact, Folded
  <2>6. OncePerTask'
    BY <1>1, <2>1 DEF OncePerTask, Distinct
  <2>7. FatesMatch'
    BY <1>1, <2>1, <2>2 DEF VmTypes, FatesMatch
  <2>8. NaturalExitRunsAll'
    BY <2>1 DEF MayIssue, NaturalExitRunsAll
  <2> QED
    BY <2>5, <2>6, <2>7, <2>8 DEF ExitInv
(* Posters at the gate hold no keep-alive. *)
<1>10. ASSUME NEW t \in Posters, Enter(t) \/ Gate(t) PROVE ExitInv'
  <2>1. /\ UNCHANGED <<state, keep, items, tasks, out, js>> /\ t \notin Jobs
        /\ pc[t] \in {"idle", "gate"}
    BY <1>10 DEF Enter, Gate, queue
  <2>2. \/ UNCHANGED fate /\ \E to \in {"gate", "push"} : pc' = [pc EXCEPT ![t] = to]
        \/ fate' = [fate EXCEPT ![t] = "refused"] /\ pc' = [pc EXCEPT ![t] = "leave"]
    BY <1>10 DEF Enter, Gate
  <2>3. fate[t] = "none"
    BY <1>1, <2>1 DEF FatesMatch
  <2>4. KeptAlive' = KeptAlive
    BY <1>1, <2>1, <2>2 DEF VmTypes, FatesMatch, KeptAlive
  <2>5. KeepAliveExact'
    BY <1>1, <2>1, <2>4 DEF KeepAliveExact, keep
  <2>6. {u \in Senders : fate'[u] = "queued"} = {u \in Senders : fate[u] = "queued"}
    BY <1>1, <2>2, <2>3 DEF FatesMatch
  <2>7. OncePerTask'
    BY <1>1, <2>1, <2>6 DEF OncePerTask, Distinct
  <2>8. FatesMatch'
    BY <1>1, <2>1, <2>2, <2>3 DEF VmTypes, FatesMatch
  <2>9. NaturalExitRunsAll'
    BY <1>1, <2>1, <2>2 DEF VmTypes, FatesMatch, NaturalExitRunsAll
  <2> QED
    BY <2>5, <2>7, <2>8, <2>9 DEF ExitInv
<1>11. ASSUME RequestTermination \/ Rouse PROVE ExitInv'
  <2>1. /\ UNCHANGED <<fate, keep, items, tasks, out, js>> /\ state' \in {state, Stopped}
        /\ \E to \in {"rouse", "done"} : pc' = [pc EXCEPT ![Parent] = to]
    BY <1>11 DEF RequestTermination, Rouse, queue
  <2>2. \A t \in Senders : pc'[t] = pc[t]
    BY <1>1, <2>1 DEF VmTypes
  <2>3. state' = "Open" => state = "Open"
    BY <2>1 DEF Stopped
  <2>4. KeptAlive' = KeptAlive
    BY <2>1, <2>2 DEF KeptAlive
  <2>5. KeepAliveExact' /\ OncePerTask'
    BY <1>1, <2>1, <2>4 DEF KeepAliveExact, OncePerTask, Distinct, keep
  <2>6. FatesMatch' /\ NaturalExitRunsAll'
    BY <1>1, <2>1, <2>2, <2>3 DEF FatesMatch, NaturalExitRunsAll
  <2> QED
    BY <2>5, <2>6 DEF ExitInv
<1>12. ASSUME NEW j \in Jobs, JobStep(j) PROVE ExitInv'
  BY <1>12, <1>2, <1>5, <1>6, <1>8 DEF JobStep, Deliver
<1>13. ASSUME NEW t \in Posters, PosterStep(t) PROVE ExitInv'
  BY <1>13, <1>2, <1>5, <1>7, <1>10 DEF PosterStep, Deliver
<1> QED
  BY <1>9, <1>10, <1>11, <1>12, <1>13 DEF OtherMove, OtherStep

(* A worker that ends of its own accord has run every completion that kept its
   loop alive, whatever the number of jobs and whichever side gives their
   keep-alive back: the loop's count and the changes not yet folded into it add
   up to the jobs that are out, and nothing queued is overlooked. *)
THEOREM NaturalExitLeavesNothing == Spec => []NaturalExitRunsAll
<1>1. TeardownInv /\ ExitInv /\ [Next]_vars => ExitInv'
  <2> SUFFICES ASSUME TeardownInv, ExitInv, [Next]_vars PROVE ExitInv'
    OBVIOUS
  <2>1. CASE UNCHANGED vars
    <3>1. UNCHANGED <<pc, fate, keep, items, tasks, out, js, state>>
      BY <2>1 DEF vars, queue
    <3> QED
      BY <3>1, ExitStutter DEF ExitInv, OncePerTask, NaturalExitRunsAll
  <2> QED
    BY <2>1, ExitJsMoves, ExitOtherMoves DEF Next, OtherMove
<1>2. ExitInv => NaturalExitRunsAll
  BY DEF ExitInv
<1> QED
  BY <1>1, <1>2, ExitInit, TeardownInit, TeardownStep, PTL DEF Spec
=============================================================================
