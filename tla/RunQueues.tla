----------------------------- MODULE RunQueues -----------------------------
(* src/src/threading/ThreadPool.rs, mod node: where tasks are between being  *)
(* scheduled and being run.  Queue is the unbounded queue of the pool and of *)
(* each worker, with a single consumer at a time; Buffer is each worker's    *)
(* ring, pushed and popped by its owner and stolen from by the others.       *)
(* Module ThreadPool takes these for sets of tasks.                          *)
(*                                                                           *)
(* One action per access to a shared word (Queue.stack, Buffer.head, .tail)  *)
(* and one for each run of array accesses between two of them; a             *)
(* compare-exchange loop that only re-reads is one action.  A list of linked *)
(* nodes is a sequence.  Each node is scheduled once, in the order of the    *)
(* nodes' numbers, which singles none out.                                   *)
EXTENDS Naturals, Sequences, FiniteSets

CONSTANTS Threads,     \* the workers
          Global,      \* ThreadPool.run_queue; a worker names its own run_queue
          Nil,
          NodeCount,
          CAPACITY,    \* 256 in the code
          IndexMod,    \* Index is u32: 2^32 in the code
          Start,       \* head = tail of every ring after Start nodes went through it
          BatchSizes   \* how many tasks are scheduled at once

ASSUME RunQueuesAssumption ==
    /\ CAPACITY \in Nat \ {0} /\ IndexMod \in Nat /\ IndexMod > CAPACITY
    /\ IndexMod % CAPACITY = 0
    /\ Start \in 0..(IndexMod - 1) /\ BatchSizes \subseteq Nat \ {0}
    /\ Global \notin Threads /\ NodeCount \in Nat /\ Nil \notin Threads \cup 1..NodeCount

VARIABLES queue,       \* each Queue: stack, HAS_CACHE, the holder of IS_CONSUMING, cache
          head, tail, array,   \* each worker's Buffer
          pc,
          list,        \* the list a worker is pushing
          chain,       \* Consumer.cache of a worker that consumes
          victim,      \* the worker that a worker steals from
          seen,        \* a head that was loaded
          count,       \* nodes written to the array, or to be copied, beyond tail
          got,         \* the node that pop will return
          next,        \* the next node to be scheduled
          ran

vars == <<queue, head, tail, array, pc, list, chain, victim, seen, count, got,
          next, ran>>
scheduling == <<next, ran>>

Nodes == 1..NodeCount

QueueIds == Threads \cup {Global}

Consuming == {"fill", "extra", "publish", "release"}

TypeOK ==
    /\ \A q \in QueueIds :
          /\ queue[q].stack \in Seq(Nodes) /\ queue[q].cache \in Seq(Nodes)
          /\ queue[q].hasCache \in BOOLEAN /\ queue[q].consumer \in Threads \cup {Nil}
    /\ head \in [Threads -> 0..(IndexMod - 1)] /\ tail \in [Threads -> 0..(IndexMod - 1)]
    /\ array \in [Threads -> [0..(CAPACITY - 1) -> Nodes \cup {Nil}]]
    /\ pc \in [Threads -> Consuming \cup
                {"pop", "own", "global", "target", "steal", "stealTail", "copy", "commit",
                 "stealPublish", "run", "pushLoad", "push", "pushTail", "overflow"}]
    /\ \A t \in Threads : list[t] \in Seq(Nodes) /\ chain[t] \in Seq(Nodes)
    /\ victim \in [Threads -> Threads] /\ seen \in [Threads -> 0..(IndexMod - 1)]
    /\ count \in [Threads -> 0..CAPACITY] /\ got \in [Threads -> Nodes \cup {Nil}]
    /\ next \in 1..(NodeCount + 1) /\ ran \in [Nodes -> 0..1]

Init ==
    /\ queue = [q \in QueueIds |->
                  [stack |-> <<>>, hasCache |-> FALSE, consumer |-> Nil, cache |-> <<>>]]
    /\ head = [t \in Threads |-> Start] /\ tail = [t \in Threads |-> Start]
    /\ array = [t \in Threads |-> [i \in 0..(CAPACITY - 1) |-> Nil]]
    /\ pc = [t \in Threads |-> "pop"]
    /\ list = [t \in Threads |-> <<>>] /\ chain = [t \in Threads |-> <<>>]
    /\ victim = [t \in Threads |-> t] /\ seen = [t \in Threads |-> Start]
    /\ count = [t \in Threads |-> 0] /\ got = [t \in Threads |-> Nil]
    /\ next = 1 /\ ran = [n \in Nodes |-> 0]

(* wrapping_add, wrapping_sub, and the slot of an index *)
Plus(i, n)  == (i + n) % IndexMod
Minus(i, j) == (i + IndexMod - j) % IndexMod
Slot(i)     == i % CAPACITY

(* A ring's array with nodes written from index i on. *)
WriteAt(slots, i, nodes) ==
    [s \in DOMAIN slots |->
       IF \E k \in DOMAIN nodes : s = Slot(Plus(i, k - 1))
       THEN nodes[CHOOSE k \in DOMAIN nodes : s = Slot(Plus(i, k - 1))]
       ELSE slots[s]]

(* The nodes at n indexes of a ring from index i on. *)
Span(t, i, n) == [k \in 1..n |-> array[t][Slot(Plus(i, k - 1))]]

(* The queue that worker t consumes. *)
Held(t) == CHOOSE q \in QueueIds : queue[q].consumer = t

Goto(t, label) == pc' = [pc EXCEPT ![t] = label]

(* pop returns node n, and the worker runs it. *)
Return(t, n) ==
    /\ ran' = [ran EXCEPT ![n] = @ + 1]
    /\ Goto(t, "run")
    /\ UNCHANGED next

(* What may be scheduled: a list of the next nodes. *)
Batches ==
    {[i \in 1..n |-> next + i - 1] : n \in BatchSizes \cap 1..(NodeCount + 1 - next)}

-----------------------------------------------------------------------------
(* Plausible slips. *)

(* release_consumer always removes the HAS_CACHE bit. *)
SlipReleaseUncached(t) ==
    /\ pc[t] = "release"
    /\ queue' = [queue EXCEPT ![Held(t)] =
                   [@ EXCEPT !.cache = chain[t], !.consumer = Nil, !.hasCache = FALSE]]
    /\ chain' = [chain EXCEPT ![t] = <<>>]
    /\ got' = [got EXCEPT ![t] = Nil]
    /\ Return(t, got[t])
    /\ UNCHANGED <<head, tail, array, list, victim, seen, count>>

(* steal commits with a store instead of a compare-exchange. *)
SlipStealStore(t) ==
    /\ pc[t] = "commit"
    /\ head' = [head EXCEPT ![victim[t]] = Plus(seen[t], count[t])]
    /\ got' = [got EXCEPT ![t] = array[t][Slot(Plus(tail[t], count[t] - 1))]]
    /\ count' = [count EXCEPT ![t] = @ - 1]
    /\ Goto(t, "stealPublish")
    /\ UNCHANGED <<queue, tail, array, list, chain, victim, seen, scheduling>>

(* push writes one node more than there is room for. *)
SlipPushOneMore(t) ==
    LET size == Minus(tail[t], seen[t])
        n    == IF Len(list[t]) <= CAPACITY - size THEN Len(list[t]) ELSE CAPACITY - size + 1
    IN
    /\ pc[t] = "push" /\ size < CAPACITY
    /\ array' = [array EXCEPT ![t] = WriteAt(@, tail[t], SubSeq(list[t], 1, n))]
    /\ count' = [count EXCEPT ![t] = n]
    /\ Goto(t, "pushTail")
    /\ UNCHANGED <<queue, head, tail, list, chain, victim, seen, got, scheduling>>

-----------------------------------------------------------------------------
(* schedule *)

(* From outside the pool: Queue::push on the pool's queue. *)
PushGlobal ==
    /\ \E batch \in Batches :
          /\ queue' = [queue EXCEPT ![Global].stack = batch \o @]
          /\ next' = next + Len(batch)
    /\ UNCHANGED <<head, tail, array, pc, list, chain, victim, seen, count, got, ran>>

(* From a running task: Buffer::push, and its load of head. *)
ScheduleInside(t) ==
    /\ pc[t] = "run"
    /\ \E batch \in Batches :
          /\ list' = [list EXCEPT ![t] = batch]
          /\ next' = next + Len(batch)
    /\ seen' = [seen EXCEPT ![t] = head[t]]
    /\ Goto(t, "push")
    /\ UNCHANGED <<queue, head, tail, array, chain, victim, count, got, ran>>

(* Write what there is room for beyond tail. *)
PushWrite(t) ==
    LET size == Minus(tail[t], seen[t])
        room == CAPACITY - size
        n    == IF Len(list[t]) < room THEN Len(list[t]) ELSE room
    IN
    /\ pc[t] = "push" /\ size < CAPACITY
    /\ array' = [array EXCEPT ![t] = WriteAt(@, tail[t], SubSeq(list[t], 1, n))]
    /\ count' = [count EXCEPT ![t] = n]
    /\ Goto(t, "pushTail")
    /\ UNCHANGED <<queue, head, tail, list, chain, victim, seen, got, scheduling>>

(* tail.store; done, or load head and try to push the rest. *)
PushTail(t) ==
    LET rest == SubSeq(list[t], count[t] + 1, Len(list[t])) IN
    /\ pc[t] = "pushTail"
    /\ tail' = [tail EXCEPT ![t] = Plus(@, count[t])]
    /\ count' = [count EXCEPT ![t] = 0]
    /\ list' = [list EXCEPT ![t] = rest]
    /\ Goto(t, IF rest = <<>> THEN "run" ELSE "pushLoad")
    /\ UNCHANGED <<queue, head, array, chain, victim, seen, got, scheduling>>

PushLoad(t) ==
    /\ pc[t] = "pushLoad"
    /\ seen' = [seen EXCEPT ![t] = head[t]]
    /\ Goto(t, "push")
    /\ UNCHANGED <<queue, head, tail, array, list, chain, victim, count, got, scheduling>>

(* Full: claim half of the ring and put the list behind it; or, if others have
   taken from the ring, try again with the head they left. *)
PushMigrate(t) ==
    LET half == CAPACITY \div 2 IN
    /\ pc[t] = "push" /\ Minus(tail[t], seen[t]) = CAPACITY
    /\ \/ /\ head[t] = seen[t]
          /\ head' = [head EXCEPT ![t] = Plus(@, half)]
          /\ list' = [list EXCEPT ![t] = Span(t, seen[t], half) \o @]
          /\ Goto(t, "overflow")
          /\ UNCHANGED seen
       \/ /\ head[t] # seen[t]
          /\ seen' = [seen EXCEPT ![t] = head[t]]
          /\ UNCHANGED <<head, list, pc>>
    /\ UNCHANGED <<queue, tail, array, chain, victim, count, got, scheduling>>

(* Queue::push of what overflowed, on the worker's own queue. *)
PushOverflow(t) ==
    /\ pc[t] = "overflow"
    /\ queue' = [queue EXCEPT ![t].stack = list[t] \o @]
    /\ list' = [list EXCEPT ![t] = <<>>]
    /\ Goto(t, "run")
    /\ UNCHANGED <<head, tail, array, chain, victim, seen, count, got, scheduling>>

-----------------------------------------------------------------------------
(* Thread::pop: the own ring *)

PopBuffer(t) ==
    /\ pc[t] = "pop"
    /\ \/ /\ head[t] # tail[t]
          /\ head' = [head EXCEPT ![t] = Plus(@, 1)]
          /\ Return(t, array[t][Slot(head[t])])
       \/ /\ head[t] = tail[t]
          /\ Goto(t, "own")
          /\ UNCHANGED <<head, scheduling>>
    /\ UNCHANGED <<queue, tail, array, list, chain, victim, seen, count, got>>

-----------------------------------------------------------------------------
(* Buffer::consume of a queue: the own one, the pool's, the target's *)

Source(t) == CASE pc[t] = "own" -> t [] pc[t] = "global" -> Global [] OTHER -> victim[t]

(* try_acquire_consumer succeeds: take the pushed stack too if nothing is cached. *)
Acquire(t) ==
    LET q == Source(t) IN
    /\ pc[t] \in {"own", "global", "target"}
    /\ queue[q].consumer = Nil
    /\ queue[q].hasCache \/ queue[q].stack # <<>>
    /\ queue' = [queue EXCEPT ![q].consumer = t, ![q].hasCache = TRUE,
                              ![q].stack = IF queue[q].hasCache THEN @ ELSE <<>>]
    /\ chain' = [chain EXCEPT ![t] =
                   IF queue[q].cache # <<>> THEN queue[q].cache ELSE queue[q].stack]
    /\ Goto(t, "fill")
    /\ UNCHANGED <<head, tail, array, list, victim, seen, count, got, scheduling>>

(* Contended or Empty: on to the next place; from the target's queue to its ring,
   except that a worker does not steal from its own. *)
TurnedAway(t) ==
    LET q == Source(t) IN
    /\ queue[q].consumer # Nil \/ (~queue[q].hasCache /\ queue[q].stack = <<>>)
    /\ \/ /\ pc[t] = "own"
          /\ Goto(t, "global")
          /\ UNCHANGED victim
       \/ /\ pc[t] = "global"
          /\ Goto(t, "target")
          /\ \E v \in Threads : victim' = [victim EXCEPT ![t] = v]
       \/ /\ pc[t] = "target"
          /\ Goto(t, IF victim[t] = t THEN "pop" ELSE "steal")
          /\ UNCHANGED victim
    /\ UNCHANGED <<queue, head, tail, array, list, chain, seen, count, got, scheduling>>

(* Consumer::pop finds a node: in the chain, or at the top of the stack, which is
   swapped out whole. *)
Available(t) == chain[t] # <<>> \/ queue[Held(t)].stack # <<>>

Supply(t) == IF chain[t] # <<>> THEN chain[t] ELSE queue[Held(t)].stack

ConsumerPop(t) ==
    /\ Available(t)
    /\ chain' = [chain EXCEPT ![t] = Tail(Supply(t))]
    /\ queue' = IF chain[t] # <<>> THEN queue ELSE [queue EXCEPT ![Held(t)].stack = <<>>]

(* Pop nodes into the array beyond tail, up to CAPACITY. *)
Fill(t) ==
    /\ pc[t] = "fill"
    /\ \/ /\ count[t] < CAPACITY
          /\ ConsumerPop(t)
          /\ array' = [array EXCEPT ![t][Slot(Plus(tail[t], count[t]))] = Head(Supply(t))]
          /\ count' = [count EXCEPT ![t] = @ + 1]
          /\ UNCHANGED pc
       \/ /\ count[t] = CAPACITY \/ ~Available(t)
          /\ Goto(t, "extra")
          /\ UNCHANGED <<queue, chain, array, count>>
    /\ UNCHANGED <<head, tail, list, victim, seen, got, scheduling>>

(* The node to return: one more from the queue, or else the last one written. *)
TakeExtra(t) ==
    /\ pc[t] = "extra"
    /\ \/ /\ ConsumerPop(t)
          /\ got' = [got EXCEPT ![t] = Head(Supply(t))]
          /\ UNCHANGED count
       \/ /\ ~Available(t)
          /\ got' = [got EXCEPT ![t] = array[t][Slot(Plus(tail[t], count[t] - 1))]]
          /\ count' = [count EXCEPT ![t] = @ - 1]
          /\ UNCHANGED <<queue, chain>>
    /\ Goto(t, "publish")
    /\ UNCHANGED <<head, tail, array, list, victim, seen, scheduling>>

(* tail.store *)
Publish(t) ==
    /\ pc[t] = "publish"
    /\ tail' = [tail EXCEPT ![t] = Plus(@, count[t])]
    /\ count' = [count EXCEPT ![t] = 0]
    /\ Goto(t, "release")
    /\ UNCHANGED <<queue, head, array, list, chain, victim, seen, got, scheduling>>

(* release_consumer, when consume returns *)
Release(t) ==
    /\ pc[t] = "release"
    /\ queue' = [queue EXCEPT ![Held(t)].cache = chain[t], ![Held(t)].consumer = Nil,
                              ![Held(t)].hasCache = @ /\ chain[t] # <<>>]
    /\ chain' = [chain EXCEPT ![t] = <<>>]
    /\ got' = [got EXCEPT ![t] = Nil]
    /\ Return(t, got[t])
    /\ UNCHANGED <<head, tail, array, list, victim, seen, count>>

-----------------------------------------------------------------------------
(* Buffer::steal *)

StealHead(t) ==
    /\ pc[t] = "steal"
    /\ seen' = [seen EXCEPT ![t] = head[victim[t]]]
    /\ Goto(t, "stealTail")
    /\ UNCHANGED <<queue, head, tail, array, list, chain, victim, count, got, scheduling>>

(* Load tail: again if the two do not fit, nothing if it is empty, else half. *)
StealTail(t) ==
    LET size == Minus(tail[victim[t]], seen[t]) IN
    /\ pc[t] = "stealTail"
    /\ Goto(t, IF size > CAPACITY THEN "steal" ELSE IF size = 0 THEN "pop" ELSE "copy")
    /\ count' = [count EXCEPT ![t] = IF size > CAPACITY THEN 0 ELSE size - (size \div 2)]
    /\ UNCHANGED <<queue, head, tail, array, list, chain, victim, seen, got, scheduling>>

StealCopy(t) ==
    /\ pc[t] = "copy"
    /\ array' = [array EXCEPT ![t] =
                   WriteAt(@, tail[t], Span(victim[t], seen[t], count[t]))]
    /\ Goto(t, "commit")
    /\ UNCHANGED <<queue, head, tail, list, chain, victim, seen, count, got, scheduling>>

(* The exchange of the victim's head; start over if it has moved. *)
StealCommit(t) ==
    /\ pc[t] = "commit"
    /\ \/ /\ head[victim[t]] = seen[t]
          /\ head' = [head EXCEPT ![victim[t]] = Plus(@, count[t])]
          /\ got' = [got EXCEPT ![t] = array[t][Slot(Plus(tail[t], count[t] - 1))]]
          /\ count' = [count EXCEPT ![t] = @ - 1]
          /\ Goto(t, "stealPublish")
       \/ /\ head[victim[t]] # seen[t]
          /\ count' = [count EXCEPT ![t] = 0]
          /\ Goto(t, "steal")
          /\ UNCHANGED <<head, got>>
    /\ UNCHANGED <<queue, tail, array, list, chain, victim, seen, scheduling>>

StealPublish(t) ==
    /\ pc[t] = "stealPublish"
    /\ tail' = [tail EXCEPT ![t] = Plus(@, count[t])]
    /\ count' = [count EXCEPT ![t] = 0]
    /\ got' = [got EXCEPT ![t] = Nil]
    /\ Return(t, got[t])
    /\ UNCHANGED <<queue, head, array, list, chain, victim, seen>>

-----------------------------------------------------------------------------
(* The task is done; pop again.  The locals of the last call are gone. *)
Finish(t) ==
    /\ pc[t] = "run"
    /\ Goto(t, "pop")
    /\ victim' = [victim EXCEPT ![t] = t]
    /\ seen' = [seen EXCEPT ![t] = Start]
    /\ UNCHANGED <<queue, head, tail, array, list, chain, count, got, scheduling>>

Worker(t) ==
    \/ ScheduleInside(t) \/ PushWrite(t) \/ PushTail(t) \/ PushLoad(t) \/ PushMigrate(t)
    \/ PushOverflow(t) \/ PopBuffer(t) \/ Acquire(t) \/ TurnedAway(t) \/ Fill(t)
    \/ TakeExtra(t) \/ Publish(t) \/ Release(t) \/ StealHead(t) \/ StealTail(t)
    \/ StealCopy(t) \/ StealCommit(t) \/ StealPublish(t) \/ Finish(t)

Next == PushGlobal \/ \E t \in Threads : Worker(t)

Spec == Init /\ [][Next]_vars

-----------------------------------------------------------------------------
(* Properties *)

(* The lists that nodes are kept in, by owner.  A worker that has claimed nodes
   and not yet published them has them beyond its tail. *)
Live(t) == Span(t, head[t], Minus(tail[t], head[t]))

Claimed(t) ==
    IF pc[t] \in Consuming \cup {"stealPublish"} THEN Span(t, tail[t], count[t]) ELSE <<>>

InHand(t) == list[t] \o chain[t] \o Claimed(t) \o (IF got[t] = Nil THEN <<>> ELSE <<got[t]>>)

Queued(q) ==
    queue[q].stack \o (IF queue[q].consumer = Nil THEN queue[q].cache ELSE <<>>)

Occurrences(n, s) == Cardinality({i \in DOMAIN s : s[i] = n})

(* A task is in one place: not yet scheduled, in one queue, in one live ring slot,
   in the hands of one worker, or run, and then only once.  Nothing is lost and
   nothing is handed out twice when consumers contend, thieves race the owner and
   each other, a push overflows the ring or the indexes wrap. *)
ExactlyOnePlace ==
    \A n \in Nodes :
        LET waiting == IF n >= next THEN 1 ELSE 0
            queues == {q \in QueueIds : Occurrences(n, Queued(q)) > 0}
            rings  == {t \in Threads : Occurrences(n, Live(t)) > 0}
            hands  == {t \in Threads : Occurrences(n, InHand(t)) > 0}
        IN  /\ waiting + Cardinality(queues) + Cardinality(rings) + Cardinality(hands) + ran[n] = 1
            /\ \A q \in QueueIds : Occurrences(n, Queued(q)) <= 1
            /\ \A t \in Threads : Occurrences(n, Live(t)) <= 1 /\ Occurrences(n, InHand(t)) <= 1

(* The debug_asserts of Buffer: the ring never holds more than CAPACITY, and it is
   empty when its owner consumes or steals, so that what is written beyond tail
   overwrites nothing. *)
RingWithinBounds ==
    \A t \in Threads :
        /\ Minus(tail[t], head[t]) <= CAPACITY
        /\ pc[t] \in (Consuming \ {"release"}) \cup {"steal", "stealTail", "copy", "commit"}
             => head[t] = tail[t]

(* What try_acquire_consumer relies on when it takes the stack only if the
   HAS_CACHE bit is clear: between consumers the bit says whether cache holds
   nodes, and at most one worker consumes a queue. *)
CacheBitExact ==
    \A q \in QueueIds :
        /\ queue[q].consumer = Nil => (queue[q].hasCache <=> queue[q].cache # <<>>)
        /\ \A t \in Threads : queue[q].consumer = t <=> pc[t] \in Consuming /\ Held(t) = q
=============================================================================
