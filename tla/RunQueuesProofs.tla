-------------------------- MODULE RunQueuesProofs --------------------------
(* Proofs about module RunQueues for any set of workers, any number of nodes *)
(* and any capacity of the rings.                                            *)
EXTENDS RunQueues, Integers, FiniteSetTheorems, TLAPS

Index == 0..(IndexMod - 1)

Slots == 0..(CAPACITY - 1)

Entries == Nodes \cup {Nil}

Labels == Consuming \cup
    {"pop", "own", "global", "target", "steal", "stealTail", "copy", "commit", "stealPublish",
     "run", "pushLoad", "push", "pushTail", "overflow"}

QueueRecord ==
    [stack : Seq(Entries), hasCache : BOOLEAN, consumer : Threads \cup {Nil}, cache : Seq(Entries)]

(* That what moves through the lists is a node, never an empty slot, is part of
   ExactlyOnePlace. *)
Types ==
    /\ queue \in [QueueIds -> QueueRecord]
    /\ head \in [Threads -> Index] /\ tail \in [Threads -> Index]
    /\ array \in [Threads -> [Slots -> Entries]]
    /\ pc \in [Threads -> Labels]
    /\ list \in [Threads -> Seq(Entries)] /\ chain \in [Threads -> Seq(Entries)]
    /\ victim \in [Threads -> Threads] /\ seen \in [Threads -> Index]
    /\ count \in [Threads -> 0..CAPACITY] /\ got \in [Threads -> Entries]
    /\ next \in Nat \ {0}

-----------------------------------------------------------------------------
(* Indexes *)

(* The remainder of a number that is at most one modulus too large. *)
LEMMA ModIs ==
    ASSUME NEW m \in Nat \ {0}, NEW a \in Int
    PROVE  /\ a % m \in 0..(m - 1)
           /\ 0 <= a /\ a < m => a % m = a
           /\ m <= a /\ a < m + m => a % m = a - m
<1>1. a % m \in 0..(m - 1)
  OBVIOUS
<1>2. ASSUME 0 <= a, a < m PROVE a % m = a
  BY <1>2
<1>3. ASSUME m <= a, a < m + m PROVE a % m = a - m
  BY <1>3
<1> QED
  BY <1>1, <1>2, <1>3

(* Within one turn of the indexes, sums and differences are what one expects. *)
LEMMA PlusIs ==
    ASSUME NEW i \in Index, NEW n \in Int
    PROVE  /\ Plus(i, n) \in Index
           /\ 0 <= n /\ n <= CAPACITY =>
                Plus(i, n) = IF i + n < IndexMod THEN i + n ELSE i + n - IndexMod
<1>1. IndexMod \in Nat \ {0} /\ IndexMod > CAPACITY /\ CAPACITY \in Nat
  BY RunQueuesAssumption
<1>2. i \in Int /\ 0 <= i /\ i < IndexMod /\ i + n \in Int
  BY <1>1 DEF Index
<1>3. (i + n) % IndexMod \in 0..(IndexMod - 1)
  BY <1>1, <1>2, ModIs
<1>4. ASSUME 0 <= n, n <= CAPACITY
      PROVE  (i + n) % IndexMod = IF i + n < IndexMod THEN i + n ELSE i + n - IndexMod
  <2>1. 0 <= i + n /\ i + n < IndexMod + IndexMod
    BY <1>1, <1>2, <1>4
  <2>2. CASE i + n < IndexMod
    <3>1. (i + n) % IndexMod = i + n
      BY <1>1, <1>2, <2>1, <2>2, ModIs
    <3> QED
      BY <2>2, <3>1
  <2>3. CASE ~(i + n < IndexMod)
    <3>1. IndexMod <= i + n
      BY <1>1, <1>2, <2>3
    <3> DEFINE a == i + n
    <3>2. a \in Int /\ IndexMod <= a /\ a < IndexMod + IndexMod
      BY <1>2, <2>1, <3>1
    <3> HIDE DEF a
    <3>3. a % IndexMod = a - IndexMod
      BY <1>1, <3>2, ModIs
    <3>4. a - IndexMod = i + n - IndexMod
      BY <1>1, <1>2 DEF a
    <3> QED
      BY <2>3, <3>3, <3>4, Zenon DEF a
  <2> QED
    BY <2>2, <2>3
<1> QED
  BY <1>3, <1>4 DEF Plus, Index

(* The wrapping distance between two indexes, without the remainder. *)
LEMMA MinusIs ==
    ASSUME NEW i \in Index, NEW j \in Index
    PROVE  Minus(i, j) = IF i >= j THEN i - j ELSE i + IndexMod - j
<1>1. IndexMod \in Nat \ {0}
  BY RunQueuesAssumption
<1>2. i \in Int /\ j \in Int /\ 0 <= i /\ i < IndexMod /\ 0 <= j /\ j < IndexMod
  BY <1>1 DEF Index
<1>3. i + IndexMod - j \in Int /\ 0 <= i + IndexMod - j /\ i + IndexMod - j < IndexMod + IndexMod
  BY <1>1, <1>2
<1>4. CASE i >= j
  <2>1. IndexMod <= i + IndexMod - j /\ (i + IndexMod - j) - IndexMod = i - j
    BY <1>1, <1>2, <1>4
  <2>2. (i + IndexMod - j) % IndexMod = (i + IndexMod - j) - IndexMod
    BY <1>1, <1>3, <2>1, ModIs
  <2> QED
    BY <1>4, <2>1, <2>2 DEF Minus
<1>5. CASE ~(i >= j)
  <2>1. i + IndexMod - j < IndexMod
    BY <1>1, <1>2, <1>5
  <2>2. (i + IndexMod - j) % IndexMod = i + IndexMod - j
    BY <1>1, <1>3, <2>1, ModIs
  <2> QED
    BY <1>5, <2>2 DEF Minus
<1> QED
  BY <1>4, <1>5

(* An index always names a slot of the array. *)
LEMMA SlotIs == ASSUME NEW i \in Int PROVE Slot(i) \in Slots
<1>1. CAPACITY \in Nat \ {0}
  BY RunQueuesAssumption
<1> QED
  BY <1>1, ModIs DEF Slot, Slots

(* How many nodes a ring holds after its head or its tail has moved. *)
LEMMA TailMoves ==
    ASSUME NEW h \in Index, NEW l \in Index, NEW n \in Nat, Minus(l, h) + n <= CAPACITY
    PROVE  Minus(Plus(l, n), h) = Minus(l, h) + n
<1>1. IndexMod \in Nat \ {0} /\ IndexMod > CAPACITY /\ CAPACITY \in Nat
  BY RunQueuesAssumption
<1>2. h \in Int /\ l \in Int /\ 0 <= h /\ h < IndexMod /\ 0 <= l /\ l < IndexMod
  BY <1>1 DEF Index
<1>3. Minus(l, h) = IF l >= h THEN l - h ELSE l + IndexMod - h
  BY MinusIs
<1>4. 0 <= n /\ n <= CAPACITY
  BY <1>1, <1>2, <1>3
<1>5. Plus(l, n) \in Index /\ Plus(l, n) = IF l + n < IndexMod THEN l + n ELSE l + n - IndexMod
  BY <1>4, PlusIs
<1>6. Minus(Plus(l, n), h) = IF Plus(l, n) >= h THEN Plus(l, n) - h ELSE Plus(l, n) + IndexMod - h
  BY <1>5, MinusIs
<1> QED
  BY <1>1, <1>2, <1>3, <1>5, <1>6

(* Moving head by n of the nodes in the ring shortens the ring by n. *)
LEMMA HeadMoves ==
    ASSUME NEW h \in Index, NEW l \in Index, NEW n \in Nat, n <= Minus(l, h), n <= CAPACITY
    PROVE  Minus(l, Plus(h, n)) = Minus(l, h) - n
<1>1. IndexMod \in Nat \ {0} /\ IndexMod > CAPACITY /\ CAPACITY \in Nat
  BY RunQueuesAssumption
<1>2. h \in Int /\ l \in Int /\ 0 <= h /\ h < IndexMod /\ 0 <= l /\ l < IndexMod
  BY <1>1 DEF Index
<1>3. Minus(l, h) = IF l >= h THEN l - h ELSE l + IndexMod - h
  BY MinusIs
<1>5. Plus(h, n) \in Index /\ Plus(h, n) = IF h + n < IndexMod THEN h + n ELSE h + n - IndexMod
  BY PlusIs
<1>6. Minus(l, Plus(h, n)) = IF l >= Plus(h, n) THEN l - Plus(h, n) ELSE l + IndexMod - Plus(h, n)
  BY <1>5, MinusIs
<1> QED
  BY <1>1, <1>2, <1>3, <1>5, <1>6

-----------------------------------------------------------------------------
(* The consumer of a queue *)

(* A worker consumes at most one queue, and one exactly while it says so; it
   holds HAS_CACHE, and between consumers the bit is that of the cache. *)
OneConsumer ==
    /\ \A t \in Threads : pc[t] \in Consuming <=> \E q \in QueueIds : queue[q].consumer = t
    /\ \A q, p \in QueueIds :
          queue[q].consumer = queue[p].consumer => q = p \/ queue[q].consumer = Nil
    /\ \A q \in QueueIds : IF queue[q].consumer = Nil
                           THEN queue[q].hasCache <=> queue[q].cache # <<>>
                           ELSE queue[q].hasCache

(* The number of nodes written beyond tail, or about to be copied there: what a
   worker takes back from it is there. *)
Counts ==
    \A t \in Threads :
        /\ pc[t] \in {"pop", "own", "global", "target", "run", "push", "pushLoad", "overflow",
                      "steal", "stealTail", "release"} => count[t] = 0
        /\ pc[t] \in {"extra", "copy", "commit"} => count[t] >= 1
        /\ pc[t] = "fill" /\ count[t] = 0 => chain[t] # <<>>
        /\ pc[t] = "pushTail" => count[t] <= Len(list[t])

QueueInv == Types /\ OneConsumer /\ Counts

(* The queue that a consuming worker holds is the one with its name in it. *)
LEMMA HeldIs ==
    ASSUME QueueInv, NEW t \in Threads, NEW q \in QueueIds, queue[q].consumer = t
    PROVE  Held(t) = q
<1>1. t # Nil
  BY RunQueuesAssumption
<1>2. \A p \in QueueIds : queue[p].consumer = t => p = q
  BY <1>1 DEF QueueInv, OneConsumer
<1> QED
  BY <1>2 DEF Held

(* A worker inside consume has a queue of its own to consume. *)
LEMMA HeldIsMine ==
    ASSUME QueueInv, NEW t \in Threads, pc[t] \in Consuming
    PROVE  Held(t) \in QueueIds /\ queue[Held(t)].consumer = t
  BY DEF QueueInv, OneConsumer, Held

(* All queues are empty and unlocked at the start. *)
LEMMA QueueInit == Init => QueueInv
<1> SUFFICES ASSUME Init PROVE QueueInv
  OBVIOUS
<1> USE RunQueuesAssumption
<1>1. Types
  <2>1. [stack |-> <<>>, hasCache |-> FALSE, consumer |-> Nil, cache |-> <<>>] \in QueueRecord
    BY DEF QueueRecord
  <2> QED
    BY <2>1 DEF Init, Types, Labels, Index, Slots, Entries
<1>2. OneConsumer
  BY DEF Init, OneConsumer, Consuming
<1>3. Counts
  BY DEF Init, Counts
<1> QED
  BY <1>1, <1>2, <1>3 DEF QueueInv

(* What is scheduled is a list of nodes. *)
LEMMA BatchTyped ==
    ASSUME Types, NEW batch \in Batches
    PROVE  /\ batch \in Seq(Nodes) /\ batch \in Seq(Entries)
           /\ Len(batch) \in Nat \ {0} /\ Len(batch) <= NodeCount + 1 - next
           /\ \A i \in 1..Len(batch) : batch[i] = next + i - 1
<1> USE RunQueuesAssumption
<1>1. PICK n \in BatchSizes \cap 1..(NodeCount + 1 - next) : batch = [i \in 1..n |-> next + i - 1]
  BY DEF Batches
<1>2. n \in Nat \ {0} /\ n <= NodeCount + 1 - next /\ next \in Nat \ {0}
  BY DEF Types
<1>3. \A i \in 1..n : next + i - 1 \in Nodes
  BY <1>2 DEF Nodes
<1>4. batch \in Seq(Nodes) /\ Len(batch) = n
  BY <1>1, <1>2, <1>3
<1>5. batch \in Seq(Entries)
  BY <1>4 DEF Entries
<1> QED
  BY <1>1, <1>2, <1>4, <1>5

(* Writing nodes into an array leaves it an array. *)
LEMMA WriteTyped ==
    ASSUME NEW slots \in [Slots -> Entries], NEW i, NEW nodes,
           \A k \in DOMAIN nodes : nodes[k] \in Entries
    PROVE  WriteAt(slots, i, nodes) \in [Slots -> Entries]
<1>1. ASSUME NEW x \in Slots, \E k \in DOMAIN nodes : x = Slot(Plus(i, k - 1))
      PROVE  nodes[CHOOSE k \in DOMAIN nodes : x = Slot(Plus(i, k - 1))] \in Entries
  BY <1>1
<1> QED
  BY <1>1 DEF WriteAt

(* What is read from an array is a list of entries. *)
LEMMA SpanTyped ==
    ASSUME Types, NEW t \in Threads, NEW i \in Index, NEW n \in Int
    PROVE  /\ \A k \in 1..n : Span(t, i, n)[k] \in Entries
           /\ DOMAIN Span(t, i, n) = 1..n
           /\ n \in Nat => Span(t, i, n) \in Seq(Entries) /\ Len(Span(t, i, n)) = n
<1>1. \A k \in 1..n : Slot(Plus(i, k - 1)) \in Slots
  BY SlotIs, PlusIs DEF Index
<1>2. \A k \in 1..n : array[t][Slot(Plus(i, k - 1))] \in Entries
  BY <1>1 DEF Types
<1> QED
  BY <1>2 DEF Span

(* A worker goes from a label to one on the same side of the consumer's lock,
   and no queue's lock or cache changes. *)
LEMMA SameConsumers ==
    ASSUME QueueInv, NEW t \in Threads, NEW to \in Labels, pc' = [pc EXCEPT ![t] = to],
           pc[t] \in Consuming <=> to \in Consuming,
           \A q \in QueueIds : /\ queue'[q].consumer = queue[q].consumer
                               /\ queue'[q].hasCache = queue[q].hasCache
                               /\ queue'[q].cache = queue[q].cache
    PROVE  OneConsumer' /\ pc' \in [Threads -> Labels]
<1>1. /\ pc' \in [Threads -> Labels]
      /\ \A u \in Threads : pc'[u] \in Consuming <=> pc[u] \in Consuming
  BY DEF QueueInv, Types
<1> QED
  BY <1>1 DEF QueueInv, OneConsumer

(* A queue's stack is replaced. *)
LEMMA StackReplaced ==
    ASSUME Types, NEW q \in QueueIds, NEW stack \in Seq(Entries),
           queue' = [queue EXCEPT ![q].stack = stack]
    PROVE  /\ queue' \in [QueueIds -> QueueRecord]
           /\ \A p \in QueueIds : /\ queue'[p].consumer = queue[p].consumer
                                  /\ queue'[p].hasCache = queue[p].hasCache
                                  /\ queue'[p].cache = queue[p].cache
                                  /\ p # q => queue'[p].stack = queue[p].stack
           /\ queue'[q].stack = stack
<1>1. queue \in [QueueIds -> QueueRecord] /\ queue[q] \in QueueRecord
  BY DEF Types
<1>2. [queue[q] EXCEPT !.stack = stack] \in QueueRecord
  BY <1>1 DEF QueueRecord
<1>3. queue' = [queue EXCEPT ![q] = [queue[q] EXCEPT !.stack = stack]]
  BY <1>1
<1>4. queue' \in [QueueIds -> QueueRecord]
  BY <1>1, <1>2, <1>3
<1>5. \A p \in QueueIds : p # q => queue'[p] = queue[p]
  BY <1>1, <1>3
<1>6. queue'[q] = [queue[q] EXCEPT !.stack = stack]
  BY <1>1, <1>3
<1>7. /\ queue'[q].consumer = queue[q].consumer /\ queue'[q].hasCache = queue[q].hasCache
      /\ queue'[q].cache = queue[q].cache /\ queue'[q].stack = stack
  BY <1>1, <1>6 DEF QueueRecord
<1> QED
  BY <1>4, <1>5, <1>7

(* Steps of a worker that leave the queues alone. *)
RingStep(t) ==
    \/ ScheduleInside(t) \/ PushWrite(t) \/ PushTail(t) \/ PushLoad(t) \/ PushMigrate(t)
    \/ PopBuffer(t) \/ TurnedAway(t) \/ Publish(t) \/ StealHead(t) \/ StealTail(t)
    \/ StealCopy(t) \/ StealCommit(t) \/ StealPublish(t) \/ Finish(t)

(* Types from its parts, for steps that leave the queues alone. *)
LEMMA TypesFrom ==
    ASSUME Types, UNCHANGED <<queue, chain>>,
           head' \in [Threads -> Index], tail' \in [Threads -> Index],
           array' \in [Threads -> [Slots -> Entries]], pc' \in [Threads -> Labels],
           list' \in [Threads -> Seq(Entries)], victim' \in [Threads -> Threads],
           seen' \in [Threads -> Index], count' \in [Threads -> 0..CAPACITY],
           got' \in [Threads -> Entries], next' \in Nat \ {0}
    PROVE  Types'
  BY DEF Types

(* What such a step writes has its type. *)
LEMMA RingTyped ==
    ASSUME QueueInv, NEW t \in Threads, RingStep(t)
    PROVE  Types' /\ Counts'
<1>1. Types /\ Counts
  BY DEF QueueInv
<1>2. /\ Start \in Index /\ CAPACITY \in Nat \ {0} /\ Nil \in Entries
      /\ CAPACITY \div 2 \in Nat
  BY RunQueuesAssumption DEF Index, Entries
<1>3. \A u \in Threads : /\ head[u] \in Index /\ tail[u] \in Index /\ seen[u] \in Index
                          /\ list[u] \in Seq(Entries) /\ count[u] \in Nat /\ count[u] <= CAPACITY
                          /\ victim[u] \in Threads /\ array[u] \in [Slots -> Entries]
  BY <1>1, <1>2 DEF Types
<1>4. \A i \in Index, n \in Int : Plus(i, n) \in Index
  BY PlusIs
<1>5. \A i, j \in Index : Minus(i, j) \in Nat
  BY MinusIs, RunQueuesAssumption DEF Index
<1>6. \A u \in Threads, i \in Index : array[u][Slot(i)] \in Entries
  BY <1>3, SlotIs DEF Index
<1>i. head \in [Threads -> Index] /\ tail \in [Threads -> Index] /\ seen \in [Threads -> Index]
  BY <1>1 DEF Types
<1>c. count \in [Threads -> 0..CAPACITY]
  BY <1>1 DEF Types
<1>p. pc \in [Threads -> Labels] /\ victim \in [Threads -> Threads]
  BY <1>1 DEF Types
<1>l. list \in [Threads -> Seq(Entries)]
  BY <1>1 DEF Types
<1>g. got \in [Threads -> Entries]
  BY <1>1 DEF Types
<1>7. CASE ScheduleInside(t)
  <2>1. PICK batch \in Batches : list' = [list EXCEPT ![t] = batch] /\ next' = next + Len(batch)
    BY <1>7 DEF ScheduleInside
  <2>2. batch \in Seq(Entries) /\ Len(batch) \in Nat \ {0}
    BY <1>1, BatchTyped
  <2>3. /\ UNCHANGED <<queue, head, tail, array, chain, victim, count, got>>
        /\ seen' = [seen EXCEPT ![t] = head[t]] /\ pc[t] = "run"
        /\ pc' = [pc EXCEPT ![t] = "push"]
    BY <1>7 DEF ScheduleInside, Goto
  <2>4. Types'
    BY <1>1, <1>3, <2>1, <2>2, <2>3 DEF Types, Labels
  <2>5. Counts'
    BY <1>1, <2>1, <2>3 DEF Types, Counts
  <2> QED
    BY <2>4, <2>5
<1>8. CASE PushWrite(t)
  <2> DEFINE size == Minus(tail[t], seen[t])
             n    == IF Len(list[t]) < CAPACITY - size THEN Len(list[t]) ELSE CAPACITY - size
  <2>1. /\ UNCHANGED <<queue, head, tail, list, chain, victim, seen, got, next>> /\ pc[t] = "push"
        /\ array' = [array EXCEPT ![t] = WriteAt(@, tail[t], SubSeq(list[t], 1, n))]
        /\ count' = [count EXCEPT ![t] = n] /\ pc' = [pc EXCEPT ![t] = "pushTail"]
        /\ size < CAPACITY
    BY <1>8 DEF PushWrite, Goto, scheduling
  <2>2. n \in Nat /\ n <= CAPACITY /\ n <= Len(list[t])
    <3>1. size \in Nat
      BY <1>3, <1>5
    <3> HIDE DEF size
    <3> QED
      BY <1>2, <1>3, <2>1, <3>1
  <2> HIDE DEF n
  <2>3. SubSeq(list[t], 1, n) \in Seq(Entries)
    BY <1>3, <2>2
  <2>4. \A k \in DOMAIN SubSeq(list[t], 1, n) : SubSeq(list[t], 1, n)[k] \in Entries
    BY <2>3
  <2>5. WriteAt(array[t], tail[t], SubSeq(list[t], 1, n)) \in [Slots -> Entries]
    BY <1>3, <2>4, WriteTyped
  <2>6. Types'
    BY <1>1, <1>2, <2>1, <2>2, <2>5 DEF Types, Labels
  <2>7. Counts'
    BY <1>1, <2>1, <2>2 DEF Types, Counts
  <2> QED
    BY <2>6, <2>7
<1>9. CASE PushTail(t)
  <2> DEFINE rest == SubSeq(list[t], count[t] + 1, Len(list[t]))
  <2>1. rest \in Seq(Entries)
    BY <1>3
  <2>2. /\ UNCHANGED <<queue, head, array, chain, victim, seen, got, next>>
        /\ tail' = [tail EXCEPT ![t] = Plus(@, count[t])] /\ count' = [count EXCEPT ![t] = 0]
        /\ list' = [list EXCEPT ![t] = rest]
        /\ \E to \in {"run", "pushLoad"} : pc' = [pc EXCEPT ![t] = to]
    BY <1>9 DEF PushTail, Goto, scheduling
  <2> HIDE DEF rest
  <2>3. tail' \in [Threads -> Index]
    BY <1>i, <1>3, <1>4, <2>2
  <2>4. count' \in [Threads -> 0..CAPACITY] /\ list' \in [Threads -> Seq(Entries)]
    BY <1>c, <1>l, <1>2, <2>1, <2>2
  <2>p. pc' \in [Threads -> Labels]
    BY <1>p, <2>2 DEF Labels
  <2>5. Types'
    BY <1>1, <2>2, <2>3, <2>4, <2>p, TypesFrom DEF Types
  <2>6. Counts'
    BY <1>1, <2>2 DEF Types, Counts
  <2> QED
    BY <2>5, <2>6
<1>10. CASE Publish(t) \/ StealPublish(t)
  <2>1. /\ UNCHANGED <<queue, head, array, list, chain, victim, seen, next>>
        /\ tail' = [tail EXCEPT ![t] = Plus(@, count[t])] /\ count' = [count EXCEPT ![t] = 0]
        /\ \E to \in {"release", "run"} : pc' = [pc EXCEPT ![t] = to]
        /\ got' = got \/ got' = [got EXCEPT ![t] = Nil]
    BY <1>10 DEF Publish, StealPublish, Return, Goto, scheduling
  <2>t. tail' \in [Threads -> Index]
    BY <1>i, <1>3, <1>4, <2>1
  <2>2. count' \in [Threads -> 0..CAPACITY] /\ got' \in [Threads -> Entries]
    BY <1>c, <1>g, <1>2, <2>1
  <2>3. pc' \in [Threads -> Labels]
    BY <1>p, <2>1 DEF Labels, Consuming
  <2>4. Types'
    BY <1>1, <2>1, <2>t, <2>2, <2>3, TypesFrom DEF Types
  <2>5. Counts'
    BY <1>1, <2>1 DEF Types, Counts
  <2> QED
    BY <2>4, <2>5
<1>11. CASE PushLoad(t) \/ StealHead(t) \/ Finish(t)
  <2>1. /\ UNCHANGED <<queue, head, tail, array, list, chain, count, got, next>>
        /\ \E i \in Index : seen' = [seen EXCEPT ![t] = i]
        /\ victim' = victim \/ victim' = [victim EXCEPT ![t] = t]
        /\ pc[t] \in {"pushLoad", "steal", "run"}
        /\ \E to \in {"push", "stealTail", "pop"} : pc' = [pc EXCEPT ![t] = to]
    BY <1>2, <1>3, <1>11 DEF PushLoad, StealHead, Finish, Goto, scheduling
  <2>2. seen' \in [Threads -> Index] /\ victim' \in [Threads -> Threads]
    BY <1>i, <1>p, <2>1
  <2>3. pc' \in [Threads -> Labels]
    BY <1>p, <2>1 DEF Labels
  <2>4. Types'
    BY <1>1, <2>1, <2>2, <2>3, TypesFrom DEF Types
  <2>5. Counts'
    BY <1>1, <2>1 DEF Types, Counts
  <2> QED
    BY <2>4, <2>5
<1>12. CASE TurnedAway(t)
  <2>1. /\ UNCHANGED <<queue, head, tail, array, list, chain, seen, count, got, next>>
        /\ victim' = victim \/ \E v \in Threads : victim' = [victim EXCEPT ![t] = v]
        /\ pc[t] \in {"own", "global", "target"}
        /\ \E to \in {"global", "target", "pop", "steal"} : pc' = [pc EXCEPT ![t] = to]
    BY <1>12 DEF TurnedAway, Goto, scheduling
  <2>2. victim' \in [Threads -> Threads] /\ pc' \in [Threads -> Labels]
    BY <1>p, <2>1 DEF Labels
  <2>3. Types'
    BY <1>1, <2>1, <2>2, TypesFrom DEF Types
  <2>4. Counts'
    BY <1>1, <2>1 DEF Types, Counts
  <2> QED
    BY <2>3, <2>4
<1>13. CASE PushMigrate(t)
  <2>1. Span(t, seen[t], CAPACITY \div 2) \o list[t] \in Seq(Entries)
    BY <1>1, <1>2, <1>3, SpanTyped
  <2>2. /\ UNCHANGED <<queue, tail, array, chain, victim, count, got, next>> /\ pc[t] = "push"
        /\ \/ /\ head' = [head EXCEPT ![t] = Plus(@, CAPACITY \div 2)]
              /\ list' = [list EXCEPT ![t] = Span(t, seen[t], CAPACITY \div 2) \o @]
              /\ pc' = [pc EXCEPT ![t] = "overflow"] /\ seen' = seen
           \/ seen' = [seen EXCEPT ![t] = head[t]] /\ UNCHANGED <<head, list, pc>>
    BY <1>13 DEF PushMigrate, Goto, scheduling
  <2>h. Plus(head[t], CAPACITY \div 2) \in Index
    BY <1>2, <1>3, <1>4
  <2>s. head[t] \in Index
    BY <1>3
  <2>3. head' = head \/ head' = [head EXCEPT ![t] = Plus(head[t], CAPACITY \div 2)]
    BY <1>i, <2>2
  <2>u. seen' = seen \/ seen' = [seen EXCEPT ![t] = head[t]]
    BY <2>2
  <2>i. head' \in [Threads -> Index]
    BY <1>i, <2>h, <2>3
  <2>v. seen' \in [Threads -> Index]
    BY <1>i, <2>s, <2>u
  <2>l. list' \in [Threads -> Seq(Entries)]
    BY <1>l, <2>1, <2>2
  <2>4. pc' \in [Threads -> Labels]
    BY <1>p, <2>2 DEF Labels
  <2>5. Types'
    BY <1>1, <2>2, <2>i, <2>v, <2>l, <2>4, TypesFrom DEF Types
  <2>6. Counts'
    BY <1>1, <2>2 DEF Types, Counts
  <2> QED
    BY <2>5, <2>6
<1>14. CASE PopBuffer(t)
  <2>1. /\ UNCHANGED <<queue, tail, array, list, chain, victim, seen, count, got, next>>
        /\ pc[t] = "pop" /\ (head' = head \/ head' = [head EXCEPT ![t] = Plus(@, 1)])
        /\ \E to \in {"run", "own"} : pc' = [pc EXCEPT ![t] = to]
    BY <1>14 DEF PopBuffer, Return, Goto, scheduling
  <2>h. Plus(head[t], 1) \in Index
    BY <1>3, <1>4
  <2>2. head' \in [Threads -> Index] /\ pc' \in [Threads -> Labels]
    BY <1>i, <1>p, <2>h, <2>1 DEF Labels
  <2>3. Types'
    BY <1>1, <2>1, <2>2, TypesFrom DEF Types
  <2>4. Counts'
    BY <1>1, <2>1 DEF Types, Counts
  <2> QED
    BY <2>3, <2>4
<1>15. CASE StealTail(t)
  <2> DEFINE size == Minus(tail[victim[t]], seen[t])
  <2>1. size \in Nat
    BY <1>3, <1>5
  <2>2. /\ UNCHANGED <<queue, head, tail, array, list, chain, victim, seen, got, next>>
        /\ \/ /\ size > CAPACITY /\ count' = [count EXCEPT ![t] = 0]
              /\ pc' = [pc EXCEPT ![t] = "steal"]
           \/ /\ size = 0 /\ count' = [count EXCEPT ![t] = size - (size \div 2)]
              /\ pc' = [pc EXCEPT ![t] = "pop"]
           \/ /\ ~(size > CAPACITY) /\ size # 0
              /\ count' = [count EXCEPT ![t] = size - (size \div 2)]
              /\ pc' = [pc EXCEPT ![t] = "copy"]
    BY <1>2, <1>15 DEF StealTail, Goto, scheduling
  <2> HIDE DEF size
  <2>3. /\ size \div 2 \in Nat /\ (size = 0 => size - (size \div 2) = 0)
        /\ ~(size > CAPACITY) /\ size # 0 =>
              size - (size \div 2) \in 0..CAPACITY /\ size - (size \div 2) >= 1
    BY <1>2, <2>1
  <2>4. \E n \in 0..CAPACITY : count' = [count EXCEPT ![t] = n]
    <3>1. 0 \in 0..CAPACITY
      BY <1>2
    <3>2. CASE count' = [count EXCEPT ![t] = 0]
      BY <3>1, <3>2, Zenon
    <3>3. CASE count' # [count EXCEPT ![t] = 0]
      <4>1. /\ count' = [count EXCEPT ![t] = size - (size \div 2)]
            /\ size = 0 \/ (~(size > CAPACITY) /\ size # 0)
        BY <2>2, <3>3, Zenon
      <4>2. size - (size \div 2) \in 0..CAPACITY
        BY <2>3, <3>1, <4>1, Zenon
      <4> QED
        BY <4>1, <4>2, Zenon
    <3> QED
      BY <3>2, <3>3
  <2>c. count' \in [Threads -> 0..CAPACITY]
    BY <1>c, <2>4
  <2>p. pc' \in [Threads -> Labels]
    BY <1>p, <2>2 DEF Labels
  <2>5. Types'
    BY <1>1, <2>2, <2>c, <2>p, TypesFrom DEF Types
  <2>6. Counts'
    <3>1. \A u \in Threads \ {t} : pc'[u] = pc[u] /\ count'[u] = count[u]
      BY <1>c, <1>p, <2>2
    <3>2. \/ pc'[t] = "steal" /\ count'[t] = 0
          \/ pc'[t] = "pop" /\ count'[t] = 0
          \/ pc'[t] = "copy" /\ count'[t] >= 1
      BY <1>c, <1>p, <2>2, <2>3
    <3> QED
      BY <1>1, <2>2, <3>1, <3>2 DEF Counts
  <2> QED
    BY <2>5, <2>6
<1>16. CASE StealCopy(t)
  <2>1. WriteAt(array[t], tail[t], Span(victim[t], seen[t], count[t])) \in [Slots -> Entries]
    <3>1. \A k \in DOMAIN Span(victim[t], seen[t], count[t]) :
              Span(victim[t], seen[t], count[t])[k] \in Entries
      BY <1>1, <1>3, SpanTyped
    <3> QED
      BY <1>3, <3>1, WriteTyped
  <2>2. /\ UNCHANGED <<queue, head, tail, list, chain, victim, seen, count, got, next>>
        /\ array' = [array EXCEPT ![t] = WriteAt(@, tail[t], Span(victim[t], seen[t], count[t]))]
        /\ pc[t] = "copy" /\ pc' = [pc EXCEPT ![t] = "commit"]
    BY <1>16 DEF StealCopy, Goto, scheduling
  <2>3. Types'
    BY <1>1, <2>1, <2>2 DEF Types, Labels
  <2>4. Counts'
    BY <1>1, <2>2 DEF Types, Counts
  <2> QED
    BY <2>3, <2>4
<1>17. CASE StealCommit(t)
  <2>1. array[t][Slot(Plus(tail[t], count[t] - 1))] \in Entries
    BY <1>3, <1>4, <1>6
  <2>2. /\ UNCHANGED <<queue, tail, array, list, chain, victim, seen, next>> /\ pc[t] = "commit"
        /\ \/ /\ head' = [head EXCEPT ![victim[t]] = Plus(@, count[t])]
              /\ got' = [got EXCEPT ![t] = array[t][Slot(Plus(tail[t], count[t] - 1))]]
              /\ count' = [count EXCEPT ![t] = @ - 1]
              /\ pc' = [pc EXCEPT ![t] = "stealPublish"]
           \/ /\ count' = [count EXCEPT ![t] = 0] /\ pc' = [pc EXCEPT ![t] = "steal"]
              /\ UNCHANGED <<head, got>>
    BY <1>17 DEF StealCommit, Goto, scheduling
  <2>3. count[t] - 1 \in 0..CAPACITY
    BY <1>1, <1>2, <1>3, <2>2 DEF Counts
  <2>h. Plus(head[victim[t]], count[t]) \in Index
    BY <1>3, <1>4
  <2>4. head' \in [Threads -> Index] /\ got' \in [Threads -> Entries]
    BY <1>i, <1>g, <1>3, <2>h, <2>1, <2>2
  <2>c. count' \in [Threads -> 0..CAPACITY]
    BY <1>c, <1>2, <2>2, <2>3
  <2>5. pc' \in [Threads -> Labels]
    BY <1>p, <2>2 DEF Labels
  <2>6. Types'
    BY <1>1, <2>2, <2>c, <2>4, <2>5, TypesFrom DEF Types
  <2>7. Counts'
    BY <1>1, <2>2 DEF Types, Counts
  <2> QED
    BY <2>6, <2>7
<1> QED
  BY <1>7, <1>8, <1>9, <1>10, <1>11, <1>12, <1>13, <1>14, <1>15, <1>16, <1>17 DEF RingStep

(* The same for the lock of the queues. *)
LEMMA RingConsumers ==
    ASSUME QueueInv, NEW t \in Threads, RingStep(t)
    PROVE  OneConsumer'
<1>1. queue' = queue
  BY DEF RingStep, ScheduleInside, PushWrite, PushTail, PushLoad, PushMigrate, PopBuffer,
         TurnedAway, Publish, StealHead, StealTail, StealCopy, StealCommit, StealPublish, Finish
<1>2. pc[t] \in Labels /\ pc \in [Threads -> Labels]
  BY DEF QueueInv, Types
<1>3. \E to \in Labels : pc' = [pc EXCEPT ![t] = to] /\ (pc[t] \in Consuming <=> to \in Consuming)
  <2>1. CASE Publish(t)
    BY <2>1 DEF Publish, Goto, Labels, Consuming
  <2>2. CASE PushMigrate(t)
    <3>1. CASE pc' = pc
      BY <1>2, <3>1
    <3>2. CASE pc' # pc
      <4>1. pc[t] = "push" /\ pc' = [pc EXCEPT ![t] = "overflow"]
        BY <2>2, <3>2 DEF PushMigrate, Goto
      <4> QED
        BY <4>1 DEF Labels, Consuming
    <3> QED
      BY <3>1, <3>2
  <2>3. CASE ScheduleInside(t) \/ PushWrite(t) \/ PushLoad(t) \/ PopBuffer(t)
    BY <2>3 DEF ScheduleInside, PushWrite, PushLoad, PopBuffer, Return, Goto, Labels, Consuming
  <2>7. CASE PushTail(t)
    <3>1. pc' = [pc EXCEPT ![t] = "run"] \/ pc' = [pc EXCEPT ![t] = "pushLoad"]
      BY <2>7 DEF PushTail, Goto
    <3>2. pc[t] = "pushTail"
      BY <2>7 DEF PushTail
    <3> QED
      BY <3>1, <3>2 DEF Labels, Consuming
  <2>4. CASE TurnedAway(t)
    BY <2>4 DEF TurnedAway, Goto, Labels, Consuming
  <2>5. CASE StealTail(t)
    <3>1. \/ pc' = [pc EXCEPT ![t] = "steal"] \/ pc' = [pc EXCEPT ![t] = "pop"]
          \/ pc' = [pc EXCEPT ![t] = "copy"]
      BY <2>5, Zenon DEF StealTail, Goto
    <3>2. pc[t] = "stealTail"
      BY <2>5 DEF StealTail
    <3> QED
      BY <3>1, <3>2 DEF Labels, Consuming
  <2>6. CASE StealHead(t) \/ StealCopy(t) \/ StealCommit(t) \/ StealPublish(t) \/ Finish(t)
    BY <2>6 DEF StealHead, StealCopy, StealCommit, StealPublish, Finish, Return, Goto, Labels,
                Consuming
  <2> QED
    BY <2>1, <2>2, <2>3, <2>4, <2>5, <2>6, <2>7 DEF RingStep
<1> QED
  BY <1>1, <1>3, SameConsumers

(* A push on a queue. *)
LEMMA QueuePushed ==
    ASSUME QueueInv, PushGlobal \/ \E t \in Threads : PushOverflow(t)
    PROVE  QueueInv'
<1> USE RunQueuesAssumption
<1>1. Types /\ OneConsumer /\ Counts
  BY DEF QueueInv
<1>2. CASE PushGlobal
  <2>1. PICK batch \in Batches : /\ queue' = [queue EXCEPT ![Global].stack = batch \o @]
                                 /\ next' = next + Len(batch)
    BY <1>2 DEF PushGlobal
  <2>2. batch \in Seq(Entries) /\ Len(batch) \in Nat \ {0} /\ Global \in QueueIds
    BY <1>1, BatchTyped DEF QueueIds
  <2>3. queue[Global] \in QueueRecord /\ queue[Global].stack \in Seq(Entries)
    BY <1>1, <2>2 DEF Types, QueueRecord
  <2>4. batch \o queue[Global].stack \in Seq(Entries)
    BY <2>2, <2>3
  <2>5. queue' = [queue EXCEPT ![Global].stack = batch \o queue[Global].stack]
    BY <1>1, <2>1, <2>2 DEF Types
  <2>6. /\ queue' \in [QueueIds -> QueueRecord]
        /\ \A p \in QueueIds : /\ queue'[p].consumer = queue[p].consumer
                               /\ queue'[p].hasCache = queue[p].hasCache
                               /\ queue'[p].cache = queue[p].cache
    BY <1>1, <2>2, <2>4, <2>5, StackReplaced
  <2>7. UNCHANGED <<head, tail, array, pc, list, chain, victim, seen, count, got>>
    BY <1>2 DEF PushGlobal
  <2>8. next' \in Nat \ {0}
    BY <1>1, <2>1, <2>2 DEF Types
  <2>9. Types'
    BY <1>1, <2>6, <2>7, <2>8 DEF Types
  <2>10. OneConsumer'
    BY <1>1, <2>6, <2>7 DEF OneConsumer
  <2>11. Counts'
    BY <1>1, <2>7 DEF Counts
  <2> QED
    BY <2>9, <2>10, <2>11 DEF QueueInv
<1>3. ASSUME NEW t \in Threads, PushOverflow(t) PROVE QueueInv'
  <2>1. t \in QueueIds /\ list[t] \in Seq(Entries) /\ queue[t] \in QueueRecord
    BY <1>1 DEF QueueIds, Types
  <2>2. list[t] \o queue[t].stack \in Seq(Entries)
    BY <2>1 DEF QueueRecord
  <2>3. queue' = [queue EXCEPT ![t].stack = list[t] \o queue[t].stack]
    BY <1>1, <1>3, <2>1 DEF PushOverflow, Types
  <2>4. /\ queue' \in [QueueIds -> QueueRecord]
        /\ \A p \in QueueIds : /\ queue'[p].consumer = queue[p].consumer
                               /\ queue'[p].hasCache = queue[p].hasCache
                               /\ queue'[p].cache = queue[p].cache
    BY <1>1, <2>1, <2>2, <2>3, StackReplaced
  <2>5. /\ UNCHANGED <<head, tail, array, chain, victim, seen, count, got, next>>
        /\ pc[t] = "overflow" /\ pc' = [pc EXCEPT ![t] = "run"]
        /\ list' = [list EXCEPT ![t] = <<>>]
    BY <1>3 DEF PushOverflow, Goto, scheduling
  <2>6. OneConsumer' /\ pc' \in [Threads -> Labels]
    BY <2>4, <2>5, SameConsumers DEF Labels, Consuming
  <2>7. list' \in [Threads -> Seq(Entries)]
    BY <1>1, <2>5 DEF Types
  <2>8. Types'
    BY <1>1, <2>4, <2>5, <2>6, <2>7 DEF Types
  <2>9. Counts'
    BY <1>1, <2>5 DEF Types, Counts
  <2> QED
    BY <2>6, <2>8, <2>9 DEF QueueInv
<1> QED
  BY <1>2, <1>3

(* try_acquire_consumer *)
LEMMA QueueAcquired ==
    ASSUME QueueInv, NEW t \in Threads, Acquire(t)
    PROVE  QueueInv'
<1> USE RunQueuesAssumption
<1>1. Types /\ OneConsumer /\ Counts
  BY DEF QueueInv
<1> DEFINE q     == Source(t)
           taken == IF queue[q].cache # <<>> THEN queue[q].cache ELSE queue[q].stack
           after == [queue[q] EXCEPT !.consumer = t, !.hasCache = TRUE,
                                     !.stack = IF queue[q].hasCache THEN @ ELSE <<>>]
<1>2. /\ pc[t] \in {"own", "global", "target"} /\ queue[q].consumer = Nil
      /\ queue[q].hasCache \/ queue[q].stack # <<>>
      /\ chain' = [chain EXCEPT ![t] = taken] /\ pc' = [pc EXCEPT ![t] = "fill"]
      /\ UNCHANGED <<head, tail, array, list, victim, seen, count, got, next>>
  BY DEF Acquire, Goto, scheduling
<1>3. q \in QueueIds
  BY <1>1, <1>2 DEF Source, QueueIds, Types
<1> HIDE DEF q
<1>4. queue[q] \in QueueRecord /\ queue \in [QueueIds -> QueueRecord]
  BY <1>1, <1>3 DEF Types
<1>5. queue' = [queue EXCEPT ![q] = after]
  BY <1>3, <1>4 DEF Acquire, q
<1>6. after \in QueueRecord /\ after.consumer = t /\ after.hasCache = TRUE
  <2>1. (IF queue[q].hasCache THEN queue[q].stack ELSE <<>>) \in Seq(Entries)
    BY <1>4 DEF QueueRecord
  <2> QED
    BY <1>4, <2>1 DEF QueueRecord
<1>7. taken \in Seq(Entries)
  BY <1>4 DEF QueueRecord
<1>8. taken # <<>>
  BY <1>1, <1>2, <1>3 DEF OneConsumer
<1> HIDE DEF taken, after
<1>9. queue' \in [QueueIds -> QueueRecord] /\ queue'[q] = after
  BY <1>3, <1>4, <1>5, <1>6
<1>10. \A p \in QueueIds : p # q => queue'[p] = queue[p]
  BY <1>4, <1>5
<1>11. pc' \in [Threads -> Labels] /\ pc'[t] = "fill" /\ \A u \in Threads : u # t => pc'[u] = pc[u]
  BY <1>1, <1>2 DEF Types, Labels, Consuming
<1>12. chain' \in [Threads -> Seq(Entries)] /\ chain'[t] = taken
  BY <1>1, <1>2, <1>7 DEF Types
<1>13. Types'
  BY <1>1, <1>2, <1>9, <1>11, <1>12 DEF Types
<1>14. \A p \in QueueIds : queue[p].consumer # t
  BY <1>1, <1>2 DEF OneConsumer, Consuming
<1>15. OneConsumer'
  <2>1. ASSUME NEW u \in Threads
        PROVE  pc'[u] \in Consuming <=> \E p \in QueueIds : queue'[p].consumer = u
    <3>1. CASE u = t
      BY <1>3, <1>6, <1>9, <1>11, <3>1 DEF Consuming
    <3>2. CASE u # t
      <4>1. pc'[u] = pc[u]
        BY <1>11, <3>2
      <4>2. \A p \in QueueIds : queue'[p].consumer = u <=> queue[p].consumer = u
        <5>1. queue'[q].consumer # u /\ queue[q].consumer # u
          BY <1>2, <1>6, <1>9, <3>2
        <5> QED
          BY <1>10, <5>1
      <4> QED
        BY <1>1, <4>1, <4>2 DEF OneConsumer
    <3> QED
      BY <3>1, <3>2
  <2>2. ASSUME NEW p \in QueueIds, NEW r \in QueueIds, queue'[p].consumer = queue'[r].consumer
        PROVE  p = r \/ queue'[p].consumer = Nil
    <3>1. CASE p = q
      BY <1>6, <1>9, <1>10, <1>14, <2>2, <3>1
    <3>2. CASE r = q
      BY <1>6, <1>9, <1>10, <1>14, <2>2, <3>2
    <3>3. CASE p # q /\ r # q
      BY <1>1, <1>10, <2>2, <3>3 DEF OneConsumer
    <3> QED
      BY <3>1, <3>2, <3>3
  <2>3. ASSUME NEW p \in QueueIds
        PROVE  IF queue'[p].consumer = Nil
               THEN queue'[p].hasCache <=> queue'[p].cache # <<>>
               ELSE queue'[p].hasCache
    <3>1. CASE p = q
      BY <1>6, <1>9, <3>1
    <3>2. CASE p # q
      BY <1>1, <1>10, <3>2 DEF OneConsumer
    <3> QED
      BY <3>1, <3>2
  <2> QED
    BY <2>1, <2>2, <2>3 DEF OneConsumer
<1>16. Counts'
  BY <1>1, <1>2, <1>8, <1>12 DEF Types, Counts
<1> QED
  BY <1>13, <1>15, <1>16 DEF QueueInv


(* Consumer::pop: the head of a list of entries is one, and the rest remains. *)
LEMMA Popped ==
    ASSUME QueueInv, NEW t \in Threads, pc[t] \in Consuming, ConsumerPop(t)
    PROVE  /\ queue' \in [QueueIds -> QueueRecord]
           /\ \A p \in QueueIds : /\ queue'[p].consumer = queue[p].consumer
                                  /\ queue'[p].hasCache = queue[p].hasCache
                                  /\ queue'[p].cache = queue[p].cache
           /\ chain' \in [Threads -> Seq(Entries)]
           /\ Head(Supply(t)) \in Entries
           /\ \A u \in Threads : u # t => chain'[u] = chain[u]
<1>1. Types
  BY DEF QueueInv
<1>2. Held(t) \in QueueIds /\ queue[Held(t)] \in QueueRecord
  BY <1>1, HeldIsMine DEF Types
<1>3. Supply(t) \in Seq(Entries) /\ Supply(t) # <<>>
  BY <1>1, <1>2 DEF Types, QueueRecord, Supply, ConsumerPop, Available
<1>4. Head(Supply(t)) \in Entries /\ Tail(Supply(t)) \in Seq(Entries)
  BY <1>3
<1>5. chain' = [chain EXCEPT ![t] = Tail(Supply(t))]
  BY DEF ConsumerPop
<1>6. chain' \in [Threads -> Seq(Entries)] /\ \A u \in Threads : u # t => chain'[u] = chain[u]
  BY <1>1, <1>4, <1>5 DEF Types
<1>7. CASE chain[t] # <<>>
  BY <1>1, <1>4, <1>6, <1>7 DEF ConsumerPop, Types
<1>8. CASE chain[t] = <<>>
  <2>1. queue' = [queue EXCEPT ![Held(t)].stack = <<>>] /\ <<>> \in Seq(Entries)
    BY <1>8 DEF ConsumerPop
  <2>2. /\ queue' \in [QueueIds -> QueueRecord]
        /\ \A p \in QueueIds : /\ queue'[p].consumer = queue[p].consumer
                               /\ queue'[p].hasCache = queue[p].hasCache
                               /\ queue'[p].cache = queue[p].cache
    BY <1>1, <1>2, <2>1, StackReplaced
  <2> QED
    BY <1>4, <1>6, <2>2
<1> QED
  BY <1>7, <1>8

(* Buffer::consume, between the lock and the store of tail. *)
LEMMA QueueConsumed ==
    ASSUME QueueInv, NEW t \in Threads, Fill(t) \/ TakeExtra(t)
    PROVE  QueueInv'
<1>1. Types /\ OneConsumer /\ Counts
  BY DEF QueueInv
<1>2. /\ CAPACITY \in Nat \ {0} /\ tail[t] \in Index /\ count[t] \in 0..CAPACITY
      /\ array \in [Threads -> [Slots -> Entries]] /\ count \in [Threads -> 0..CAPACITY]
      /\ got \in [Threads -> Entries] /\ pc \in [Threads -> Labels]
  BY <1>1, RunQueuesAssumption DEF Types
<1>3. ASSUME NEW n \in Int PROVE Slot(Plus(tail[t], n)) \in Slots
  <2>1. Plus(tail[t], n) \in Int
    BY <1>2, PlusIs DEF Index
  <2> QED
    BY <2>1, SlotIs
<1>4. pc[t] \in Consuming
  BY DEF Fill, TakeExtra, Consuming
<1>5. CASE Fill(t) /\ ConsumerPop(t) /\ count[t] < CAPACITY /\ UNCHANGED pc
           /\ array' = [array EXCEPT ![t][Slot(Plus(tail[t], count[t]))] = Head(Supply(t))]
           /\ count' = [count EXCEPT ![t] = @ + 1]
  <2>1. UNCHANGED <<head, tail, list, victim, seen, got, next, pc>> /\ pc[t] = "fill"
    BY <1>5 DEF Fill, scheduling
  <2>2. /\ queue' \in [QueueIds -> QueueRecord] /\ chain' \in [Threads -> Seq(Entries)]
        /\ \A p \in QueueIds : /\ queue'[p].consumer = queue[p].consumer
                               /\ queue'[p].hasCache = queue[p].hasCache
                               /\ queue'[p].cache = queue[p].cache
        /\ Head(Supply(t)) \in Entries /\ \A u \in Threads : u # t => chain'[u] = chain[u]
    BY <1>4, <1>5, Popped
  <2>3. array' \in [Threads -> [Slots -> Entries]]
    BY <1>2, <1>3, <1>5, <2>2
  <2>4. count[t] + 1 \in 0..CAPACITY
    BY <1>2, <1>5
  <2>5. count' \in [Threads -> 0..CAPACITY]
    BY <1>2, <1>5, <2>4
  <2>6. Types'
    BY <1>1, <1>5, <2>1, <2>2, <2>3, <2>5 DEF Types
  <2>7. OneConsumer'
    <3>1. pc' = [pc EXCEPT ![t] = pc[t]] /\ pc[t] \in Labels
      BY <1>2, <2>1
    <3> QED
      BY <2>2, <3>1, SameConsumers
  <2>8. count'[t] >= 1 /\ \A u \in Threads : u # t => count'[u] = count[u]
    BY <1>2, <1>5
  <2>9. Counts'
    BY <1>1, <2>1, <2>2, <2>8 DEF Counts
  <2> QED
    BY <2>6, <2>7, <2>9 DEF QueueInv
<1>6. CASE Fill(t) /\ (count[t] = CAPACITY \/ ~Available(t)) /\ pc' = [pc EXCEPT ![t] = "extra"]
           /\ UNCHANGED <<queue, chain, array, count>>
  <2>1. UNCHANGED <<head, tail, list, victim, seen, got, next>> /\ pc[t] = "fill"
    BY <1>6 DEF Fill, scheduling
  <2>2. OneConsumer' /\ pc' \in [Threads -> Labels]
    BY <1>6, <2>1, SameConsumers DEF Labels, Consuming
  <2>3. Types'
    BY <1>1, <1>6, <2>1, <2>2 DEF Types
  <2>4. count[t] >= 1
    BY <1>1, <1>2, <1>6, <2>1 DEF Counts, Available
  <2>5. Counts'
    BY <1>1, <1>2, <1>6, <2>1, <2>4 DEF Counts
  <2> QED
    BY <2>2, <2>3, <2>5 DEF QueueInv
<1>7. CASE TakeExtra(t) /\ ConsumerPop(t) /\ got' = [got EXCEPT ![t] = Head(Supply(t))]
           /\ UNCHANGED count
  <2>1. /\ UNCHANGED <<head, tail, array, list, victim, seen, next>> /\ pc[t] = "extra"
        /\ pc' = [pc EXCEPT ![t] = "publish"]
    BY <1>7 DEF TakeExtra, Goto, scheduling
  <2>2. /\ queue' \in [QueueIds -> QueueRecord] /\ chain' \in [Threads -> Seq(Entries)]
        /\ \A p \in QueueIds : /\ queue'[p].consumer = queue[p].consumer
                               /\ queue'[p].hasCache = queue[p].hasCache
                               /\ queue'[p].cache = queue[p].cache
        /\ Head(Supply(t)) \in Entries /\ \A u \in Threads : u # t => chain'[u] = chain[u]
    BY <1>4, <1>7, Popped
  <2>3. OneConsumer' /\ pc' \in [Threads -> Labels]
    BY <2>1, <2>2, SameConsumers DEF Labels, Consuming
  <2>4. got' \in [Threads -> Entries]
    BY <1>2, <1>7, <2>2
  <2>5. Types'
    BY <1>1, <1>7, <2>1, <2>2, <2>3, <2>4 DEF Types
  <2>6. Counts'
    BY <1>1, <1>2, <1>7, <2>1, <2>2 DEF Counts
  <2> QED
    BY <2>3, <2>5, <2>6 DEF QueueInv
<1>8. CASE TakeExtra(t) /\ ~Available(t) /\ UNCHANGED <<queue, chain>>
           /\ got' = [got EXCEPT ![t] = array[t][Slot(Plus(tail[t], count[t] - 1))]]
           /\ count' = [count EXCEPT ![t] = @ - 1]
  <2>1. /\ UNCHANGED <<head, tail, array, list, victim, seen, next>> /\ pc[t] = "extra"
        /\ pc' = [pc EXCEPT ![t] = "publish"]
    BY <1>8 DEF TakeExtra, Goto, scheduling
  <2>2. OneConsumer' /\ pc' \in [Threads -> Labels]
    BY <1>8, <2>1, SameConsumers DEF Labels, Consuming
  <2>3. count[t] - 1 \in 0..CAPACITY /\ count[t] - 1 \in Int
    BY <1>1, <1>2, <2>1 DEF Counts
  <2>4. array[t][Slot(Plus(tail[t], count[t] - 1))] \in Entries
    BY <1>2, <1>3, <2>3
  <2>5. got' \in [Threads -> Entries]
    BY <1>2, <1>8, <2>4
  <2>6. count' \in [Threads -> 0..CAPACITY]
    BY <1>2, <1>8, <2>3
  <2>7. Types'
    BY <1>1, <1>8, <2>1, <2>2, <2>5, <2>6 DEF Types
  <2>8. Counts'
    BY <1>1, <1>2, <1>8, <2>1 DEF Counts
  <2> QED
    BY <2>2, <2>7, <2>8 DEF QueueInv
<1> QED
  BY <1>5, <1>6, <1>7, <1>8 DEF Fill, TakeExtra, Goto

(* release_consumer *)
LEMMA QueueReleased ==
    ASSUME QueueInv, NEW t \in Threads, Release(t)
    PROVE  QueueInv'
<1> USE RunQueuesAssumption
<1>1. Types /\ OneConsumer /\ Counts
  BY DEF QueueInv
<1> DEFINE q     == Held(t)
           after == [queue[q] EXCEPT !.cache = chain[t], !.consumer = Nil,
                                     !.hasCache = @ /\ chain[t] # <<>>]
<1>2. /\ pc[t] = "release" /\ pc' = [pc EXCEPT ![t] = "run"]
      /\ chain' = [chain EXCEPT ![t] = <<>>] /\ got' = [got EXCEPT ![t] = Nil]
      /\ UNCHANGED <<head, tail, array, list, victim, seen, count, next>>
  BY DEF Release, Return, Goto
<1>3. q \in QueueIds /\ queue[q].consumer = t
  BY <1>2, HeldIsMine DEF Consuming
<1> HIDE DEF q
<1>4. queue[q] \in QueueRecord /\ queue \in [QueueIds -> QueueRecord] /\ chain[t] \in Seq(Entries)
  BY <1>1, <1>3 DEF Types
<1>5. queue' = [queue EXCEPT ![q] = after]
  BY <1>3, <1>4 DEF Release, q
<1>6. queue[q].hasCache = TRUE
  <2>1. queue[q].hasCache \in BOOLEAN
    BY <1>4 DEF QueueRecord
  <2>2. queue[q].hasCache
    BY <1>1, <1>3 DEF OneConsumer
  <2> QED
    BY <2>1, <2>2
<1>7. /\ after \in QueueRecord /\ after.consumer = Nil /\ after.cache = chain[t]
      /\ after.hasCache <=> chain[t] # <<>>
  <2>1. (queue[q].hasCache /\ chain[t] # <<>>) \in BOOLEAN
    OBVIOUS
  <2> QED
    BY <1>4, <1>6, <2>1 DEF QueueRecord
<1> HIDE DEF after
<1>8. queue' \in [QueueIds -> QueueRecord] /\ queue'[q] = after
  BY <1>3, <1>4, <1>5, <1>7
<1>9. \A p \in QueueIds : p # q => queue'[p] = queue[p]
  BY <1>4, <1>5
<1>10. pc' \in [Threads -> Labels] /\ pc'[t] = "run" /\ \A u \in Threads : u # t => pc'[u] = pc[u]
  BY <1>1, <1>2 DEF Types, Labels
<1>11. chain' \in [Threads -> Seq(Entries)] /\ got' \in [Threads -> Entries]
  BY <1>1, <1>2 DEF Types, Entries
<1>12. Types'
  BY <1>1, <1>2, <1>8, <1>10, <1>11 DEF Types
<1>13. \A p \in QueueIds : p # q => queue[p].consumer # t
  BY <1>1, <1>3 DEF OneConsumer
<1>14. OneConsumer'
  <2>1. ASSUME NEW u \in Threads
        PROVE  pc'[u] \in Consuming <=> \E p \in QueueIds : queue'[p].consumer = u
    <3>1. CASE u = t
      <4>1. \A p \in QueueIds : queue'[p].consumer # t
        BY <1>7, <1>8, <1>9, <1>13
      <4> QED
        BY <1>10, <3>1, <4>1 DEF Consuming
    <3>2. CASE u # t
      <4>1. pc'[u] = pc[u]
        BY <1>10, <3>2
      <4>2. \A p \in QueueIds : queue'[p].consumer = u <=> queue[p].consumer = u
        <5>1. queue'[q].consumer # u /\ queue[q].consumer # u
          BY <1>3, <1>7, <1>8, <3>2
        <5> QED
          BY <1>9, <5>1
      <4> QED
        BY <1>1, <4>1, <4>2 DEF OneConsumer
    <3> QED
      BY <3>1, <3>2
  <2>2. ASSUME NEW p \in QueueIds, NEW r \in QueueIds, queue'[p].consumer = queue'[r].consumer
        PROVE  p = r \/ queue'[p].consumer = Nil
    <3>1. CASE p = q \/ r = q
      BY <1>7, <1>8, <2>2, <3>1
    <3>2. CASE p # q /\ r # q
      BY <1>1, <1>9, <2>2, <3>2 DEF OneConsumer
    <3> QED
      BY <3>1, <3>2
  <2>3. ASSUME NEW p \in QueueIds
        PROVE  IF queue'[p].consumer = Nil
               THEN queue'[p].hasCache <=> queue'[p].cache # <<>>
               ELSE queue'[p].hasCache
    <3>1. CASE p = q
      BY <1>7, <1>8, <3>1
    <3>2. CASE p # q
      BY <1>1, <1>9, <3>2 DEF OneConsumer
    <3> QED
      BY <3>1, <3>2
  <2> QED
    BY <2>1, <2>2, <2>3 DEF OneConsumer
<1>15. Counts'
  BY <1>1, <1>2, <1>10 DEF Counts
<1> QED
  BY <1>12, <1>14, <1>15 DEF QueueInv

(* Every step keeps the queues' invariant, one case for each operation. *)
LEMMA QueueStep == QueueInv /\ [Next]_vars => QueueInv'
<1> SUFFICES ASSUME QueueInv, [Next]_vars PROVE QueueInv'
  OBVIOUS
<1>1. CASE UNCHANGED vars
  BY <1>1 DEF QueueInv, Types, OneConsumer, Counts, vars
<1>2. CASE PushGlobal
  BY <1>2, QueuePushed
<1>3. ASSUME NEW t \in Threads, Worker(t) PROVE QueueInv'
  <2>1. CASE RingStep(t)
    BY <2>1, RingTyped, RingConsumers DEF QueueInv
  <2>2. CASE PushOverflow(t)
    BY <2>2, QueuePushed
  <2>3. CASE Acquire(t)
    BY <2>3, QueueAcquired
  <2>4. CASE Fill(t) \/ TakeExtra(t)
    BY <2>4, QueueConsumed
  <2>5. CASE Release(t)
    BY <2>5, QueueReleased
  <2> QED
    BY <1>3, <2>1, <2>2, <2>3, <2>4, <2>5 DEF Worker, RingStep
<1> QED
  BY <1>1, <1>2, <1>3 DEF Next

(* The queues' invariant needs no assumption about how far heads move. *)
LEMMA QueueInvHolds == Spec => []QueueInv
  BY QueueInit, QueueStep, PTL DEF Spec

(* Between consumers the HAS_CACHE bit of a queue says whether its cache holds
   nodes, and a queue is consumed by one worker at a time, the one that is
   between its lock and its release: what try_acquire_consumer relies on when it
   leaves the stack alone because the bit is set. *)
THEOREM ConsumersAreExact == Spec => []CacheBitExact
<1>1. ASSUME QueueInv PROVE CacheBitExact
  <2>1. ASSUME NEW q \in QueueIds, queue[q].consumer = Nil
        PROVE  queue[q].hasCache <=> queue[q].cache # <<>>
    BY <1>1, <2>1 DEF QueueInv, OneConsumer
  <2>2. ASSUME NEW q \in QueueIds, NEW t \in Threads
        PROVE  queue[q].consumer = t <=> pc[t] \in Consuming /\ Held(t) = q
    <3>1. ASSUME queue[q].consumer = t PROVE pc[t] \in Consuming /\ Held(t) = q
      BY <1>1, <3>1, HeldIs DEF QueueInv, OneConsumer
    <3>2. ASSUME pc[t] \in Consuming, Held(t) = q PROVE queue[q].consumer = t
      BY <1>1, <3>2, HeldIsMine
    <3> QED
      BY <3>1, <3>2
  <2> QED
    BY <2>1, <2>2 DEF CacheBitExact
<1> QED
  BY <1>1, QueueInvHolds, PTL


-----------------------------------------------------------------------------
(* The rings *)

(* What a worker knows of its own ring: it is empty from the moment pop found it
   so to the store of tail.  A push has seen a head, and others only move the
   head on: there is at least as much room as it seems.  And what a thief knows of its
   victim's: as long as the head is the one it has seen, what it wants is there. *)
RingOf(t) ==
    /\ Minus(tail[t], head[t]) <= CAPACITY
    /\ pc[t] \in {"own", "global", "target", "fill", "extra", "publish", "steal", "stealTail",
                  "copy", "commit", "stealPublish"} => head[t] = tail[t]
    /\ pc[t] = "push" => /\ Minus(tail[t], head[t]) <= Minus(tail[t], seen[t])
                         /\ Minus(tail[t], seen[t]) <= CAPACITY
    /\ pc[t] = "pushTail" => Minus(tail[t], head[t]) + count[t] <= CAPACITY
    /\ pc[t] \in {"steal", "stealTail", "copy", "commit"} => victim[t] # t
    /\ pc[t] \in {"copy", "commit"} /\ head[victim[t]] = seen[t] =>
          count[t] <= Minus(tail[victim[t]], head[victim[t]])

Rings == \A t \in Threads : RingOf(t)

(* The indexes are finite: between the loads of steal and its compare-exchange a
   head might go once round and be back where it was.  That it does not, within
   2^32 nodes, is what the code relies on, and an assumption here. *)
HeadsMoveOn ==
    \A t \in Threads :
        pc[t] \in {"copy", "commit"} /\ head[victim[t]] # seen[t] => head'[victim[t]] # seen[t]

(* The variables of the other workers. *)
OthersStay(t) ==
    \A u \in Threads \ {t} : /\ pc'[u] = pc[u] /\ seen'[u] = seen[u]
                             /\ count'[u] = count[u] /\ victim'[u] = victim[u]

(* The length of a ring, zero only when head and tail agree. *)
LEMMA MinusNat ==
    ASSUME NEW i \in Index, NEW j \in Index
    PROVE  Minus(i, j) \in Nat /\ (Minus(i, j) = 0 <=> i = j)
  BY MinusIs, RunQueuesAssumption DEF Index

(* Moving an index by at most the capacity changes it unless by nothing. *)
LEMMA PlusMoves ==
    ASSUME NEW i \in Index, NEW n \in Nat, n <= CAPACITY
    PROVE  Plus(i, n) \in Index /\ (Plus(i, n) = i <=> n = 0)
<1>1. IndexMod \in Nat \ {0} /\ IndexMod > CAPACITY /\ CAPACITY \in Nat
  BY RunQueuesAssumption
<1>2. i \in Int /\ 0 <= i /\ i < IndexMod
  BY <1>1 DEF Index
<1>3. Plus(i, n) \in Index /\ Plus(i, n) = IF i + n < IndexMod THEN i + n ELSE i + n - IndexMod
  BY PlusIs
<1> QED
  BY <1>1, <1>2, <1>3

(* Neither index of any ring moves. *)
LEMMA RingsStay ==
    ASSUME Rings, NEW t \in Threads, OthersStay(t), UNCHANGED <<head, tail>>, RingOf(t)'
    PROVE  Rings'
<1>1. ASSUME NEW u \in Threads, u # t PROVE RingOf(u)'
  <2>1. pc'[u] = pc[u] /\ seen'[u] = seen[u] /\ count'[u] = count[u] /\ victim'[u] = victim[u]
    BY <1>1 DEF OthersStay
  <2>2. RingOf(u)
    BY DEF Rings
  <2> QED
    BY <2>1, <2>2 DEF RingOf
<1> QED
  BY <1>1 DEF Rings

(* A head moves on, past nodes that are there. *)
LEMMA HeadAdvances ==
    ASSUME Types, Rings, HeadsMoveOn, NEW t \in Threads, OthersStay(t), tail' = tail,
           NEW v \in Threads, NEW n \in Nat, n <= Minus(tail[v], head[v]),
           head' = [head EXCEPT ![v] = Plus(head[v], n)], RingOf(t)'
    PROVE  Rings'
<1>1. /\ head \in [Threads -> Index] /\ tail \in [Threads -> Index] /\ CAPACITY \in Nat
      /\ seen \in [Threads -> Index] /\ victim \in [Threads -> Threads]
      /\ count \in [Threads -> 0..CAPACITY]
  BY RunQueuesAssumption DEF Types
<1>2. Minus(tail[v], head[v]) <= CAPACITY /\ Minus(tail[v], head[v]) \in Nat
  BY <1>1, MinusNat DEF Rings, RingOf
<1>3. n <= CAPACITY
  BY <1>1, <1>2
<1>4. head'[v] = Plus(head[v], n) /\ \A u \in Threads : u # v => head'[u] = head[u]
  BY <1>1
<1>5. Plus(head[v], n) \in Index /\ (Plus(head[v], n) = head[v] <=> n = 0)
  BY <1>1, <1>3, PlusMoves
<1>6. Minus(tail[v], head'[v]) = Minus(tail[v], head[v]) - n
  BY <1>1, <1>3, <1>4, HeadMoves
<1>7. ASSUME NEW u \in Threads
      PROVE  /\ head'[u] \in Index /\ Minus(tail[u], head[u]) \in Nat
             /\ Minus(tail[u], head'[u]) \in Nat
             /\ Minus(tail[u], head'[u]) <= Minus(tail[u], head[u])
             /\ head[u] = tail[u] => head'[u] = tail[u]
  <2>1. head'[u] \in Index
    BY <1>1, <1>4, <1>5
  <2>2. /\ Minus(tail[u], head[u]) \in Nat /\ (Minus(tail[u], head[u]) = 0 <=> tail[u] = head[u])
        /\ Minus(tail[u], head'[u]) \in Nat /\ (Minus(tail[u], head'[u]) = 0 <=> tail[u] = head'[u])
    BY <1>1, <2>1, MinusNat
  <2>3. Minus(tail[u], head'[u]) <= Minus(tail[u], head[u])
    BY <1>4, <1>6, <2>2
  <2> QED
    BY <2>1, <2>2, <2>3
<1>8. ASSUME NEW u \in Threads, u # t PROVE RingOf(u)'
  <2>1. pc'[u] = pc[u] /\ seen'[u] = seen[u] /\ count'[u] = count[u] /\ victim'[u] = victim[u]
    BY <1>8 DEF OthersStay
  <2>2. RingOf(u) /\ victim[u] \in Threads /\ count[u] \in Nat
    BY <1>1 DEF Rings
  <2>3. Minus(tail'[u], head'[u]) <= CAPACITY
    BY <1>1, <1>7, <2>2 DEF RingOf
  <2>4. pc'[u] \in {"own", "global", "target", "fill", "extra", "publish", "steal", "stealTail",
                    "copy", "commit", "stealPublish"} => head'[u] = tail'[u]
    BY <1>7, <2>1, <2>2 DEF RingOf
  <2>5. pc'[u] = "push" => /\ Minus(tail'[u], head'[u]) <= Minus(tail'[u], seen'[u])
                           /\ Minus(tail'[u], seen'[u]) <= CAPACITY
    <3>1. Minus(tail[u], seen[u]) \in Nat
      BY <1>1, MinusNat
    <3> QED
      BY <1>7, <2>1, <2>2, <3>1 DEF RingOf
  <2>6. pc'[u] = "pushTail" => Minus(tail'[u], head'[u]) + count'[u] <= CAPACITY
    BY <1>1, <1>7, <2>1, <2>2 DEF RingOf
  <2>7. pc'[u] \in {"steal", "stealTail", "copy", "commit"} => victim'[u] # u
    BY <2>1, <2>2 DEF RingOf
  <2>8. ASSUME pc'[u] \in {"copy", "commit"}, head'[victim'[u]] = seen'[u]
        PROVE  count'[u] <= Minus(tail'[victim'[u]], head'[victim'[u]])
    <3>1. head[victim[u]] = seen[u]
      BY <2>1, <2>8 DEF HeadsMoveOn
    <3>2. count[u] <= Minus(tail[victim[u]], head[victim[u]])
      BY <2>1, <2>2, <2>8, <3>1 DEF RingOf
    <3>3. head'[victim[u]] = head[victim[u]]
      BY <2>1, <2>8, <3>1
    <3> QED
      BY <2>1, <3>2, <3>3
  <2> QED
    BY <2>3, <2>4, <2>5, <2>6, <2>7, <2>8 DEF RingOf
<1> QED
  BY <1>8 DEF Rings

(* A worker moves its tail on, to cover nodes there is room for. *)
LEMMA TailAdvances ==
    ASSUME Types, Rings, NEW t \in Threads, OthersStay(t), head' = head,
           NEW n \in Nat, Minus(tail[t], head[t]) + n <= CAPACITY,
           tail' = [tail EXCEPT ![t] = Plus(tail[t], n)],
           pc'[t] \in {"run", "pushLoad", "release"}
    PROVE  Rings'
<1>1. /\ head \in [Threads -> Index] /\ tail \in [Threads -> Index] /\ CAPACITY \in Nat
      /\ victim \in [Threads -> Threads] /\ count \in [Threads -> 0..CAPACITY]
  BY RunQueuesAssumption DEF Types
<1>2. tail'[t] = Plus(tail[t], n) /\ \A u \in Threads : u # t => tail'[u] = tail[u]
  BY <1>1
<1>3. Minus(tail'[t], head[t]) = Minus(tail[t], head[t]) + n
  BY <1>1, <1>2, TailMoves
<1>4. ASSUME NEW u \in Threads, u # t PROVE RingOf(u)'
  <2>1. pc'[u] = pc[u] /\ seen'[u] = seen[u] /\ count'[u] = count[u] /\ victim'[u] = victim[u]
    BY <1>4 DEF OthersStay
  <2>2. RingOf(u) /\ victim[u] \in Threads /\ count[u] \in Nat
    BY <1>1 DEF Rings
  <2>3. tail'[u] = tail[u] /\ head'[u] = head[u]
    BY <1>2, <1>4
  <2>4. ASSUME pc'[u] \in {"copy", "commit"}, head'[victim'[u]] = seen'[u]
        PROVE  count'[u] <= Minus(tail'[victim'[u]], head'[victim'[u]])
    <3>1. count[u] <= Minus(tail[victim[u]], head[victim[u]])
      BY <2>1, <2>2, <2>4 DEF RingOf
    <3>2. CASE victim[u] = t
      <4>1. Minus(tail[t], head[t]) \in Nat
        BY <1>1, MinusNat
      <4> QED
        BY <1>3, <2>1, <2>2, <3>1, <3>2, <4>1
    <3>3. CASE victim[u] # t
      BY <1>2, <2>1, <2>2, <3>1, <3>3
    <3> QED
      BY <3>2, <3>3
  <2> QED
    BY <2>1, <2>2, <2>3, <2>4 DEF RingOf
<1>5. RingOf(t)'
  BY <1>3 DEF RingOf
<1> QED
  BY <1>4, <1>5 DEF Rings


(* All rings are empty at the start. *)
LEMMA RingsInit == Init => Rings
<1> SUFFICES ASSUME Init, NEW t \in Threads PROVE RingOf(t)
  BY DEF Rings
<1>1. Start \in Index /\ CAPACITY \in Nat
  BY RunQueuesAssumption DEF Index
<1>2. Minus(Start, Start) = 0
  BY <1>1, MinusNat
<1> QED
  BY <1>1, <1>2 DEF Init, RingOf

(* Every step keeps the rings' invariant, as long as no head comes round between a
   thief's load and its exchange. *)
LEMMA RingsStep == QueueInv /\ Rings /\ HeadsMoveOn /\ [Next]_vars => Rings'
<1> SUFFICES ASSUME QueueInv, Rings, HeadsMoveOn, [Next]_vars PROVE Rings'
  OBVIOUS
<1>1. Types /\ Counts
  BY DEF QueueInv
<1>2. /\ head \in [Threads -> Index] /\ tail \in [Threads -> Index] /\ seen \in [Threads -> Index]
      /\ victim \in [Threads -> Threads] /\ count \in [Threads -> 0..CAPACITY]
      /\ pc \in [Threads -> Labels] /\ list \in [Threads -> Seq(Entries)]
  BY <1>1 DEF Types
<1>3. CAPACITY \in Nat \ {0} /\ CAPACITY \div 2 \in Nat /\ CAPACITY \div 2 <= CAPACITY
  BY RunQueuesAssumption
<1>4. CASE UNCHANGED vars \/ PushGlobal
  <2>1. UNCHANGED <<head, tail, pc, seen, count, victim>>
    BY <1>4 DEF vars, PushGlobal
  <2> QED
    BY <2>1 DEF Rings, RingOf
<1>5. ASSUME NEW t \in Threads, Worker(t) PROVE Rings'
  <2>1. /\ head[t] \in Index /\ tail[t] \in Index /\ seen[t] \in Index /\ count[t] \in Nat
        /\ victim[t] \in Threads /\ count[t] <= CAPACITY /\ Len(list[t]) \in Nat
        /\ head[victim[t]] \in Index /\ tail[victim[t]] \in Index
    BY <1>2, <1>3
  <2>2. /\ Minus(tail[t], head[t]) \in Nat /\ (Minus(tail[t], head[t]) = 0 <=> tail[t] = head[t])
        /\ Minus(tail[t], seen[t]) \in Nat
        /\ Minus(tail[victim[t]], seen[t]) \in Nat
    BY <2>1, MinusNat
  <2>3. RingOf(t)
    BY DEF Rings
  <2>4. CASE ScheduleInside(t) \/ PushLoad(t)
    <3>1. /\ UNCHANGED <<head, tail, count, victim>> /\ seen' = [seen EXCEPT ![t] = head[t]]
          /\ pc' = [pc EXCEPT ![t] = "push"]
      BY <2>4 DEF ScheduleInside, PushLoad, Goto
    <3>2. pc'[t] = "push" /\ seen'[t] = head[t] /\ OthersStay(t)
      BY <1>2, <3>1 DEF OthersStay
    <3>3. RingOf(t)'
      BY <2>2, <2>3, <3>1, <3>2 DEF RingOf
    <3> QED
      BY <3>1, <3>2, <3>3, RingsStay
  <2>5. CASE PushWrite(t)
    <3> DEFINE size == Minus(tail[t], seen[t])
               n    == IF Len(list[t]) < CAPACITY - size THEN Len(list[t]) ELSE CAPACITY - size
    <3>1. /\ UNCHANGED <<head, tail, victim, seen>> /\ pc[t] = "push"
          /\ count' = [count EXCEPT ![t] = n] /\ pc' = [pc EXCEPT ![t] = "pushTail"]
      BY <2>5 DEF PushWrite, Goto
    <3>2. pc'[t] = "pushTail" /\ count'[t] = n /\ OthersStay(t)
      BY <1>2, <3>1 DEF OthersStay
    <3>3. Minus(tail[t], head[t]) + n <= CAPACITY
      <4>1. size \in Nat /\ Minus(tail[t], head[t]) <= size /\ size <= CAPACITY
        BY <2>2, <2>3, <3>1 DEF RingOf
      <4> HIDE DEF size
      <4> QED
        BY <1>3, <2>1, <2>2, <4>1
    <3> HIDE DEF n
    <3>4. RingOf(t)'
      BY <2>3, <3>1, <3>2, <3>3 DEF RingOf
    <3> QED
      BY <3>1, <3>2, <3>4, RingsStay
  <2>6. CASE PushTail(t)
    <3>1. /\ UNCHANGED <<head, victim, seen>> /\ pc[t] = "pushTail"
          /\ tail' = [tail EXCEPT ![t] = Plus(tail[t], count[t])]
          /\ count' = [count EXCEPT ![t] = 0]
          /\ \E to \in {"run", "pushLoad", "release"} : pc' = [pc EXCEPT ![t] = to]
      BY <1>2, <2>6 DEF PushTail, Goto
    <3>2. OthersStay(t) /\ pc'[t] \in {"run", "pushLoad", "release"}
      BY <1>2, <3>1 DEF OthersStay
    <3>3. Minus(tail[t], head[t]) + count[t] <= CAPACITY
      BY <2>3, <3>1 DEF RingOf
    <3> QED
      BY <1>1, <2>1, <3>1, <3>2, <3>3, TailAdvances
  <2>7. CASE Publish(t) \/ StealPublish(t)
    <3>1. /\ UNCHANGED <<head, victim, seen>> /\ pc[t] \in {"publish", "stealPublish"}
          /\ tail' = [tail EXCEPT ![t] = Plus(tail[t], count[t])]
          /\ count' = [count EXCEPT ![t] = 0]
          /\ \E to \in {"run", "release"} : pc' = [pc EXCEPT ![t] = to]
      BY <1>2, <2>7 DEF Publish, StealPublish, Return, Goto
    <3>2. OthersStay(t) /\ pc'[t] \in {"run", "pushLoad", "release"}
      BY <1>2, <3>1 DEF OthersStay
    <3>3. Minus(tail[t], head[t]) + count[t] <= CAPACITY
      <4>1. head[t] = tail[t]
        BY <2>3, <3>1 DEF RingOf
      <4> QED
        BY <1>3, <2>1, <2>2, <4>1
    <3> QED
      BY <1>1, <2>1, <3>1, <3>2, <3>3, TailAdvances
  <2>8. CASE PushMigrate(t)
    <3>1. /\ UNCHANGED <<tail, victim, count>> /\ pc[t] = "push"
          /\ Minus(tail[t], seen[t]) = CAPACITY
          /\ \/ /\ head[t] = seen[t] /\ head' = [head EXCEPT ![t] = Plus(head[t], CAPACITY \div 2)]
                /\ pc' = [pc EXCEPT ![t] = "overflow"] /\ seen' = seen
             \/ seen' = [seen EXCEPT ![t] = head[t]] /\ UNCHANGED <<head, pc>>
      BY <1>2, <2>8 DEF PushMigrate, Goto
    <3>2. CASE seen' = [seen EXCEPT ![t] = head[t]] /\ UNCHANGED <<head, pc>>
      <4>1. seen'[t] = head[t] /\ pc'[t] = "push" /\ OthersStay(t)
        BY <1>2, <3>1, <3>2 DEF OthersStay
      <4>2. RingOf(t)'
        BY <2>2, <2>3, <3>1, <3>2, <4>1 DEF RingOf
      <4> QED
        BY <3>1, <3>2, <4>1, <4>2, RingsStay
    <3>3. CASE /\ head[t] = seen[t] /\ head' = [head EXCEPT ![t] = Plus(head[t], CAPACITY \div 2)]
               /\ pc' = [pc EXCEPT ![t] = "overflow"] /\ seen' = seen
      <4>1. pc'[t] = "overflow" /\ OthersStay(t) /\ head'[t] = Plus(head[t], CAPACITY \div 2)
        BY <1>2, <3>1, <3>3 DEF OthersStay
      <4>2. CAPACITY \div 2 <= Minus(tail[t], head[t])
        BY <1>3, <3>1, <3>3
      <4>3. Minus(tail[t], head'[t]) = Minus(tail[t], head[t]) - (CAPACITY \div 2)
        BY <1>3, <2>1, <4>1, <4>2, HeadMoves
      <4>4. RingOf(t)'
        <5>1. Minus(tail'[t], head'[t]) <= CAPACITY
          BY <1>3, <2>2, <2>3, <3>1, <4>3 DEF RingOf
        <5> QED
          BY <4>1, <5>1 DEF RingOf
      <4> QED
        BY <1>1, <1>3, <3>1, <3>3, <4>1, <4>2, <4>4, HeadAdvances
    <3> QED
      BY <3>1, <3>2, <3>3
  <2>9. CASE PopBuffer(t)
    <3>1. /\ UNCHANGED <<tail, victim, count, seen>> /\ pc[t] = "pop"
          /\ \/ /\ head[t] # tail[t] /\ head' = [head EXCEPT ![t] = Plus(head[t], 1)]
                /\ pc' = [pc EXCEPT ![t] = "run"]
             \/ head[t] = tail[t] /\ head' = head /\ pc' = [pc EXCEPT ![t] = "own"]
      BY <1>2, <2>9 DEF PopBuffer, Return, Goto
    <3>2. CASE head[t] = tail[t] /\ head' = head /\ pc' = [pc EXCEPT ![t] = "own"]
      <4>1. pc'[t] = "own" /\ OthersStay(t)
        BY <1>2, <3>1, <3>2 DEF OthersStay
      <4>2. RingOf(t)'
        BY <2>3, <3>1, <3>2, <4>1 DEF RingOf
      <4> QED
        BY <3>1, <3>2, <4>1, <4>2, RingsStay
    <3>3. CASE /\ head[t] # tail[t] /\ head' = [head EXCEPT ![t] = Plus(head[t], 1)]
               /\ pc' = [pc EXCEPT ![t] = "run"]
      <4>1. pc'[t] = "run" /\ OthersStay(t) /\ head'[t] = Plus(head[t], 1)
        BY <1>2, <3>1, <3>3 DEF OthersStay
      <4>2. 1 <= Minus(tail[t], head[t])
        BY <2>2, <3>3
      <4>3. Minus(tail[t], head'[t]) = Minus(tail[t], head[t]) - 1
        BY <1>3, <2>1, <4>1, <4>2, HeadMoves
      <4>4. RingOf(t)'
        <5>1. Minus(tail'[t], head'[t]) <= CAPACITY
          BY <1>3, <2>2, <2>3, <3>1, <4>3 DEF RingOf
        <5> QED
          BY <4>1, <5>1 DEF RingOf
      <4> QED
        BY <1>1, <1>3, <3>1, <3>3, <4>1, <4>2, <4>4, HeadAdvances
    <3> QED
      BY <3>1, <3>2, <3>3
  <2>10. CASE PushOverflow(t) \/ Release(t)
    <3>1. UNCHANGED <<head, tail, victim, seen, count>> /\ pc' = [pc EXCEPT ![t] = "run"]
      BY <2>10 DEF PushOverflow, Release, Return, Goto
    <3>2. pc'[t] = "run" /\ OthersStay(t)
      BY <1>2, <3>1 DEF OthersStay
    <3>3. RingOf(t)'
      BY <2>3, <3>1, <3>2 DEF RingOf
    <3> QED
      BY <3>1, <3>2, <3>3, RingsStay
  <2>11. CASE Acquire(t) \/ Fill(t) \/ TakeExtra(t)
    <3>1. /\ UNCHANGED <<head, tail, victim, seen>>
          /\ pc[t] \in {"own", "global", "target", "fill", "extra"}
          /\ pc' = pc \/ \E to \in {"fill", "extra", "publish"} : pc' = [pc EXCEPT ![t] = to]
          /\ count' = count \/ \E n : count' = [count EXCEPT ![t] = n]
      BY <2>11 DEF Acquire, Fill, TakeExtra, Goto
    <3>2. pc'[t] \in {"own", "global", "target", "fill", "extra", "publish"} /\ OthersStay(t)
      BY <1>2, <3>1 DEF OthersStay
    <3>3. RingOf(t)'
      BY <2>3, <3>1, <3>2 DEF RingOf
    <3> QED
      BY <3>1, <3>2, <3>3, RingsStay
  <2>12. CASE TurnedAway(t)
    <3>1. /\ UNCHANGED <<head, tail, count, seen>> /\ pc[t] \in {"own", "global", "target"}
          /\ victim' = victim \/ \E v \in Threads : victim' = [victim EXCEPT ![t] = v]
          /\ \/ \E to \in {"global", "target", "pop"} : pc' = [pc EXCEPT ![t] = to]
             \/ pc' = [pc EXCEPT ![t] = "steal"] /\ victim' = victim /\ victim[t] # t
      BY <2>12 DEF TurnedAway, Goto
    <3>2. /\ pc'[t] \in {"global", "target", "pop", "steal"} /\ OthersStay(t)
          /\ pc'[t] = "steal" => victim'[t] # t
      BY <1>2, <3>1 DEF OthersStay
    <3>3. RingOf(t)'
      BY <2>3, <3>1, <3>2 DEF RingOf
    <3> QED
      BY <3>1, <3>2, <3>3, RingsStay
  <2>13. CASE StealHead(t)
    <3>1. /\ UNCHANGED <<head, tail, count, victim>> /\ pc[t] = "steal"
          /\ seen' = [seen EXCEPT ![t] = head[victim[t]]] /\ pc' = [pc EXCEPT ![t] = "stealTail"]
      BY <2>13 DEF StealHead, Goto
    <3>2. pc'[t] = "stealTail" /\ OthersStay(t)
      BY <1>2, <3>1 DEF OthersStay
    <3>3. RingOf(t)'
      BY <2>3, <3>1, <3>2 DEF RingOf
    <3> QED
      BY <3>1, <3>2, <3>3, RingsStay
  <2>14. CASE StealTail(t)
    <3> DEFINE size == Minus(tail[victim[t]], seen[t])
    <3>1. /\ UNCHANGED <<head, tail, seen, victim>> /\ pc[t] = "stealTail"
          /\ \/ /\ \E to \in {"steal", "pop"} : pc' = [pc EXCEPT ![t] = to]
                /\ \E n : count' = [count EXCEPT ![t] = n]
             \/ /\ pc' = [pc EXCEPT ![t] = "copy"]
                /\ count' = [count EXCEPT ![t] = size - (size \div 2)]
      BY <2>14, Zenon DEF StealTail, Goto
    <3>2. pc'[t] \in {"steal", "pop", "copy"} /\ OthersStay(t)
      BY <1>2, <3>1 DEF OthersStay
    <3>3. pc'[t] = "copy" => count'[t] = size - (size \div 2)
      BY <1>2, <3>1
    <3>4. size - (size \div 2) <= size
      BY <2>2
    <3>5. pc'[t] = "copy" /\ head'[victim'[t]] = seen'[t] =>
             count'[t] <= Minus(tail'[victim'[t]], head'[victim'[t]])
      BY <3>1, <3>3, <3>4
    <3>6. RingOf(t)'
      BY <2>3, <3>1, <3>2, <3>5 DEF RingOf
    <3> QED
      BY <3>1, <3>2, <3>6, RingsStay
  <2>15. CASE StealCopy(t)
    <3>1. /\ UNCHANGED <<head, tail, count, victim, seen>> /\ pc[t] = "copy"
          /\ pc' = [pc EXCEPT ![t] = "commit"]
      BY <2>15 DEF StealCopy, Goto
    <3>2. pc'[t] = "commit" /\ OthersStay(t)
      BY <1>2, <3>1 DEF OthersStay
    <3>3. RingOf(t)'
      BY <2>3, <3>1, <3>2 DEF RingOf
    <3> QED
      BY <3>1, <3>2, <3>3, RingsStay
  <2>16. CASE StealCommit(t)
    <3>1. /\ UNCHANGED <<tail, victim, seen>> /\ pc[t] = "commit"
          /\ \/ /\ head[victim[t]] = seen[t]
                /\ head' = [head EXCEPT ![victim[t]] = Plus(head[victim[t]], count[t])]
                /\ count' = [count EXCEPT ![t] = count[t] - 1]
                /\ pc' = [pc EXCEPT ![t] = "stealPublish"]
             \/ /\ count' = [count EXCEPT ![t] = 0] /\ pc' = [pc EXCEPT ![t] = "steal"]
                /\ head' = head
      BY <1>2, <2>16 DEF StealCommit, Goto
    <3>2. CASE /\ count' = [count EXCEPT ![t] = 0] /\ pc' = [pc EXCEPT ![t] = "steal"]
               /\ head' = head
      <4>1. pc'[t] = "steal" /\ OthersStay(t)
        BY <1>2, <3>1, <3>2 DEF OthersStay
      <4>2. RingOf(t)'
        BY <2>3, <3>1, <3>2, <4>1 DEF RingOf
      <4> QED
        BY <3>1, <3>2, <4>1, <4>2, RingsStay
    <3>3. CASE /\ head[victim[t]] = seen[t]
               /\ head' = [head EXCEPT ![victim[t]] = Plus(head[victim[t]], count[t])]
               /\ count' = [count EXCEPT ![t] = count[t] - 1]
               /\ pc' = [pc EXCEPT ![t] = "stealPublish"]
      <4>1. pc'[t] = "stealPublish" /\ OthersStay(t)
        BY <1>2, <3>1, <3>3 DEF OthersStay
      <4>2. count[t] <= Minus(tail[victim[t]], head[victim[t]]) /\ victim[t] # t
        BY <2>3, <3>1, <3>3 DEF RingOf
      <4>3. head'[t] = head[t]
        BY <1>2, <3>3, <4>2
      <4>4. RingOf(t)'
        BY <2>3, <3>1, <4>1, <4>3 DEF RingOf
      <4> QED
        BY <1>1, <2>1, <3>1, <3>3, <4>1, <4>2, <4>4, HeadAdvances
    <3> QED
      BY <3>1, <3>2, <3>3
  <2>17. CASE Finish(t)
    <3>1. /\ UNCHANGED <<head, tail, count>> /\ pc' = [pc EXCEPT ![t] = "pop"]
          /\ victim' = [victim EXCEPT ![t] = t] /\ seen' = [seen EXCEPT ![t] = Start]
      BY <2>17 DEF Finish, Goto
    <3>2. pc'[t] = "pop" /\ OthersStay(t)
      BY <1>2, <3>1 DEF OthersStay
    <3>3. RingOf(t)'
      BY <2>3, <3>1, <3>2 DEF RingOf
    <3> QED
      BY <3>1, <3>2, <3>3, RingsStay
  <2> QED
    BY <1>5, <2>4, <2>5, <2>6, <2>7, <2>8, <2>9, <2>10, <2>11, <2>12, <2>13, <2>14, <2>15, <2>16,
       <2>17 DEF Worker
<1> QED
  BY <1>4, <1>5 DEF Next

(* No ring ever holds more than CAPACITY nodes, and a worker's ring is empty
   while it consumes or steals, so that what is written beyond tail overwrites
   nothing: owner and thieves move a head by compare-exchange, and the owner's
   picture of it can only err on the safe side.  The assumption is that no head
   goes once round 2^32 during one call of steal. *)
THEOREM RingsAreWithinBounds == Spec /\ [][HeadsMoveOn]_vars => []RingWithinBounds
<1>1. ASSUME Rings PROVE RingWithinBounds
  BY <1>1 DEF Rings, RingOf, RingWithinBounds, Consuming
<1>2. QueueInv /\ Rings /\ [Next]_vars /\ [HeadsMoveOn]_vars => Rings'
  <2>1. CASE UNCHANGED vars
    <3>1. UNCHANGED <<head, tail, pc, seen, count, victim>>
      BY <2>1 DEF vars
    <3> QED
      BY <3>1 DEF Rings, RingOf
  <2> QED
    BY <2>1, RingsStep
<1>3. Spec => []QueueInv
  BY QueueInvHolds
<1> QED
  BY <1>1, <1>2, <1>3, RingsInit, PTL DEF Spec

-----------------------------------------------------------------------------
(* Slots *)

(* Quotient and remainder. *)
LEMMA DivMod ==
    ASSUME NEW m \in Nat \ {0}, NEW a \in Int
    PROVE  a \div m \in Int /\ a % m \in 0..(m - 1) /\ a = m * (a \div m) + (a % m)
  OBVIOUS

(* Multiples of m are at least m apart. *)
LEMMA TimesAtLeast ==
    ASSUME NEW m \in Nat \ {0}, NEW d \in Int, NEW e \in Int, d > e
    PROVE  m * d >= m * e + m
<1>1. m * (d - e) >= m
  <2>1. d - e >= 1 /\ d - e \in Int
    OBVIOUS
  <2> DEFINE f == d - e
  <2> HIDE DEF f
  <2>2. f \in Int /\ f >= 1
    BY <2>1 DEF f
  <2>3. m * f >= m
    BY <2>2
  <2> QED
    BY <2>3 DEF f
<1>2. m * (d - e) = m * d - m * e
  OBVIOUS
<1>3. m * d \in Int /\ m * e \in Int
  OBVIOUS
<1> QED
  BY <1>1, <1>2, <1>3

(* Quotient and remainder are unique. *)
LEMMA RemainderIs ==
    ASSUME NEW m \in Nat \ {0}, NEW d \in Int, NEW e \in Int,
           NEW r \in 0..(m - 1), NEW x \in 0..(m - 1), m * d + r = m * e + x
    PROVE  d = e /\ r = x
<1>1. m * d \in Int /\ m * e \in Int /\ r \in Int /\ x \in Int
  OBVIOUS
<1>2. CASE d > e
  <2>1. m * d >= m * e + m
    BY <1>2, TimesAtLeast
  <2> QED
    BY <1>1, <2>1
<1>3. CASE e > d
  <2>1. m * e >= m * d + m
    BY <1>3, TimesAtLeast
  <2> QED
    BY <1>1, <2>1
<1>4. CASE d = e
  BY <1>1, <1>4
<1> QED
  BY <1>2, <1>3, <1>4

(* The slot of an index is that of the sum, whether or not the sum wraps. *)
LEMMA SlotOfPlus ==
    ASSUME NEW i \in Index, NEW n \in 0..CAPACITY
    PROVE  Slot(Plus(i, n)) = (i + n) % CAPACITY
<1>1. /\ IndexMod \in Nat \ {0} /\ IndexMod > CAPACITY /\ CAPACITY \in Nat \ {0}
      /\ IndexMod % CAPACITY = 0
  BY RunQueuesAssumption
<1>2. i \in Int /\ n \in Int /\ 0 <= n /\ n <= CAPACITY
  BY <1>1 DEF Index
<1>3. Plus(i, n) = IF i + n < IndexMod THEN i + n ELSE i + n - IndexMod
  BY <1>1, <1>2, PlusIs
<1>4. CASE i + n < IndexMod
  BY <1>3, <1>4 DEF Slot
<1>5. CASE ~(i + n < IndexMod)
  <2> DEFINE a == i + n
             b == i + n - IndexMod
             q == IndexMod \div CAPACITY
             d == a \div CAPACITY
             e == b \div CAPACITY
  <2>1. a \in Int /\ b \in Int /\ a = b + IndexMod
    BY <1>1, <1>2
  <2> HIDE DEF a, b
  <2>2. q \in Int /\ IndexMod = CAPACITY * q
    <3>1. q \in Int /\ IndexMod = CAPACITY * q + (IndexMod % CAPACITY) /\ CAPACITY * q \in Int
      BY <1>1, DivMod
    <3> QED
      BY <1>1, <3>1
  <2>3. d \in Int /\ a % CAPACITY \in 0..(CAPACITY - 1) /\ a = CAPACITY * d + (a % CAPACITY)
    BY <1>1, <2>1, DivMod
  <2>4. e \in Int /\ b % CAPACITY \in 0..(CAPACITY - 1) /\ b = CAPACITY * e + (b % CAPACITY)
    BY <1>1, <2>1, DivMod
  <2> DEFINE r == a % CAPACITY
             x == b % CAPACITY
  <2> HIDE DEF q, d, e, r, x
  <2>5. CAPACITY * (e + q) = CAPACITY * e + CAPACITY * q
    BY <1>1, <2>2, <2>4
  <2>6. CAPACITY * d + r = CAPACITY * (e + q) + x
    <3>1. a = CAPACITY * d + r /\ b = CAPACITY * e + x
      BY <2>3, <2>4 DEF r, x
    <3>2. CAPACITY * d \in Int /\ CAPACITY * e \in Int /\ CAPACITY * q \in Int
      BY <1>1, <2>2, <2>3, <2>4
    <3>3. r \in Int /\ x \in Int
      BY <1>1, <2>3, <2>4 DEF r, x
    <3> QED
      BY <2>1, <2>2, <2>5, <3>1, <3>2, <3>3
  <2>7. r \in 0..(CAPACITY - 1) /\ x \in 0..(CAPACITY - 1) /\ e + q \in Int
    BY <2>2, <2>3, <2>4 DEF r, x
  <2> DEFINE g == e + q
  <2> HIDE DEF g
  <2>8. r = x
    <3>1. CAPACITY * d + r = CAPACITY * g + x /\ g \in Int /\ d \in Int
      BY <2>3, <2>6, <2>7 DEF g
    <3> QED
      BY <1>1, <2>7, <3>1, RemainderIs
  <2>9. Plus(i, n) = b
    BY <1>3, <1>5 DEF b
  <2> QED
    BY <2>8, <2>9, Zenon DEF Slot, a, r, x
<1> QED
  BY <1>4, <1>5

(* CAPACITY indexes in a row have different slots. *)
LEMMA SlotsApart ==
    ASSUME NEW i \in Index, NEW j \in 0..(CAPACITY - 1), NEW k \in 0..(CAPACITY - 1),
           Slot(Plus(i, j)) = Slot(Plus(i, k))
    PROVE  j = k
<1>1. CAPACITY \in Nat \ {0} /\ i \in Int /\ j \in Int /\ k \in Int
      /\ j \in 0..CAPACITY /\ k \in 0..CAPACITY
  BY RunQueuesAssumption DEF Index
<1> DEFINE a == i + j
           b == i + k
<1>2. a % CAPACITY = b % CAPACITY
  BY <1>1, SlotOfPlus
<1>3. a \in Int /\ b \in Int
  BY <1>1
<1> HIDE DEF a, b
<1> DEFINE d == a \div CAPACITY
           e == b \div CAPACITY
           r == a % CAPACITY
<1>4. d \in Int /\ e \in Int /\ r \in 0..(CAPACITY - 1) /\ a = CAPACITY * d + r
      /\ b = CAPACITY * e + r
  BY <1>1, <1>2, <1>3, DivMod
<1> HIDE DEF d, e, r
<1>5. CAPACITY * d \in Int /\ CAPACITY * e \in Int /\ r \in Int
  BY <1>1, <1>4
<1>6. a - b = CAPACITY * d - CAPACITY * e /\ a - b = j - k
  BY <1>1, <1>4, <1>5 DEF a, b
<1>7. CASE d > e
  <2>1. CAPACITY * d >= CAPACITY * e + CAPACITY
    BY <1>1, <1>4, <1>7, TimesAtLeast
  <2> QED
    BY <1>1, <1>5, <1>6, <2>1
<1>8. CASE e > d
  <2>1. CAPACITY * e >= CAPACITY * d + CAPACITY
    BY <1>1, <1>4, <1>8, TimesAtLeast
  <2> QED
    BY <1>1, <1>5, <1>6, <2>1
<1>9. CASE d = e
  BY <1>1, <1>5, <1>6, <1>9
<1> QED
  BY <1>4, <1>7, <1>8, <1>9

(* Two moves of an index are one move by the sum. *)
LEMMA PlusPlus ==
    ASSUME NEW i \in Index, NEW n \in Nat, NEW k \in Nat, n + k <= CAPACITY
    PROVE  Plus(Plus(i, n), k) = Plus(i, n + k) /\ Plus(i, 0) = i
<1>1. IndexMod \in Nat \ {0} /\ IndexMod > CAPACITY /\ CAPACITY \in Nat
  BY RunQueuesAssumption
<1>2. i \in Int /\ 0 <= i /\ i < IndexMod
  BY <1>1 DEF Index
<1>3. n <= CAPACITY /\ k <= CAPACITY /\ n + k \in Nat
  BY <1>1
<1>4. Plus(i, n) \in Index /\ Plus(i, n) = IF i + n < IndexMod THEN i + n ELSE i + n - IndexMod
  BY <1>3, PlusIs
<1>5. Plus(i, n + k) = IF i + (n + k) < IndexMod THEN i + (n + k) ELSE i + (n + k) - IndexMod
  BY <1>3, PlusIs
<1>6. Plus(Plus(i, n), k) = IF Plus(i, n) + k < IndexMod THEN Plus(i, n) + k
                                                         ELSE Plus(i, n) + k - IndexMod
  BY <1>3, <1>4, PlusIs
<1>7. Plus(i, 0) = IF i + 0 < IndexMod THEN i + 0 ELSE i + 0 - IndexMod
  BY <1>1, PlusIs
<1> QED
  BY <1>1, <1>2, <1>4, <1>5, <1>6, <1>7

(* The length of the ring leads from head to tail. *)
LEMMA TailIs ==
    ASSUME NEW h \in Index, NEW l \in Index, Minus(l, h) <= CAPACITY
    PROVE  Plus(h, Minus(l, h)) = l
<1>1. IndexMod \in Nat \ {0} /\ IndexMod > CAPACITY /\ CAPACITY \in Nat
  BY RunQueuesAssumption
<1>2. h \in Int /\ l \in Int /\ 0 <= h /\ h < IndexMod /\ 0 <= l /\ l < IndexMod
  BY <1>1 DEF Index
<1>3. Minus(l, h) = IF l >= h THEN l - h ELSE l + IndexMod - h
  BY MinusIs
<1> DEFINE n == Minus(l, h)
<1>4. n \in Int /\ 0 <= n /\ n <= CAPACITY
  BY <1>1, <1>2, <1>3
<1> HIDE DEF n
<1>5. Plus(h, n) = IF h + n < IndexMod THEN h + n ELSE h + n - IndexMod
  BY <1>4, PlusIs
<1> QED
  BY <1>1, <1>2, <1>3, <1>5 DEF n

(* The entries at n indexes from i on; Span is one of a worker's array. *)
Stretch(slots, i, n) == [k \in 1..n |-> slots[Slot(Plus(i, k - 1))]]

(* A stretch is a list of n entries, the k-th of them at index i + k - 1. *)
LEMMA StretchIs ==
    ASSUME NEW slots \in [Slots -> Entries], NEW i \in Index, NEW n \in Nat
    PROVE  /\ Stretch(slots, i, n) \in Seq(Entries) /\ Len(Stretch(slots, i, n)) = n
           /\ DOMAIN Stretch(slots, i, n) = 1..n
           /\ \A k \in 1..n : Stretch(slots, i, n)[k] = slots[Slot(Plus(i, k - 1))]
           /\ Stretch(slots, i, 0) = <<>>
<1>1. \A k \in 1..n : slots[Slot(Plus(i, k - 1))] \in Entries
  BY SlotIs, PlusIs DEF Index
<1> QED
  BY <1>1 DEF Stretch

(* A stretch of one entry. *)
LEMMA StretchOne ==
    ASSUME NEW slots \in [Slots -> Entries], NEW i \in Index
    PROVE  Stretch(slots, i, 1) = <<slots[Slot(i)]>>
<1>1. Plus(i, 0) = i
  BY RunQueuesAssumption, PlusPlus
<1>2. 1 - 1 = 0 /\ 1..1 = {1}
  OBVIOUS
<1>3. Stretch(slots, i, 1) = [k \in {1} |-> slots[Slot(i)]]
  BY <1>1, <1>2 DEF Stretch
<1> QED
  BY <1>3

(* A stretch is its first n entries and the stretch that follows them. *)
LEMMA StretchCut ==
    ASSUME NEW slots \in [Slots -> Entries], NEW i \in Index, NEW n \in Nat, NEW m \in Nat,
           n + m <= CAPACITY
    PROVE  Stretch(slots, i, n + m) = Stretch(slots, i, n) \o Stretch(slots, Plus(i, n), m)
<1> DEFINE s == Stretch(slots, i, n)
           r == Stretch(slots, Plus(i, n), m)
           j == Stretch(slots, i, n + m)
<1>1. CAPACITY \in Nat /\ n <= CAPACITY /\ n \in Int
  BY RunQueuesAssumption
<1>2. Plus(i, n) \in Index
  BY <1>1, PlusIs
<1>3. /\ s \in Seq(Entries) /\ Len(s) = n /\ \A k \in 1..n : s[k] = slots[Slot(Plus(i, k - 1))]
  BY StretchIs
<1>4. /\ r \in Seq(Entries) /\ Len(r) = m
      /\ \A k \in 1..m : r[k] = slots[Slot(Plus(Plus(i, n), k - 1))]
  BY <1>2, StretchIs
<1>5. /\ j \in Seq(Entries) /\ Len(j) = n + m
      /\ \A k \in 1..(n + m) : j[k] = slots[Slot(Plus(i, k - 1))]
  <2> DEFINE l == n + m
  <2>1. l \in Nat
    OBVIOUS
  <2> HIDE DEF l
  <2>2. /\ Stretch(slots, i, l) \in Seq(Entries) /\ Len(Stretch(slots, i, l)) = l
        /\ \A k \in 1..l : Stretch(slots, i, l)[k] = slots[Slot(Plus(i, k - 1))]
    BY <2>1, StretchIs
  <2> QED
    BY <2>2 DEF l
<1>t. s \in Seq(Entries) /\ Len(s) = n /\ r \in Seq(Entries) /\ Len(r) = m
  BY <1>3, <1>4
<1>u. j \in Seq(Entries) /\ Len(j) = n + m
  BY <1>5
<1>6. \A k \in 1..m : Plus(Plus(i, n), k - 1) = Plus(i, n + (k - 1))
  BY <1>1, PlusPlus
<1> HIDE DEF s, r, j
<1>7. s \o r \in Seq(Entries) /\ Len(s \o r) = n + m
  BY <1>t
<1>8. ASSUME NEW k \in 1..(n + m) PROVE j[k] = (s \o r)[k]
  <2>1. CASE k <= n
    <3>1. (s \o r)[k] = s[k] /\ k \in 1..n
      BY <1>t, <2>1
    <3> QED
      BY <1>3, <1>5, <3>1
  <2>2. CASE k > n
    <3>1. k - n \in 1..m /\ n + ((k - n) - 1) = k - 1
      BY <2>2
    <3>2. (s \o r)[k] = r[k - n]
      BY <1>t, <2>2
    <3>3. Plus(Plus(i, n), (k - n) - 1) = Plus(i, k - 1)
      BY <1>6, <3>1
    <3>4. r[k - n] = slots[Slot(Plus(i, k - 1))]
      BY <1>4, <3>1, <3>3
    <3> QED
      BY <1>5, <3>2, <3>4
  <2>3. k <= n \/ k > n
    OBVIOUS
  <2> QED
    BY <2>1, <2>2, <2>3, Zenon
<1>9. j = s \o r
  BY <1>u, <1>7, <1>8
<1> QED
  BY <1>9 DEF s, r, j

(* What is written can be read, and what is before it is still there. *)
LEMMA WriteReads ==
    ASSUME NEW slots \in [Slots -> Entries], NEW i \in Index, NEW nodes \in Seq(Entries),
           Len(nodes) <= CAPACITY
    PROVE  Stretch(WriteAt(slots, i, nodes), i, Len(nodes)) = nodes
<1> DEFINE w == WriteAt(slots, i, nodes)
<1>1. w \in [Slots -> Entries]
  BY WriteTyped
<1>2. ASSUME NEW k \in 1..Len(nodes) PROVE w[Slot(Plus(i, k - 1))] = nodes[k]
  <2>1. \A m \in 1..Len(nodes) : Slot(Plus(i, k - 1)) = Slot(Plus(i, m - 1)) => m = k
    <3> SUFFICES ASSUME NEW m \in 1..Len(nodes), Slot(Plus(i, k - 1)) = Slot(Plus(i, m - 1))
                 PROVE  m = k
      OBVIOUS
    <3>1. k - 1 \in 0..(CAPACITY - 1) /\ m - 1 \in 0..(CAPACITY - 1)
      BY RunQueuesAssumption
    <3>2. k - 1 = m - 1
      BY <3>1, SlotsApart
    <3> QED
      BY <3>2
  <2>2. Slot(Plus(i, k - 1)) \in Slots
    BY SlotIs, PlusIs DEF Index
  <2>3. DOMAIN nodes = 1..Len(nodes) /\ DOMAIN slots = Slots
    OBVIOUS
  <2>4. (CHOOSE m \in DOMAIN nodes : Slot(Plus(i, k - 1)) = Slot(Plus(i, m - 1))) = k
    BY <2>1, <2>3
  <2> QED
    BY <2>2, <2>3, <2>4 DEF WriteAt
<1> HIDE DEF w
<1>3. Stretch(w, i, Len(nodes)) = nodes
  <2>1. /\ Stretch(w, i, Len(nodes)) \in Seq(Entries)
        /\ Len(Stretch(w, i, Len(nodes))) = Len(nodes)
        /\ \A k \in 1..Len(nodes) :
              Stretch(w, i, Len(nodes))[k] = w[Slot(Plus(i, k - 1))]
    <3>1. Len(nodes) \in Nat
      OBVIOUS
    <3> QED
      BY <1>1, <3>1, StretchIs
  <2>2. \A k \in 1..Len(nodes) : Stretch(w, i, Len(nodes))[k] = nodes[k]
    BY <1>2, <2>1
  <2> QED
    BY <2>1, <2>2
<1> QED
  BY <1>3 DEF w

(* Writing behind a stretch, within the capacity, does not touch it. *)
LEMMA WriteKeeps ==
    ASSUME NEW slots \in [Slots -> Entries], NEW i \in Index, NEW n \in Nat,
           NEW nodes \in Seq(Entries), n + Len(nodes) <= CAPACITY
    PROVE  Stretch(WriteAt(slots, Plus(i, n), nodes), i, n) = Stretch(slots, i, n)
<1> DEFINE w == WriteAt(slots, Plus(i, n), nodes)
<1>1. w \in [Slots -> Entries]
  BY WriteTyped
<1>2. ASSUME NEW k \in 1..n PROVE w[Slot(Plus(i, k - 1))] = slots[Slot(Plus(i, k - 1))]
  <2>1. \A m \in DOMAIN nodes : Slot(Plus(i, k - 1)) # Slot(Plus(Plus(i, n), m - 1))
    <3> SUFFICES ASSUME NEW m \in 1..Len(nodes),
                        Slot(Plus(i, k - 1)) = Slot(Plus(Plus(i, n), m - 1))
                 PROVE  FALSE
      OBVIOUS
    <3>1. /\ k - 1 \in 0..(CAPACITY - 1) /\ n + (m - 1) \in 0..(CAPACITY - 1)
          /\ m - 1 \in Nat /\ n + (m - 1) <= CAPACITY
      BY RunQueuesAssumption
    <3>2. Plus(Plus(i, n), m - 1) = Plus(i, n + (m - 1))
      BY <3>1, PlusPlus
    <3>3. k - 1 = n + (m - 1)
      BY <3>1, <3>2, SlotsApart
    <3> QED
      BY <3>3
  <2>2. Slot(Plus(i, k - 1)) \in Slots /\ DOMAIN slots = Slots
    BY SlotIs, PlusIs DEF Index
  <2> QED
    BY <2>1, <2>2 DEF WriteAt
<1> HIDE DEF w
<1>3. \A k \in 1..n : w[Slot(Plus(i, k - 1))] = slots[Slot(Plus(i, k - 1))]
  BY <1>2
<1>4. Stretch(w, i, n) = Stretch(slots, i, n)
  BY <1>3 DEF Stretch
<1> QED
  BY <1>4 DEF w

(* One more entry after the others. *)
LEMMA StretchGrows ==
    ASSUME NEW slots \in [Slots -> Entries], NEW i \in Index, NEW n \in Nat, n < CAPACITY,
           NEW x \in Entries
    PROVE  Stretch([slots EXCEPT ![Slot(Plus(i, n))] = x], i, n + 1)
             = Stretch(slots, i, n) \o <<x>>
<1> DEFINE w == [slots EXCEPT ![Slot(Plus(i, n))] = x]
<1>1. CAPACITY \in Nat /\ n \in Int /\ n + 1 <= CAPACITY
  BY RunQueuesAssumption
<1>2. Plus(i, n) \in Index /\ Slot(Plus(i, n)) \in Slots
  <2>1. Plus(i, n) \in Index
    BY <1>1, PlusIs
  <2>2. Plus(i, n) \in Int
    BY <2>1 DEF Index
  <2> QED
    BY <2>1, <2>2, SlotIs
<1>3. w \in [Slots -> Entries] /\ w[Slot(Plus(i, n))] = x
  BY <1>2
<1>4. Stretch(w, i, n + 1) = Stretch(w, i, n) \o Stretch(w, Plus(i, n), 1)
  <2> HIDE DEF w
  <2>1. 1 \in Nat
    OBVIOUS
  <2> QED
    BY <1>1, <1>3, <2>1, StretchCut
<1>5. Stretch(w, Plus(i, n), 1) = <<x>>
  BY <1>2, <1>3, StretchOne
<1>6. ASSUME NEW k \in 1..n PROVE w[Slot(Plus(i, k - 1))] = slots[Slot(Plus(i, k - 1))]
  <2>1. k - 1 \in 0..(CAPACITY - 1) /\ n \in 0..(CAPACITY - 1) /\ k - 1 # n
    BY <1>1
  <2>2. Slot(Plus(i, k - 1)) # Slot(Plus(i, n))
    BY <2>1, SlotsApart
  <2>3. Slot(Plus(i, k - 1)) \in Slots
    BY SlotIs, PlusIs DEF Index
  <2> QED
    BY <2>2, <2>3
<1>7. Stretch(w, i, n) = Stretch(slots, i, n)
  BY <1>6 DEF Stretch
<1> QED
  BY <1>4, <1>5, <1>7

-----------------------------------------------------------------------------
(* Lists *)

Elems(s) == {s[i] : i \in DOMAIN s}

Distinct(s) == \A i, j \in DOMAIN s : s[i] = s[j] => i = j

(* The nodes of a list, by position. *)
LEMMA ElemsOf ==
    ASSUME NEW s \in Seq(Entries), NEW n
    PROVE  n \in Elems(s) <=> \E i \in 1..Len(s) : s[i] = n
  BY DEF Elems

(* The empty list and the list of one node. *)
LEMMA FewElems ==
    /\ Elems(<<>>) = {} /\ Distinct(<<>>)
    /\ \A n : Elems(<<n>>) = {n} /\ Distinct(<<n>>)
  BY DEF Elems, Distinct

(* The nodes of two lists one after the other. *)
LEMMA JoinIs ==
    ASSUME NEW s \in Seq(Entries), NEW r \in Seq(Entries)
    PROVE  /\ Elems(s \o r) = Elems(s) \cup Elems(r)
           /\ Distinct(s \o r) <=> Distinct(s) /\ Distinct(r) /\ Elems(s) \cap Elems(r) = {}
<1> DEFINE j == s \o r
<1>1. /\ j \in Seq(Entries) /\ Len(j) = Len(s) + Len(r) /\ Len(s) \in Nat /\ Len(r) \in Nat
      /\ \A i \in 1..Len(s) : j[i] = s[i]
      /\ \A i \in 1..Len(r) : j[Len(s) + i] = r[i]
      /\ DOMAIN j = 1..Len(j) /\ DOMAIN s = 1..Len(s) /\ DOMAIN r = 1..Len(r)
  OBVIOUS
<1>2. \A i \in 1..Len(j) : i \in 1..Len(s) \/ (i - Len(s) \in 1..Len(r) /\ j[i] = r[i - Len(s)])
  <2> TAKE i \in 1..Len(j)
  <2>1. CASE i <= Len(s)
    BY <1>1, <2>1
  <2>2. CASE i > Len(s)
    <3>1. i - Len(s) \in 1..Len(r) /\ Len(s) + (i - Len(s)) = i
      BY <1>1, <2>2
    <3> QED
      BY <1>1, <3>1
  <2> QED
    BY <1>1, <2>1, <2>2
<1>3. \A i \in 1..Len(s) : i \in 1..Len(j)
  BY <1>1
<1>4. \A i \in 1..Len(r) : Len(s) + i \in 1..Len(j) /\ Len(s) + i \notin 1..Len(s)
  BY <1>1
<1> HIDE DEF j
<1>5. Elems(j) = Elems(s) \cup Elems(r)
  <2>1. ASSUME NEW n \in Elems(j) PROVE n \in Elems(s) \cup Elems(r)
    <3>1. PICK i \in 1..Len(j) : j[i] = n
      BY <1>1, <2>1 DEF Elems
    <3> QED
      BY <1>1, <1>2, <3>1 DEF Elems
  <2>2. ASSUME NEW n \in Elems(s) PROVE n \in Elems(j)
    <3>1. PICK i \in 1..Len(s) : s[i] = n
      BY <1>1, <2>2 DEF Elems
    <3>2. i \in DOMAIN j /\ j[i] = n
      BY <1>1, <1>3, <3>1
    <3> QED
      BY <3>2 DEF Elems
  <2>3. ASSUME NEW n \in Elems(r) PROVE n \in Elems(j)
    <3>1. PICK i \in 1..Len(r) : r[i] = n
      BY <1>1, <2>3 DEF Elems
    <3>2. Len(s) + i \in DOMAIN j /\ j[Len(s) + i] = n
      BY <1>1, <1>4, <3>1
    <3> QED
      BY <3>2 DEF Elems
  <2> QED
    BY <2>1, <2>2, <2>3
<1>6. ASSUME Distinct(j) PROVE Distinct(s) /\ Distinct(r) /\ Elems(s) \cap Elems(r) = {}
  <2>1. Distinct(s)
    BY <1>1, <1>3, <1>6 DEF Distinct
  <2>2. Distinct(r)
    <3>1. ASSUME NEW i \in 1..Len(r), NEW k \in 1..Len(r), r[i] = r[k] PROVE i = k
      <4>1. Len(s) + i = Len(s) + k
        <5>1. j[Len(s) + i] = j[Len(s) + k]
          BY <1>1, <3>1
        <5>2. Len(s) + i \in DOMAIN j /\ Len(s) + k \in DOMAIN j
          BY <1>1, <1>4
        <5> QED
          BY <1>6, <5>1, <5>2 DEF Distinct
      <4> QED
        BY <1>1, <4>1
    <3> QED
      BY <1>1, <3>1 DEF Distinct
  <2>3. ASSUME NEW n \in Elems(s), n \in Elems(r) PROVE FALSE
    <3>1. PICK i \in 1..Len(s) : s[i] = n
      BY <1>1, <2>3 DEF Elems
    <3>2. PICK k \in 1..Len(r) : r[k] = n
      BY <1>1, <2>3 DEF Elems
    <3>3. j[i] = j[Len(s) + k] /\ i \in DOMAIN j /\ Len(s) + k \in DOMAIN j
      BY <1>1, <1>3, <1>4, <3>1, <3>2
    <3>4. i = Len(s) + k
      BY <1>6, <3>3 DEF Distinct
    <3> QED
      BY <1>4, <3>1, <3>2, <3>4
  <2> QED
    BY <2>1, <2>2, <2>3
<1>7. ASSUME Distinct(s), Distinct(r), Elems(s) \cap Elems(r) = {} PROVE Distinct(j)
  <2>1. ASSUME NEW i \in 1..Len(j), NEW k \in 1..Len(j), j[i] = j[k] PROVE i = k
    <3>1. CASE i \in 1..Len(s) /\ k \in 1..Len(s)
      BY <1>1, <1>7, <2>1, <3>1 DEF Distinct
    <3>2. CASE i \notin 1..Len(s) /\ k \notin 1..Len(s)
      <4>1. /\ i - Len(s) \in 1..Len(r) /\ j[i] = r[i - Len(s)]
            /\ k - Len(s) \in 1..Len(r) /\ j[k] = r[k - Len(s)]
        BY <1>2, <3>2
      <4>2. i - Len(s) = k - Len(s)
        BY <1>1, <1>7, <2>1, <4>1 DEF Distinct
      <4> QED
        BY <1>1, <4>2
    <3>3. CASE i \in 1..Len(s) /\ k \notin 1..Len(s)
      <4>1. j[i] \in Elems(s) /\ j[k] \in Elems(r)
        BY <1>1, <1>2, <3>3 DEF Elems
      <4> QED
        BY <1>7, <2>1, <4>1
    <3>4. CASE i \notin 1..Len(s) /\ k \in 1..Len(s)
      <4>1. j[k] \in Elems(s) /\ j[i] \in Elems(r)
        BY <1>1, <1>2, <3>4 DEF Elems
      <4> QED
        BY <1>7, <2>1, <4>1
    <3> QED
      BY <3>1, <3>2, <3>3, <3>4
  <2> QED
    BY <1>1, <2>1 DEF Distinct
<1> QED
  BY <1>5, <1>6, <1>7 DEF j

(* A list is its beginning and the rest. *)
LEMMA CutList ==
    ASSUME NEW s \in Seq(Entries), NEW n \in Nat, n <= Len(s)
    PROVE  /\ s = SubSeq(s, 1, n) \o SubSeq(s, n + 1, Len(s))
           /\ SubSeq(s, 1, n) \in Seq(Entries) /\ SubSeq(s, n + 1, Len(s)) \in Seq(Entries)
<1> DEFINE a == SubSeq(s, 1, n)
           b == SubSeq(s, n + 1, Len(s))
<1>1. Len(s) \in Nat
  OBVIOUS
<1>2. a \in Seq(Entries) /\ Len(a) = n /\ \A i \in 1..n : a[i] = s[i]
  BY <1>1
<1>3. b \in Seq(Entries) /\ Len(b) = Len(s) - n
  BY <1>1
<1>4. \A i \in 1..(Len(s) - n) : b[i] = s[n + i]
  BY <1>1
<1> HIDE DEF a, b
<1>5. a \o b \in Seq(Entries) /\ Len(a \o b) = Len(s)
  BY <1>1, <1>2, <1>3
<1>6. ASSUME NEW i \in 1..Len(s) PROVE (a \o b)[i] = s[i]
  <2>1. CASE i <= n
    BY <1>1, <1>2, <1>3, <2>1
  <2>2. CASE i > n
    <3>1. i - n \in 1..(Len(s) - n) /\ n + (i - n) = i
      BY <1>1, <2>2
    <3>2. (a \o b)[i] = b[i - n]
      BY <1>1, <1>2, <1>3, <2>2
    <3> QED
      BY <1>4, <3>1, <3>2
  <2>3. i <= n \/ i > n
    BY <1>1
  <2> QED
    BY <2>1, <2>2, <2>3, Zenon
<1>7. s = a \o b
  <2> DEFINE j == a \o b
  <2>1. j \in Seq(Entries) /\ Len(j) = Len(s) /\ \A i \in 1..Len(s) : j[i] = s[i]
    BY <1>5, <1>6
  <2> HIDE DEF j
  <2>2. s = j
    BY <1>1, <2>1
  <2> QED
    BY <2>2 DEF j
<1> QED
  BY <1>2, <1>3, <1>7 DEF a, b

-----------------------------------------------------------------------------
(* Where a node can be *)

Cache(q) == IF queue[q].consumer = Nil THEN queue[q].cache ELSE <<>>

Got(t) == IF got[t] = Nil THEN <<>> ELSE <<got[t]>>

Places ==
    ({"stack", "cache"} \X QueueIds) \cup
    ({"live", "list", "chain", "claimed", "got"} \X Threads)

(* The list at a place. *)
Pile(p) ==
    CASE p[1] = "stack"   -> queue[p[2]].stack
      [] p[1] = "cache"   -> Cache(p[2])
      [] p[1] = "live"    -> Live(p[2])
      [] p[1] = "list"    -> list[p[2]]
      [] p[1] = "chain"   -> chain[p[2]]
      [] p[1] = "claimed" -> Claimed(p[2])
      [] p[1] = "got"     -> Got(p[2])

(* Whatever is at a place has been scheduled and not run, *)
Stored == \A p \in Places : \A n \in Elems(Pile(p)) : n \in Nodes /\ n < next /\ ran[n] = 0

(* and whatever has been scheduled and not run is somewhere, *)
NoneLost == \A n \in Nodes : n < next /\ ran[n] = 0 => \E p \in Places : n \in Elems(Pile(p))

(* at one place, once. *)
Apart ==
    /\ \A p \in Places : Distinct(Pile(p))
    /\ \A p, r \in Places : p # r => Elems(Pile(p)) \cap Elems(Pile(r)) = {}

RanOnce == ran \in [Nodes -> 0..1] /\ \A n \in Nodes : n >= next => ran[n] = 0

Kept == Stored /\ NoneLost /\ Apart /\ RanOnce

(* The list at each place, before and after a step. *)
LEMMA PileIs ==
    /\ \A q : Pile(<<"stack", q>>) = queue[q].stack /\ Pile(<<"cache", q>>) = Cache(q)
    /\ \A t : /\ Pile(<<"live", t>>) = Live(t) /\ Pile(<<"list", t>>) = list[t]
              /\ Pile(<<"chain", t>>) = chain[t] /\ Pile(<<"claimed", t>>) = Claimed(t)
              /\ Pile(<<"got", t>>) = Got(t)
    /\ \A q : Pile(<<"stack", q>>)' = queue'[q].stack /\ Pile(<<"cache", q>>)' = Cache(q)'
    /\ \A t : /\ Pile(<<"live", t>>)' = Live(t)' /\ Pile(<<"list", t>>)' = list'[t]
              /\ Pile(<<"chain", t>>)' = chain'[t] /\ Pile(<<"claimed", t>>)' = Claimed(t)'
              /\ Pile(<<"got", t>>)' = Got(t)'
  BY DEF Pile

(* All the places there are. *)
LEMMA PlacesAre ==
    /\ \A q \in QueueIds : <<"stack", q>> \in Places /\ <<"cache", q>> \in Places
    /\ \A t \in Threads : /\ <<"live", t>> \in Places /\ <<"list", t>> \in Places
                          /\ <<"chain", t>> \in Places /\ <<"claimed", t>> \in Places
                          /\ <<"got", t>> \in Places
    /\ \A p \in Places :
          \/ \E q \in QueueIds : p = <<"stack", q>> \/ p = <<"cache", q>>
          \/ \E t \in Threads : \/ p = <<"live", t>> \/ p = <<"list", t>> \/ p = <<"chain", t>>
                                \/ p = <<"claimed", t>> \/ p = <<"got", t>>
<1>1. \A q \in QueueIds : <<"stack", q>> \in Places /\ <<"cache", q>> \in Places
  BY DEF Places
<1>2. \A t \in Threads : /\ <<"live", t>> \in Places /\ <<"list", t>> \in Places
                          /\ <<"chain", t>> \in Places /\ <<"claimed", t>> \in Places
                          /\ <<"got", t>> \in Places
  BY DEF Places
<1>3. ASSUME NEW p \in {"stack", "cache"} \X QueueIds
      PROVE  \E q \in QueueIds : p = <<"stack", q>> \/ p = <<"cache", q>>
  BY <1>3
<1>4. ASSUME NEW p \in {"live", "list", "chain", "claimed", "got"} \X Threads
      PROVE  \E t \in Threads : \/ p = <<"live", t>> \/ p = <<"list", t>> \/ p = <<"chain", t>>
                                \/ p = <<"claimed", t>> \/ p = <<"got", t>>
  BY <1>4
<1> QED
  BY <1>1, <1>2, <1>3, <1>4 DEF Places

(* The lists that did not change, kind by kind. *)
LEMMA PilesStay ==
    ASSUME NEW S,
           \A q \in QueueIds : <<"stack", q>> \notin S => queue'[q].stack = queue[q].stack,
           \A q \in QueueIds : <<"cache", q>> \notin S => Cache(q)' = Cache(q),
           \A t \in Threads : <<"live", t>> \notin S => Live(t)' = Live(t),
           \A t \in Threads : <<"list", t>> \notin S => list'[t] = list[t],
           \A t \in Threads : <<"chain", t>> \notin S => chain'[t] = chain[t],
           \A t \in Threads : <<"claimed", t>> \notin S => Claimed(t)' = Claimed(t),
           \A t \in Threads : <<"got", t>> \notin S => Got(t)' = Got(t)
    PROVE  \A p \in Places : p \notin S => Pile(p)' = Pile(p)
<1> SUFFICES ASSUME NEW p \in Places, p \notin S PROVE Pile(p)' = Pile(p)
  OBVIOUS
<1>1. CASE \E q \in QueueIds : p = <<"stack", q>> \/ p = <<"cache", q>>
  <2>1. PICK q \in QueueIds : p = <<"stack", q>> \/ p = <<"cache", q>>
    BY <1>1
  <2>2. CASE p = <<"stack", q>>
    BY <2>2, PileIs
  <2>3. CASE p = <<"cache", q>>
    BY <2>3, PileIs
  <2> QED
    BY <2>1, <2>2, <2>3
<1>2. CASE \E t \in Threads : \/ p = <<"live", t>> \/ p = <<"list", t>> \/ p = <<"chain", t>>
                              \/ p = <<"claimed", t>> \/ p = <<"got", t>>
  <2>1. PICK t \in Threads : \/ p = <<"live", t>> \/ p = <<"list", t>> \/ p = <<"chain", t>>
                             \/ p = <<"claimed", t>> \/ p = <<"got", t>>
    BY <1>2
  <2>2. CASE p = <<"live", t>>
    BY <2>2, PileIs
  <2>3. CASE p = <<"list", t>>
    BY <2>3, PileIs
  <2>4. CASE p = <<"chain", t>>
    BY <2>4, PileIs
  <2>5. CASE p = <<"claimed", t>>
    BY <2>5, PileIs
  <2>6. CASE p = <<"got", t>>
    BY <2>6, PileIs
  <2> QED
    BY <2>1, <2>2, <2>3, <2>4, <2>5, <2>6
<1> QED
  BY <1>1, <1>2, PlacesAre

(* Nodes are regrouped among the places of S: some may arrive there, the next to
   be scheduled, and some may leave to be run. *)
Regrouped(S, in, out) ==
    /\ \A p \in S : Distinct(Pile(p)')
    /\ \A p, r \in S : p # r => Elems(Pile(p)') \cap Elems(Pile(r)') = {}
    /\ \A n : (\E p \in S : n \in Elems(Pile(p)'))
                <=> n \in in \/ (n \notin out /\ \E p \in S : n \in Elems(Pile(p)))

(* A step that only rearranges the nodes of the places S, adds the nodes it
   schedules and counts the nodes it runs, keeps every node in one place. *)
LEMMA Regroup ==
    ASSUME Kept, NEW S \in SUBSET Places, \A p \in Places : p \notin S => Pile(p)' = Pile(p),
           NEW in, NEW out, Regrouped(S, in, out),
           next \in Nat, next' \in Nat, next' >= next,
           in = {n \in Nodes : next <= n /\ n < next'},
           \A n \in out : \E p \in S : n \in Elems(Pile(p)),
           ran' \in [Nodes -> Nat],
           \A n \in Nodes : ran'[n] = IF n \in out THEN ran[n] + 1 ELSE ran[n]
    PROVE  Kept'
<1>1. Stored /\ NoneLost /\ Apart /\ RanOnce
  BY DEF Kept
<1>2. \A n \in Nodes : n \in Nat
  BY RunQueuesAssumption DEF Nodes
<1>3. \A n \in out : n \in Nodes /\ n < next /\ ran[n] = 0
  BY <1>1 DEF Stored
<1>4. \A n \in in : n \in Nodes /\ ~(n < next) /\ n < next' /\ ran[n] = 0 /\ ran'[n] = 0
  <2> SUFFICES ASSUME NEW n \in in
               PROVE  n \in Nodes /\ ~(n < next) /\ n < next' /\ ran[n] = 0 /\ ran'[n] = 0
    OBVIOUS
  <2>1. n \in Nodes /\ n \in Nat /\ next <= n /\ n < next'
    BY <1>2
  <2>2. ran[n] = 0 /\ n \notin out
    BY <1>1, <1>3, <2>1 DEF RanOnce
  <2> QED
    BY <2>1, <2>2
<1>5. Stored'
  <2> SUFFICES ASSUME NEW p \in Places, NEW n \in Elems(Pile(p)')
               PROVE  n \in Nodes /\ n < next' /\ ran'[n] = 0
    BY DEF Stored
  <2>1. ASSUME n \in Nodes, n < next, ran[n] = 0, n \notin out
        PROVE  n < next' /\ ran'[n] = 0
    BY <1>2, <2>1
  <2>2. CASE p \notin S
    <3>1. n \in Elems(Pile(p)) /\ n \in Nodes /\ n < next /\ ran[n] = 0
      BY <1>1, <2>2 DEF Stored
    <3>2. n \notin out
      <4>1. SUFFICES ASSUME n \in out PROVE FALSE
        OBVIOUS
      <4>2. PICK r \in S : n \in Elems(Pile(r))
        BY <4>1
      <4> QED
        BY <1>1, <2>2, <3>1, <4>2 DEF Apart
    <3> QED
      BY <2>1, <3>1, <3>2
  <2>3. CASE p \in S
    <3>1. n \in in \/ (n \notin out /\ \E r \in S : n \in Elems(Pile(r)))
      BY <2>3 DEF Regrouped
    <3>2. CASE n \in in
      BY <1>4, <3>2
    <3>3. CASE n \notin out /\ \E r \in S : n \in Elems(Pile(r))
      BY <1>1, <2>1, <3>3 DEF Stored
    <3> QED
      BY <3>1, <3>2, <3>3
  <2> QED
    BY <2>2, <2>3
<1>6. NoneLost'
  <2> SUFFICES ASSUME NEW n \in Nodes, n < next', ran'[n] = 0
               PROVE  \E p \in Places : n \in Elems(Pile(p)')
    BY DEF NoneLost
  <2>1. CASE n \in in
    BY <2>1 DEF Regrouped
  <2>2. CASE n \notin in
    <3>1. n < next
      BY <1>2, <2>2
    <3>2. ran[n] = 0 /\ n \notin out
      <4>1. ran[n] \in Nat
        BY <1>1 DEF RanOnce
      <4> QED
        BY <4>1
    <3>3. PICK p \in Places : n \in Elems(Pile(p))
      BY <1>1, <3>1, <3>2 DEF NoneLost
    <3>4. CASE p \in S
      BY <3>2, <3>3, <3>4 DEF Regrouped
    <3>5. CASE p \notin S
      BY <3>3, <3>5
    <3> QED
      BY <3>4, <3>5
  <2> QED
    BY <2>1, <2>2
<1>7. Apart'
  <2>1. \A p \in Places : Distinct(Pile(p)')
    BY <1>1 DEF Apart, Regrouped
  <2>2. ASSUME NEW p \in Places, NEW r \in Places, p # r,
               NEW n \in Elems(Pile(p)'), n \in Elems(Pile(r)')
        PROVE  FALSE
    <3>1. CASE p \in S /\ r \in S
      BY <2>2, <3>1 DEF Regrouped
    <3>2. CASE p \notin S /\ r \notin S
      BY <1>1, <2>2, <3>2 DEF Apart
    <3>3. ASSUME NEW x \in Places, x \notin S, n \in Elems(Pile(x)'),
                 NEW y \in S, n \in Elems(Pile(y)')
          PROVE  FALSE
      <4>1. n \in Elems(Pile(x))
        BY <3>3
      <4>2. n < next /\ n \in Nodes
        BY <1>1, <4>1 DEF Stored
      <4>3. n \notin in
        BY <1>4, <4>2
      <4>4. PICK z \in S : n \in Elems(Pile(z))
        BY <3>3, <4>3 DEF Regrouped
      <4> QED
        BY <1>1, <3>3, <4>1, <4>4 DEF Apart
    <3> QED
      BY <2>2, <3>1, <3>2, <3>3
  <2> QED
    BY <2>1, <2>2 DEF Apart
<1>8. RanOnce'
  <2>1. ASSUME NEW n \in Nodes PROVE ran'[n] \in 0..1 /\ (n >= next' => ran'[n] = 0)
    <3>1. ran[n] \in 0..1
      BY <1>1 DEF RanOnce
    <3>2. CASE n \in out
      BY <1>2, <1>3, <3>2
    <3>3. CASE n \notin out
      <4>1. n >= next' => n >= next
        BY <1>2
      <4> QED
        BY <1>1, <3>1, <3>3, <4>1 DEF RanOnce
    <3> QED
      BY <3>2, <3>3
  <2> QED
    BY <2>1 DEF RanOnce
<1> QED
  BY <1>5, <1>6, <1>7, <1>8 DEF Kept

(* What the locals of a worker mean while it works: what it wrote beyond its tail
   in a push is the list's beginning, and what it copied is what the victim's
   ring holds, as long as the head is the one it has seen. *)
HandOf(t) ==
    /\ pc[t] \notin {"push", "pushLoad", "pushTail", "overflow"} => list[t] = <<>>
    /\ pc[t] \notin Consuming => chain[t] = <<>>
    /\ got[t] # Nil <=> pc[t] \in {"publish", "release", "stealPublish"}
    /\ pc[t] = "pushTail" => Span(t, tail[t], count[t]) = SubSeq(list[t], 1, count[t])
    /\ pc[t] = "commit" /\ head[victim[t]] = seen[t] =>
          Span(t, tail[t], count[t]) = Span(victim[t], seen[t], count[t])

Hands == \A t \in Threads : HandOf(t)

PlaceInv == QueueInv /\ Rings /\ Hands /\ Kept

(* Lists move among two or three places, and some nodes may leave to be run. *)
LEMMA Moved ==
    ASSUME Kept, NEW a \in Places, NEW b \in Places, NEW c \in Places, NEW out,
           \A p \in Places : p \notin {a, b, c} => Pile(p)' = Pile(p),
           Distinct(Pile(a)'), Distinct(Pile(b)'), Distinct(Pile(c)'),
           a # b => Elems(Pile(a)') \cap Elems(Pile(b)') = {},
           a # c => Elems(Pile(a)') \cap Elems(Pile(c)') = {},
           b # c => Elems(Pile(b)') \cap Elems(Pile(c)') = {},
           \A n : n \in Elems(Pile(a)') \cup Elems(Pile(b)') \cup Elems(Pile(c)')
                    <=> n \notin out /\ n \in Elems(Pile(a)) \cup Elems(Pile(b)) \cup Elems(Pile(c)),
           out \subseteq Elems(Pile(a)) \cup Elems(Pile(b)) \cup Elems(Pile(c)),
           next \in Nat, next' = next, ran' \in [Nodes -> Nat],
           \A n \in Nodes : ran'[n] = IF n \in out THEN ran[n] + 1 ELSE ran[n]
    PROVE  Kept'
<1> DEFINE S == {a, b, c}
<1>1. S \in SUBSET Places
  OBVIOUS
<1>2. \A n : (\E p \in S : n \in Elems(Pile(p)')) <=>
               n \in Elems(Pile(a)') \cup Elems(Pile(b)') \cup Elems(Pile(c)')
  BY Zenon
<1>3. \A n : (\E p \in S : n \in Elems(Pile(p))) <=>
               n \in Elems(Pile(a)) \cup Elems(Pile(b)) \cup Elems(Pile(c))
  BY Zenon
<1>4. Regrouped(S, {}, out)
  BY <1>2, <1>3 DEF Regrouped
<1>5. {} = {n \in Nodes : next <= n /\ n < next'}
  BY RunQueuesAssumption DEF Nodes
<1>6. \A n \in out : \E p \in S : n \in Elems(Pile(p))
  BY <1>3
<1> HIDE DEF S
<1>7. \A p \in Places : p \notin S => Pile(p)' = Pile(p)
  BY DEF S
<1> QED
  BY <1>1, <1>4, <1>5, <1>6, <1>7, Regroup

(* No list changes. *)
LEMMA Unmoved ==
    ASSUME Kept, \A p \in Places : Pile(p)' = Pile(p), next' = next, ran' = ran
    PROVE  Kept'
  BY DEF Kept, Stored, NoneLost, Apart, RanOnce

(* The locals and the ring of the other workers. *)
Local(t) ==
    \A u \in Threads \ {t} :
        /\ head'[u] = head[u] /\ tail'[u] = tail[u] /\ array'[u] = array[u]
        /\ pc'[u] = pc[u] /\ list'[u] = list[u] /\ chain'[u] = chain[u]
        /\ victim'[u] = victim[u] /\ seen'[u] = seen[u] /\ count'[u] = count[u]
        /\ got'[u] = got[u]

(* The places a step of worker t leaves alone, when it writes no worker's variables
   but its own. *)
LEMMA LocalPiles ==
    ASSUME NEW t \in Threads, Local(t), NEW S,
           \A q \in QueueIds : <<"stack", q>> \notin S => queue'[q].stack = queue[q].stack,
           \A q \in QueueIds : <<"cache", q>> \notin S => Cache(q)' = Cache(q),
           <<"live", t>> \in S \/ Live(t)' = Live(t),
           <<"list", t>> \in S \/ list'[t] = list[t],
           <<"chain", t>> \in S \/ chain'[t] = chain[t],
           <<"claimed", t>> \in S \/ Claimed(t)' = Claimed(t),
           <<"got", t>> \in S \/ got'[t] = got[t]
    PROVE  \A p \in Places : p \notin S => Pile(p)' = Pile(p)
<1>1. ASSUME NEW u \in Threads, u # t
      PROVE  /\ Live(u)' = Live(u) /\ list'[u] = list[u] /\ chain'[u] = chain[u]
             /\ Claimed(u)' = Claimed(u) /\ Got(u)' = Got(u)
  <2>1. /\ head'[u] = head[u] /\ tail'[u] = tail[u] /\ array'[u] = array[u] /\ pc'[u] = pc[u]
        /\ list'[u] = list[u] /\ chain'[u] = chain[u] /\ count'[u] = count[u] /\ got'[u] = got[u]
    BY <1>1 DEF Local
  <2>2. Live(u)' = Live(u)
    BY <2>1 DEF Live, Span
  <2>3. Claimed(u)' = Claimed(u)
    BY <2>1 DEF Claimed, Span
  <2>4. Got(u)' = Got(u)
    BY <2>1 DEF Got
  <2> QED
    BY <2>1, <2>2, <2>3, <2>4
<1>2. <<"got", t>> \in S \/ Got(t)' = Got(t)
  BY DEF Got
<1>3. \A u \in Threads : <<"live", u>> \notin S => Live(u)' = Live(u)
  BY <1>1
<1>4. \A u \in Threads : <<"list", u>> \notin S => list'[u] = list[u]
  BY <1>1
<1>5. \A u \in Threads : <<"chain", u>> \notin S => chain'[u] = chain[u]
  BY <1>1
<1>6. \A u \in Threads : <<"claimed", u>> \notin S => Claimed(u)' = Claimed(u)
  BY <1>1
<1>7. \A u \in Threads : <<"got", u>> \notin S => Got(u)' = Got(u)
  BY <1>1, <1>2
<1> QED
  BY <1>3, <1>4, <1>5, <1>6, <1>7, PilesStay

(* What the two invariants say of one ring. *)
LEMMA RingIs ==
    ASSUME QueueInv, Rings, NEW t \in Threads
    PROVE  /\ Live(t) = Stretch(array[t], head[t], Minus(tail[t], head[t]))
           /\ Live(t) \in Seq(Entries) /\ Claimed(t) \in Seq(Entries)
           /\ \A i, n : Span(t, i, n) = Stretch(array[t], i, n)
           /\ array[t] \in [Slots -> Entries] /\ head[t] \in Index /\ tail[t] \in Index
           /\ seen[t] \in Index /\ count[t] \in Nat /\ count[t] <= CAPACITY
           /\ Minus(tail[t], head[t]) \in Nat /\ Minus(tail[t], head[t]) <= CAPACITY
           /\ Plus(head[t], Minus(tail[t], head[t])) = tail[t]
           /\ victim[t] \in Threads /\ list[t] \in Seq(Entries) /\ chain[t] \in Seq(Entries)
           /\ got[t] \in Entries /\ RingOf(t)
<1>1. Types /\ CAPACITY \in Nat
  BY RunQueuesAssumption DEF QueueInv
<1>2. /\ array[t] \in [Slots -> Entries] /\ head[t] \in Index /\ tail[t] \in Index
      /\ seen[t] \in Index /\ count[t] \in Nat /\ count[t] <= CAPACITY
      /\ victim[t] \in Threads /\ list[t] \in Seq(Entries) /\ chain[t] \in Seq(Entries)
      /\ got[t] \in Entries
  BY <1>1 DEF Types
<1>3. RingOf(t) /\ Minus(tail[t], head[t]) <= CAPACITY
  BY DEF Rings, RingOf
<1>4. Minus(tail[t], head[t]) \in Nat /\ Plus(head[t], Minus(tail[t], head[t])) = tail[t]
  BY <1>2, <1>3, MinusNat, TailIs
<1>5. \A i, n : Span(t, i, n) = Stretch(array[t], i, n)
  BY DEF Span, Stretch
<1>6. Live(t) = Stretch(array[t], head[t], Minus(tail[t], head[t]))
  BY <1>5 DEF Live
<1>7. Live(t) \in Seq(Entries)
  BY <1>2, <1>4, <1>6, StretchIs
<1>8. Claimed(t) \in Seq(Entries)
  <2>1. Stretch(array[t], tail[t], count[t]) \in Seq(Entries)
    BY <1>2, StretchIs
  <2> QED
    BY <1>5, <2>1 DEF Claimed
<1> QED
  BY <1>2, <1>3, <1>4, <1>5, <1>6, <1>7, <1>8

(* What the others know stays true if the live part of the worker's ring stays,
   and its tail where it was or further on. *)
LEMMA HandsStay ==
    ASSUME PlaceInv, HeadsMoveOn, NEW t \in Threads,
           \A u \in Threads \ {t} :
              /\ tail'[u] = tail[u] /\ array'[u] = array[u] /\ pc'[u] = pc[u]
              /\ list'[u] = list[u] /\ chain'[u] = chain[u] /\ victim'[u] = victim[u]
              /\ seen'[u] = seen[u] /\ count'[u] = count[u] /\ got'[u] = got[u],
           Stretch(array'[t], head[t], Minus(tail[t], head[t])) = Live(t),
           HandOf(t)'
    PROVE  Hands'
<1>1. QueueInv /\ Rings /\ Hands /\ Counts
  BY DEF PlaceInv, QueueInv
<1>2. ASSUME NEW u \in Threads, u # t PROVE HandOf(u)'
  <2>1. /\ tail'[u] = tail[u] /\ array'[u] = array[u] /\ pc'[u] = pc[u]
        /\ list'[u] = list[u] /\ chain'[u] = chain[u] /\ victim'[u] = victim[u]
        /\ seen'[u] = seen[u] /\ count'[u] = count[u] /\ got'[u] = got[u]
    BY <1>2
  <2>2. HandOf(u) /\ RingOf(u) /\ victim[u] \in Threads /\ count[u] \in Nat
    BY <1>1, RingIs DEF Hands
  <2>3. Span(u, tail[u], count[u])' = Span(u, tail[u], count[u])
    BY <2>1 DEF Span
  <2>4. ASSUME pc'[u] = "commit", head'[victim'[u]] = seen'[u]
        PROVE  Span(u, tail[u], count[u])' = Span(victim[u], seen[u], count[u])'
    <3>1. head[victim[u]] = seen[u] /\ pc[u] = "commit"
      BY <2>1, <2>4 DEF HeadsMoveOn
    <3>2. Span(u, tail[u], count[u]) = Span(victim[u], seen[u], count[u])
      BY <2>2, <3>1 DEF HandOf
    <3>3. CASE victim[u] # t
      <4>1. array'[victim[u]] = array[victim[u]]
        BY <2>2, <3>3
      <4>2. Span(victim[u], seen[u], count[u])' = Span(victim[u], seen[u], count[u])
        BY <2>1, <4>1 DEF Span
      <4> QED
        BY <2>3, <3>2, <4>2
    <3>4. CASE victim[u] = t
      <4> DEFINE h == head[t]
                 m == Minus(tail[t], head[t])
                 n == count[u]
      <4>1. n <= m /\ seen[u] = h /\ n \in Nat /\ m \in Nat
        BY <1>1, <2>2, <3>1, <3>4, RingIs DEF RingOf
      <4>2. Live(t) = Stretch(array[t], h, m)
        BY <1>1, RingIs
      <4> HIDE DEF h, m, n
      <4>3. Stretch(array'[t], h, m) = Stretch(array[t], h, m)
        BY <4>2 DEF h, m
      <4>4. \A k \in 1..n : array'[t][Slot(Plus(h, k - 1))] = array[t][Slot(Plus(h, k - 1))]
        <5> SUFFICES ASSUME NEW k \in 1..n
                     PROVE  array'[t][Slot(Plus(h, k - 1))] = array[t][Slot(Plus(h, k - 1))]
          OBVIOUS
        <5>1. k \in 1..m
          BY <4>1
        <5>2. /\ Stretch(array'[t], h, m)[k] = array'[t][Slot(Plus(h, k - 1))]
              /\ Stretch(array[t], h, m)[k] = array[t][Slot(Plus(h, k - 1))]
          BY <5>1 DEF Stretch
        <5> QED
          BY <4>3, <5>2
      <4>5. Span(victim[u], seen[u], count[u])' = [k \in 1..n |-> array'[t][Slot(Plus(h, k - 1))]]
        BY <2>1, <3>4, <4>1 DEF Span, n
      <4>6. Span(victim[u], seen[u], count[u]) = [k \in 1..n |-> array[t][Slot(Plus(h, k - 1))]]
        BY <3>4, <4>1 DEF Span, n
      <4>7. Span(victim[u], seen[u], count[u])' = Span(victim[u], seen[u], count[u])
        BY <4>4, <4>5, <4>6
      <4> QED
        BY <2>3, <3>2, <4>7
    <3> QED
      BY <3>3, <3>4
  <2>5. pc'[u] = "pushTail" => Span(u, tail[u], count[u])' = SubSeq(list'[u], 1, count'[u])
    BY <2>1, <2>2, <2>3 DEF HandOf
  <2>6. /\ pc'[u] \notin {"push", "pushLoad", "pushTail", "overflow"} => list'[u] = <<>>
        /\ pc'[u] \notin Consuming => chain'[u] = <<>>
        /\ got'[u] # Nil <=> pc'[u] \in {"publish", "release", "stealPublish"}
    BY <2>1, <2>2 DEF HandOf
  <2> QED
    BY <2>4, <2>5, <2>6 DEF HandOf
<1> QED
  BY <1>2 DEF Hands

(* No node is anywhere at the start. *)
LEMMA PlaceInit == Init => Hands /\ Kept
<1> SUFFICES ASSUME Init PROVE Hands /\ Kept
  OBVIOUS
<1>1. QueueInv /\ Rings
  BY QueueInit, RingsInit
<1>2. Hands
  BY DEF Init, Hands, HandOf, Consuming
<1>3. ASSUME NEW p \in Places PROVE Pile(p) = <<>>
  <2>1. \A q \in QueueIds : queue[q].stack = <<>> /\ Cache(q) = <<>>
    BY DEF Init, Cache
  <2>2. \A t \in Threads : list[t] = <<>> /\ chain[t] = <<>> /\ Claimed(t) = <<>> /\ Got(t) = <<>>
    BY DEF Init, Claimed, Got, Consuming
  <2>3. ASSUME NEW t \in Threads PROVE Live(t) = <<>>
    <3>1. head[t] = Start /\ tail[t] = Start /\ head[t] \in Index
      BY <1>1, RingIs DEF Init
    <3>2. Minus(tail[t], head[t]) = 0
      BY <3>1, MinusNat
    <3> QED
      BY <1>1, <3>2, RingIs, StretchIs
  <2> QED
    BY <2>1, <2>2, <2>3, PlacesAre, PileIs
<1>4. \A p \in Places : Elems(Pile(p)) = {} /\ Distinct(Pile(p))
  BY <1>3, FewElems
<1>5. Stored /\ Apart
  BY <1>4 DEF Stored, Apart
<1>6. NoneLost /\ RanOnce
  BY RunQueuesAssumption DEF Init, NoneLost, RanOnce, Nodes
<1> QED
  BY <1>2, <1>5, <1>6 DEF Kept

-----------------------------------------------------------------------------
(* Steps that move no node *)

(* A step that moves no node keeps what is known of the places if it keeps what is
   known of the worker's own locals. *)
LEMMA Quiet ==
    ASSUME PlaceInv, HeadsMoveOn, NEW t \in Threads, OthersStay(t),
           UNCHANGED <<queue, head, tail, array, list, chain, got, next, ran>>,
           Claimed(t)' = Claimed(t), HandOf(t)'
    PROVE  Hands' /\ Kept'
<1>1. Local(t)
  BY DEF Local, OthersStay
<1>2. QueueInv /\ Rings /\ Kept
  BY DEF PlaceInv
<1>3. Live(t)' = Live(t)
  BY DEF Live, Span
<1>4. Stretch(array'[t], head[t], Minus(tail[t], head[t])) = Live(t)
  BY <1>2, RingIs
<1>5. Hands'
  BY <1>1, <1>4, HandsStay DEF Local
<1>6. \A q \in QueueIds : Cache(q)' = Cache(q)
  BY DEF Cache
<1>7. \A p \in Places : Pile(p)' = Pile(p)
  <2> DEFINE S == {}
  <2> HIDE DEF S
  <2>1. \A p \in Places : p \notin S => Pile(p)' = Pile(p)
    BY <1>1, <1>3, <1>6, LocalPiles
  <2> QED
    BY <2>1 DEF S
<1>8. Kept'
  BY <1>2, <1>7, Unmoved
<1> QED
  BY <1>5, <1>8

(* The loads of push and steal, the exchanges that fail, a consumer turned away and
   the end of a task move no node. *)
LEMMA QuietSteps ==
    ASSUME PlaceInv, HeadsMoveOn, NEW t \in Threads,
           \/ PushLoad(t) \/ TurnedAway(t) \/ StealHead(t) \/ StealTail(t) \/ Finish(t)
           \/ PushMigrate(t) /\ head[t] # seen[t]
           \/ StealCommit(t) /\ head[victim[t]] # seen[t]
    PROVE  Hands' /\ Kept'
<1>1. QueueInv /\ Types /\ HandOf(t)
  BY DEF PlaceInv, QueueInv, Hands
<1>2. /\ pc \in [Threads -> Labels] /\ seen \in [Threads -> Index]
      /\ victim \in [Threads -> Threads] /\ count \in [Threads -> 0..CAPACITY]
  BY <1>1 DEF Types
<1>3. UNCHANGED <<queue, head, tail, array, list, chain, got, next, ran>>
  BY DEF PushLoad, TurnedAway, StealHead, StealTail, Finish, PushMigrate, StealCommit, scheduling
<1>4. /\ seen' = seen \/ \E i : seen' = [seen EXCEPT ![t] = i]
      /\ victim' = victim \/ \E v : victim' = [victim EXCEPT ![t] = v]
      /\ count' = count \/ \E n : count' = [count EXCEPT ![t] = n]
  BY Zenon DEF PushLoad, TurnedAway, StealHead, StealTail, Finish, PushMigrate, StealCommit
<1>5. \/ /\ pc[t] \in {"push", "pushLoad"}
         /\ pc' = pc \/ pc' = [pc EXCEPT ![t] = "push"]
      \/ /\ pc[t] \in {"own", "global", "target", "steal", "stealTail", "run", "commit"}
         /\ \E to \in {"global", "target", "pop", "steal", "stealTail", "copy"} :
               pc' = [pc EXCEPT ![t] = to]
  <2>1. CASE PushLoad(t) \/ (PushMigrate(t) /\ head[t] # seen[t])
    BY <2>1 DEF PushLoad, PushMigrate, Goto
  <2>2. CASE TurnedAway(t)
    BY <2>2 DEF TurnedAway, Goto
  <2>3. CASE StealTail(t)
    <3>1. \/ pc' = [pc EXCEPT ![t] = "steal"] \/ pc' = [pc EXCEPT ![t] = "pop"]
          \/ pc' = [pc EXCEPT ![t] = "copy"]
      BY <2>3, Zenon DEF StealTail, Goto
    <3>2. pc[t] = "stealTail"
      BY <2>3 DEF StealTail
    <3> QED
      BY <3>1, <3>2
  <2>4. CASE StealHead(t)
    BY <2>4 DEF StealHead, Goto
  <2>5. CASE Finish(t)
    BY <2>5 DEF Finish, Goto
  <2>6. CASE StealCommit(t) /\ head[victim[t]] # seen[t]
    BY <2>6 DEF StealCommit, Goto
  <2> QED
    BY <2>1, <2>2, <2>3, <2>4, <2>5, <2>6
<1>6. OthersStay(t)
  BY <1>2, <1>4, <1>5 DEF OthersStay
<1>7. \/ pc[t] \in {"push", "pushLoad"} /\ pc'[t] = "push"
      \/ /\ pc[t] \in {"own", "global", "target", "steal", "stealTail", "run", "commit"}
         /\ pc'[t] \in {"global", "target", "pop", "steal", "stealTail", "copy"}
      \/ pc[t] = "pushLoad" /\ pc'[t] = "pushLoad"
  BY <1>2, <1>5
<1>8. Claimed(t)' = Claimed(t)
  <2>1. pc[t] \notin Consuming \cup {"stealPublish"} /\ pc'[t] \notin Consuming \cup {"stealPublish"}
    BY <1>7 DEF Consuming
  <2> QED
    BY <2>1 DEF Claimed
<1>9. HandOf(t)'
  <2>1. /\ list'[t] = list[t] /\ chain'[t] = chain[t] /\ got'[t] = got[t]
        /\ pc'[t] \notin {"pushTail", "commit"} /\ pc'[t] \notin Consuming
        /\ pc[t] \notin Consuming
    BY <1>3, <1>7 DEF Consuming
  <2> QED
    BY <1>1, <1>7, <2>1 DEF HandOf
<1> QED
  BY <1>3, <1>6, <1>8, <1>9, Quiet

-----------------------------------------------------------------------------
(* Steps of a push, and the pop from the own ring *)

(* What Kept says of one place. *)
LEMMA KeptIs ==
    ASSUME Kept, NEW a \in Places
    PROVE  /\ Distinct(Pile(a)) /\ \A n \in Elems(Pile(a)) : n \in Nodes
           /\ \A b \in Places : a # b => Elems(Pile(a)) \cap Elems(Pile(b)) = {}
  BY DEF Kept, Apart, Stored

(* Lists move among three places, no node leaves. *)
LEMMA MovedOnly ==
    ASSUME Kept, Types, NEW a \in Places, NEW b \in Places, NEW c \in Places,
           \A p \in Places : p \notin {a, b, c} => Pile(p)' = Pile(p),
           Distinct(Pile(a)'), Distinct(Pile(b)'), Distinct(Pile(c)'),
           a # b => Elems(Pile(a)') \cap Elems(Pile(b)') = {},
           a # c => Elems(Pile(a)') \cap Elems(Pile(c)') = {},
           b # c => Elems(Pile(b)') \cap Elems(Pile(c)') = {},
           Elems(Pile(a)') \cup Elems(Pile(b)') \cup Elems(Pile(c)')
             = Elems(Pile(a)) \cup Elems(Pile(b)) \cup Elems(Pile(c)),
           next' = next, ran' = ran
    PROVE  Kept'
<1> DEFINE out == {}
<1>1. next \in Nat /\ ran' \in [Nodes -> Nat]
  <2>1. next \in Nat /\ ran \in [Nodes -> 0..1]
    BY DEF Types, Kept, RanOnce
  <2> QED
    BY <2>1
<1>2. out \subseteq Elems(Pile(a)) \cup Elems(Pile(b)) \cup Elems(Pile(c))
  OBVIOUS
<1>3. \A n \in Nodes : ran'[n] = IF n \in out THEN ran[n] + 1 ELSE ran[n]
  OBVIOUS
<1>4. \A n : n \in Elems(Pile(a)') \cup Elems(Pile(b)') \cup Elems(Pile(c)')
               <=> n \notin out /\ n \in Elems(Pile(a)) \cup Elems(Pile(b)) \cup Elems(Pile(c))
  OBVIOUS
<1> HIDE DEF out
<1> QED
  BY <1>1, <1>2, <1>3, <1>4, Moved

(* One node leaves to be run. *)
LEMMA MovedOut ==
    ASSUME Kept, Types, NEW a \in Places, NEW b \in Places, NEW c \in Places, NEW x,
           \A p \in Places : p \notin {a, b, c} => Pile(p)' = Pile(p),
           Distinct(Pile(a)'), Distinct(Pile(b)'), Distinct(Pile(c)'),
           a # b => Elems(Pile(a)') \cap Elems(Pile(b)') = {},
           a # c => Elems(Pile(a)') \cap Elems(Pile(c)') = {},
           b # c => Elems(Pile(b)') \cap Elems(Pile(c)') = {},
           Elems(Pile(a)') \cup Elems(Pile(b)') \cup Elems(Pile(c)')
             = (Elems(Pile(a)) \cup Elems(Pile(b)) \cup Elems(Pile(c))) \ {x},
           x \in Elems(Pile(a)) \cup Elems(Pile(b)) \cup Elems(Pile(c)),
           next' = next, ran' = [ran EXCEPT ![x] = @ + 1]
    PROVE  Kept'
<1> DEFINE out == {x}
<1>1. next \in Nat /\ ran \in [Nodes -> 0..1] /\ x \in Nodes
  BY KeptIs DEF Types, Kept, RanOnce
<1>2. out \subseteq Elems(Pile(a)) \cup Elems(Pile(b)) \cup Elems(Pile(c))
  OBVIOUS
<1>3. /\ ran' \in [Nodes -> Nat]
      /\ \A n \in Nodes : ran'[n] = IF n \in out THEN ran[n] + 1 ELSE ran[n]
  BY <1>1
<1>4. \A n : n \in Elems(Pile(a)') \cup Elems(Pile(b)') \cup Elems(Pile(c)')
               <=> n \notin out /\ n \in Elems(Pile(a)) \cup Elems(Pile(b)) \cup Elems(Pile(c))
  OBVIOUS
<1> HIDE DEF out
<1> QED
  BY <1>1, <1>2, <1>3, <1>4, Moved

(* The rest of an overflowing push goes to the worker's own queue. *)
LEMMA PlaceOverflow ==
    ASSUME PlaceInv, HeadsMoveOn, NEW t \in Threads, PushOverflow(t)
    PROVE  Hands' /\ Kept'
<1>1. QueueInv /\ Rings /\ Hands /\ Kept /\ Types /\ HandOf(t) /\ t \in QueueIds
  BY DEF PlaceInv, QueueInv, Hands, QueueIds
<1>2. /\ pc[t] = "overflow" /\ pc' = [pc EXCEPT ![t] = "run"]
      /\ list' = [list EXCEPT ![t] = <<>>]
      /\ UNCHANGED <<head, tail, array, chain, victim, seen, count, got, next, ran>>
  BY DEF PushOverflow, Goto, scheduling
<1>3. list[t] \in Seq(Entries) /\ queue[t].stack \in Seq(Entries)
  BY <1>1 DEF Types, QueueRecord
<1>4. /\ \A p \in QueueIds : /\ queue'[p].consumer = queue[p].consumer
                             /\ queue'[p].cache = queue[p].cache
                             /\ p # t => queue'[p].stack = queue[p].stack
      /\ queue'[t].stack = list[t] \o queue[t].stack
  <2>1. queue' = [queue EXCEPT ![t].stack = list[t] \o queue[t].stack]
    BY <1>1 DEF PushOverflow, Types
  <2>2. list[t] \o queue[t].stack \in Seq(Entries)
    BY <1>3
  <2> QED
    BY <1>1, <2>1, <2>2, StackReplaced
<1>5. Local(t)
  BY <1>1, <1>2 DEF Local, Types
<1>6. pc'[t] = "run" /\ list'[t] = <<>>
  BY <1>1, <1>2 DEF Types
<1>7. Claimed(t)' = Claimed(t) /\ Live(t)' = Live(t)
  BY <1>2, <1>6 DEF Claimed, Consuming, Live, Span
<1>8. Hands'
  <2>1. HandOf(t)'
    BY <1>1, <1>2, <1>6 DEF HandOf, Consuming
  <2>2. Stretch(array'[t], head[t], Minus(tail[t], head[t])) = Live(t)
    BY <1>1, <1>2, RingIs
  <2> QED
    BY <1>5, <2>1, <2>2, HandsStay DEF Local
<1> DEFINE a == <<"list", t>>
           b == <<"stack", t>>
           S == {a, b, b}
<1>9. a \in Places /\ b \in Places
  BY <1>1, PlacesAre
<1>10. \A p \in Places : p \notin S => Pile(p)' = Pile(p)
  <2>1. \A q \in QueueIds : Cache(q)' = Cache(q)
    BY <1>4 DEF Cache
  <2>2. \A q \in QueueIds : <<"stack", q>> \notin S => queue'[q].stack = queue[q].stack
    BY <1>4
  <2>3. <<"list", t>> \in S
    OBVIOUS
  <2> HIDE DEF S
  <2> QED
    BY <1>2, <1>5, <1>7, <2>1, <2>2, <2>3, LocalPiles
<1>11. Pile(a)' = <<>> /\ Pile(b)' = Pile(a) \o Pile(b) /\ Pile(a) = list[t] /\ Pile(b) = queue[t].stack
  BY <1>4, <1>6, PileIs
<1>12. /\ Distinct(Pile(a)) /\ Distinct(Pile(b)) /\ Elems(Pile(a)) \cap Elems(Pile(b)) = {}
  BY <1>1, <1>9, KeptIs
<1> HIDE DEF a, b
<1>13. /\ Elems(Pile(b)') = Elems(Pile(a)) \cup Elems(Pile(b)) /\ Distinct(Pile(b)')
       /\ Elems(Pile(a)') = {} /\ Distinct(Pile(a)')
  BY <1>3, <1>11, <1>12, JoinIs, FewElems
<1>14. Kept'
  BY <1>1, <1>2, <1>9, <1>10, <1>13, MovedOnly
<1> QED
  BY <1>8, <1>14

(* push writes nodes behind tail: they stay in the worker's list, and nothing live
   is overwritten. *)
LEMMA PlaceWrite ==
    ASSUME PlaceInv, HeadsMoveOn, NEW t \in Threads, PushWrite(t)
    PROVE  Hands' /\ Kept'
<1>1. QueueInv /\ Rings /\ Hands /\ Kept /\ Types /\ HandOf(t)
  BY DEF PlaceInv, QueueInv, Hands
<1> DEFINE m    == Minus(tail[t], head[t])
           room == CAPACITY - Minus(tail[t], seen[t])
           n    == IF Len(list[t]) < room THEN Len(list[t]) ELSE room
           part == SubSeq(list[t], 1, n)
<1>2. /\ pc[t] = "push" /\ Minus(tail[t], seen[t]) < CAPACITY
      /\ array' = [array EXCEPT ![t] = WriteAt(@, tail[t], part)]
      /\ count' = [count EXCEPT ![t] = n] /\ pc' = [pc EXCEPT ![t] = "pushTail"]
      /\ UNCHANGED <<queue, head, tail, list, chain, victim, seen, got, next, ran>>
  BY DEF PushWrite, Goto, scheduling
<1>3. /\ array[t] \in [Slots -> Entries] /\ head[t] \in Index /\ tail[t] \in Index
      /\ seen[t] \in Index /\ m \in Nat /\ Plus(head[t], m) = tail[t] /\ list[t] \in Seq(Entries)
      /\ RingOf(t) /\ Live(t) = Stretch(array[t], head[t], m)
  BY <1>1, RingIs
<1>4. CAPACITY \in Nat /\ Minus(tail[t], seen[t]) \in Nat /\ Len(list[t]) \in Nat
  BY <1>3, MinusNat, RunQueuesAssumption
<1>5. m <= Minus(tail[t], seen[t])
  BY <1>2, <1>3 DEF RingOf
<1>6. n \in Nat /\ n <= Len(list[t]) /\ m + n <= CAPACITY /\ n <= CAPACITY
  BY <1>2, <1>3, <1>4, <1>5
<1> HIDE DEF m, n
<1>7. part \in Seq(Entries) /\ Len(part) = n
  BY <1>3, <1>6
<1> HIDE DEF part
<1>8. /\ array'[t] = WriteAt(array[t], Plus(head[t], m), part) /\ pc'[t] = "pushTail"
      /\ count'[t] = n
  BY <1>1, <1>2, <1>3 DEF Types
<1>9. Local(t)
  BY <1>1, <1>2 DEF Local, Types
<1>10. Stretch(array'[t], head[t], m) = Live(t)
  <2>1. m + Len(part) <= CAPACITY /\ m \in Nat
    BY <1>3, <1>6, <1>7
  <2>2. Stretch(WriteAt(array[t], Plus(head[t], m), part), head[t], m) = Stretch(array[t], head[t], m)
    BY <1>3, <1>7, <2>1, WriteKeeps
  <2> QED
    BY <1>3, <1>8, <2>2
<1>11. Stretch(array'[t], tail[t], n) = part
  <2>1. array'[t] = WriteAt(array[t], tail[t], part)
    BY <1>3, <1>8
  <2> QED
    BY <1>3, <1>6, <1>7, <2>1, WriteReads
<1>12. Live(t)' = Live(t)
  BY <1>2, <1>10 DEF Live, Span, Stretch, m
<1>13. Claimed(t)' = Claimed(t)
  BY <1>2, <1>8 DEF Claimed, Consuming
<1>14. HandOf(t)'
  <2>1. Span(t, tail[t], count[t])' = SubSeq(list'[t], 1, count'[t])
    BY <1>2, <1>8, <1>11 DEF Span, Stretch, part
  <2> QED
    BY <1>1, <1>2, <1>8, <2>1 DEF HandOf, Consuming
<1>15. Hands'
  BY <1>9, <1>10, <1>14, HandsStay DEF Local, m
<1>16. \A p \in Places : Pile(p)' = Pile(p)
  <2> DEFINE S == {}
  <2> HIDE DEF S
  <2>1. \A q \in QueueIds : Cache(q)' = Cache(q)
    BY <1>2 DEF Cache
  <2>2. \A p \in Places : p \notin S => Pile(p)' = Pile(p)
    BY <1>2, <1>9, <1>12, <1>13, <2>1, LocalPiles
  <2> QED
    BY <2>2 DEF S
<1>17. Kept'
  BY <1>1, <1>2, <1>16, Unmoved
<1> QED
  BY <1>15, <1>17

(* The store of tail moves what was written from the list into the ring. *)
LEMMA PlacePushed ==
    ASSUME PlaceInv, HeadsMoveOn, NEW t \in Threads, PushTail(t)
    PROVE  Hands' /\ Kept'
<1>1. QueueInv /\ Rings /\ Hands /\ Kept /\ Types /\ HandOf(t) /\ Counts
  BY DEF PlaceInv, QueueInv, Hands
<1> DEFINE m    == Minus(tail[t], head[t])
           n    == count[t]
           part == SubSeq(list[t], 1, n)
           rest == SubSeq(list[t], n + 1, Len(list[t]))
<1>2. /\ pc[t] = "pushTail" /\ tail' = [tail EXCEPT ![t] = Plus(tail[t], n)]
      /\ count' = [count EXCEPT ![t] = 0] /\ list' = [list EXCEPT ![t] = rest]
      /\ UNCHANGED <<queue, head, array, chain, victim, seen, got, next, ran>>
  BY DEF PushTail, scheduling
<1>3. \/ rest = <<>> /\ pc' = [pc EXCEPT ![t] = "run"]
      \/ pc' = [pc EXCEPT ![t] = "pushLoad"]
  BY DEF PushTail, Goto
<1>4. /\ array[t] \in [Slots -> Entries] /\ head[t] \in Index /\ tail[t] \in Index
      /\ m \in Nat /\ n \in Nat /\ Plus(head[t], m) = tail[t] /\ list[t] \in Seq(Entries)
      /\ RingOf(t) /\ Live(t) = Stretch(array[t], head[t], m) /\ Live(t) \in Seq(Entries)
      /\ Span(t, tail[t], n) = Stretch(array[t], tail[t], n)
  BY <1>1, RingIs
<1>5. m + n <= CAPACITY /\ n <= Len(list[t])
  BY <1>1, <1>2, <1>4 DEF RingOf, Counts
<1>6. Stretch(array[t], tail[t], n) = part
  BY <1>1, <1>2, <1>4 DEF HandOf
<1>7. Minus(Plus(tail[t], n), head[t]) = m + n
  BY <1>4, <1>5, TailMoves
<1>8. list[t] = part \o rest /\ part \in Seq(Entries) /\ rest \in Seq(Entries)
  BY <1>4, <1>5, CutList
<1> HIDE DEF m, n, part, rest
<1>9. /\ pc'[t] \in {"run", "pushLoad"} /\ (pc'[t] = "run" => rest = <<>>)
      /\ list'[t] = rest /\ tail'[t] = Plus(tail[t], n)
      /\ \A u \in Threads \ {t} : pc'[u] = pc[u]
  BY <1>1, <1>2, <1>3 DEF Types
<1>10. Local(t)
  BY <1>1, <1>2, <1>9 DEF Local, Types
<1>11. Live(t)' = Live(t) \o part
  <2>1. Live(t)' = Stretch(array[t], head[t], m + n)
    BY <1>2, <1>7, <1>9 DEF Live, Span, Stretch
  <2>2. Stretch(array[t], head[t], m + n)
          = Stretch(array[t], head[t], m) \o Stretch(array[t], Plus(head[t], m), n)
    BY <1>4, <1>5, StretchCut
  <2> QED
    BY <1>4, <1>6, <2>1, <2>2
<1>12. Claimed(t)' = Claimed(t)
  BY <1>2, <1>9 DEF Claimed, Consuming
<1>13. Hands'
  <2>1. HandOf(t)'
    BY <1>1, <1>2, <1>9 DEF HandOf, Consuming
  <2>2. Stretch(array'[t], head[t], Minus(tail[t], head[t])) = Live(t)
    BY <1>2, <1>4 DEF m
  <2>3. \A u \in Threads \ {t} : tail'[u] = tail[u]
    BY <1>10 DEF Local
  <2> QED
    BY <1>10, <2>1, <2>2, HandsStay DEF Local
<1> DEFINE a == <<"live", t>>
           b == <<"list", t>>
           S == {a, b, b}
<1>14. a \in Places /\ b \in Places /\ a # b
  BY <1>1, PlacesAre
<1>15. \A p \in Places : p \notin S => Pile(p)' = Pile(p)
  <2>1. \A q \in QueueIds : Cache(q)' = Cache(q)
    BY <1>2 DEF Cache
  <2>2. <<"live", t>> \in S /\ <<"list", t>> \in S
    OBVIOUS
  <2> HIDE DEF S
  <2> QED
    BY <1>2, <1>10, <1>12, <2>1, <2>2, LocalPiles
<1>16. /\ Pile(a) = Live(t) /\ Pile(b) = part \o rest
       /\ Pile(a)' = Live(t) \o part /\ Pile(b)' = rest
  BY <1>8, <1>9, <1>11, PileIs
<1>17. /\ Distinct(Live(t)) /\ Distinct(part \o rest)
       /\ Elems(Live(t)) \cap Elems(part \o rest) = {}
  BY <1>1, <1>14, <1>16, KeptIs
<1>18. /\ Elems(part \o rest) = Elems(part) \cup Elems(rest)
       /\ Distinct(part) /\ Distinct(rest) /\ Elems(part) \cap Elems(rest) = {}
  BY <1>8, <1>17, JoinIs
<1> HIDE DEF a, b
<1>19. Elems(Pile(a)') = Elems(Live(t)) \cup Elems(part) /\ Distinct(Pile(a)')
  BY <1>4, <1>8, <1>16, <1>17, <1>18, JoinIs
<1>20. /\ Distinct(Pile(b)') /\ Elems(Pile(a)') \cap Elems(Pile(b)') = {}
       /\ Elems(Pile(a)') \cup Elems(Pile(b)') \cup Elems(Pile(b)')
            = Elems(Pile(a)) \cup Elems(Pile(b)) \cup Elems(Pile(b))
  BY <1>16, <1>17, <1>18, <1>19
<1>21. Kept'
  BY <1>1, <1>2, <1>14, <1>15, <1>19, <1>20, MovedOnly
<1> QED
  BY <1>13, <1>21

(* What a move of head takes off the live part, and a move of tail adds to it. *)
LEMMA HeadCuts ==
    ASSUME QueueInv, Rings, NEW t \in Threads, NEW n \in Nat, n <= Minus(tail[t], head[t]),
           head'[t] = Plus(head[t], n), tail'[t] = tail[t], array'[t] = array[t]
    PROVE  /\ Live(t) = Stretch(array[t], head[t], n) \o Live(t)'
           /\ Stretch(array[t], head[t], n) \in Seq(Entries) /\ Live(t)' \in Seq(Entries)
<1> DEFINE m == Minus(tail[t], head[t])
           k == m - n
<1>1. /\ array[t] \in [Slots -> Entries] /\ head[t] \in Index /\ tail[t] \in Index
      /\ m \in Nat /\ m <= CAPACITY /\ Live(t) = Stretch(array[t], head[t], m)
  BY RingIs
<1>2. CAPACITY \in Nat /\ k \in Nat /\ n <= CAPACITY /\ n + k = m
  BY <1>1, RunQueuesAssumption
<1>3. Minus(tail[t], Plus(head[t], n)) = k /\ Plus(head[t], n) \in Index
  <2>1. Minus(tail[t], Plus(head[t], n)) = k
    BY <1>1, <1>2, HeadMoves
  <2>2. Plus(head[t], n) \in Index
    BY <1>1, PlusIs
  <2> QED
    BY <2>1, <2>2
<1> HIDE DEF m, k
<1>4. Live(t)' = Stretch(array[t], Plus(head[t], n), k)
  BY <1>3 DEF Live, Span, Stretch
<1>5. n + k <= CAPACITY
  BY <1>1, <1>2
<1>6. Stretch(array[t], head[t], n + k)
        = Stretch(array[t], head[t], n) \o Stretch(array[t], Plus(head[t], n), k)
  BY <1>1, <1>2, <1>5, StretchCut
<1>7. Live(t) = Stretch(array[t], head[t], n) \o Live(t)'
  BY <1>1, <1>2, <1>4, <1>6
<1>8. Stretch(array[t], head[t], n) \in Seq(Entries)
  BY <1>1, StretchIs
<1>9. Live(t)' \in Seq(Entries)
  BY <1>1, <1>2, <1>3, <1>4, StretchIs
<1> QED
  BY <1>7, <1>8, <1>9

(* A move of tail adds what was written behind it to the live part. *)
LEMMA TailAdds ==
    ASSUME QueueInv, Rings, NEW t \in Threads, NEW n \in Nat,
           Minus(tail[t], head[t]) + n <= CAPACITY,
           tail'[t] = Plus(tail[t], n), head'[t] = head[t], array'[t] = array[t]
    PROVE  /\ Live(t)' = Live(t) \o Stretch(array[t], tail[t], n)
           /\ Live(t) \in Seq(Entries) /\ Stretch(array[t], tail[t], n) \in Seq(Entries)
<1> DEFINE m == Minus(tail[t], head[t])
<1>1. /\ array[t] \in [Slots -> Entries] /\ head[t] \in Index /\ tail[t] \in Index
      /\ m \in Nat /\ Plus(head[t], m) = tail[t] /\ Live(t) = Stretch(array[t], head[t], m)
  BY RingIs
<1>2. Minus(Plus(tail[t], n), head[t]) = m + n
  BY <1>1, TailMoves
<1> HIDE DEF m
<1>3. Live(t)' = Stretch(array[t], head[t], m + n)
  BY <1>2 DEF Live, Span, Stretch
<1>4. Stretch(array[t], head[t], m + n)
        = Stretch(array[t], head[t], m) \o Stretch(array[t], Plus(head[t], m), n)
  <2>1. m + n <= CAPACITY
    BY DEF m
  <2> QED
    BY <1>1, <2>1, StretchCut
<1> QED
  BY <1>1, <1>3, <1>4, StretchIs

(* When push takes half of a full ring, that half moves from the ring to the list
   that will overflow. *)
LEMMA PlaceMigrate ==
    ASSUME PlaceInv, HeadsMoveOn, NEW t \in Threads, PushMigrate(t), head[t] = seen[t]
    PROVE  Hands' /\ Kept'
<1>1. QueueInv /\ Rings /\ Hands /\ Kept /\ Types /\ HandOf(t)
  BY DEF PlaceInv, QueueInv, Hands
<1> DEFINE half  == CAPACITY \div 2
           taken == Stretch(array[t], head[t], half)
<1>2. /\ pc[t] = "push" /\ Minus(tail[t], head[t]) = CAPACITY
      /\ head' = [head EXCEPT ![t] = Plus(head[t], half)] /\ pc' = [pc EXCEPT ![t] = "overflow"]
      /\ UNCHANGED <<queue, tail, array, chain, victim, seen, count, got, next, ran>>
  BY DEF PushMigrate, Goto, scheduling
<1>3. list' = [list EXCEPT ![t] = taken \o list[t]]
  BY DEF PushMigrate, Span, Stretch
<1>4. half \in Nat /\ half <= Minus(tail[t], head[t])
  BY <1>2, RunQueuesAssumption
<1>5. head'[t] = Plus(head[t], half) /\ tail'[t] = tail[t] /\ array'[t] = array[t]
      /\ pc'[t] = "overflow" /\ list'[t] = taken \o list[t] /\ list[t] \in Seq(Entries)
  BY <1>1, <1>2, <1>3 DEF Types
<1> HIDE DEF half
<1>6. Live(t) = taken \o Live(t)' /\ taken \in Seq(Entries) /\ Live(t)' \in Seq(Entries)
  BY <1>1, <1>4, <1>5, HeadCuts
<1> HIDE DEF taken
<1>7. Local(t)
  BY <1>1, <1>2, <1>3 DEF Local, Types
<1>8. Claimed(t)' = Claimed(t)
  BY <1>2, <1>5 DEF Claimed, Consuming
<1>9. Hands'
  <2>1. HandOf(t)'
    BY <1>1, <1>2, <1>5 DEF HandOf, Consuming
  <2>2. Stretch(array'[t], head[t], Minus(tail[t], head[t])) = Live(t)
    BY <1>1, <1>2, RingIs
  <2> QED
    BY <1>7, <2>1, <2>2, HandsStay DEF Local
<1> DEFINE a == <<"live", t>>
           b == <<"list", t>>
           S == {a, b, b}
<1>10. a \in Places /\ b \in Places /\ a # b
  BY PlacesAre
<1>11. \A p \in Places : p \notin S => Pile(p)' = Pile(p)
  <2>1. \A q \in QueueIds : Cache(q)' = Cache(q)
    BY <1>2 DEF Cache
  <2>2. <<"live", t>> \in S /\ <<"list", t>> \in S
    OBVIOUS
  <2> HIDE DEF S
  <2> QED
    BY <1>2, <1>7, <1>8, <2>1, <2>2, LocalPiles
<1> DEFINE kept == Live(t)'
<1>12. /\ Pile(a) = taken \o kept /\ Pile(b) = list[t]
       /\ Pile(a)' = kept /\ Pile(b)' = taken \o list[t]
  BY <1>5, <1>6, PileIs
<1>13. kept \in Seq(Entries)
  BY <1>6
<1> HIDE DEF a, b, kept
<1>14. /\ Distinct(taken \o kept) /\ Distinct(list[t])
       /\ Elems(taken \o kept) \cap Elems(list[t]) = {}
  BY <1>1, <1>10, <1>12, KeptIs
<1>15. /\ Elems(taken \o kept) = Elems(taken) \cup Elems(kept)
       /\ Distinct(taken) /\ Distinct(kept) /\ Elems(taken) \cap Elems(kept) = {}
  BY <1>6, <1>13, <1>14, JoinIs
<1>16. Elems(Pile(b)') = Elems(taken) \cup Elems(list[t]) /\ Distinct(Pile(b)')
  BY <1>5, <1>6, <1>12, <1>14, <1>15, JoinIs
<1>17. /\ Distinct(Pile(a)') /\ Elems(Pile(a)') \cap Elems(Pile(b)') = {}
       /\ Elems(Pile(a)') \cup Elems(Pile(b)') \cup Elems(Pile(b)')
            = Elems(Pile(a)) \cup Elems(Pile(b)) \cup Elems(Pile(b))
  BY <1>12, <1>14, <1>15, <1>16
<1>18. Kept'
  BY <1>1, <1>2, <1>10, <1>11, <1>16, <1>17, MovedOnly
<1> QED
  BY <1>9, <1>18

(* pop takes the oldest node off the ring, and it is run. *)
LEMMA PlacePop ==
    ASSUME PlaceInv, HeadsMoveOn, NEW t \in Threads, PopBuffer(t)
    PROVE  Hands' /\ Kept'
<1>1. QueueInv /\ Rings /\ Hands /\ Kept /\ Types /\ HandOf(t)
  BY DEF PlaceInv, QueueInv, Hands
<1>2. pc[t] = "pop" /\ UNCHANGED <<queue, tail, array, list, chain, victim, seen, count, got, next>>
  BY DEF PopBuffer, Return, scheduling
<1>3. CASE head[t] = tail[t]
  <2>1. pc' = [pc EXCEPT ![t] = "own"] /\ UNCHANGED <<head, ran>>
    BY <1>3 DEF PopBuffer, Goto, scheduling
  <2>2. pc'[t] = "own" /\ OthersStay(t)
    BY <1>1, <1>2, <2>1 DEF Types, OthersStay
  <2>3. Claimed(t)' = Claimed(t)
    BY <1>2, <2>2 DEF Claimed, Consuming
  <2>4. HandOf(t)'
    BY <1>1, <1>2, <2>2 DEF HandOf, Consuming
  <2> QED
    BY <1>2, <2>1, <2>2, <2>3, <2>4, Quiet
<1>4. CASE head[t] # tail[t]
  <2> DEFINE x == array[t][Slot(head[t])]
  <2>1. /\ head' = [head EXCEPT ![t] = Plus(head[t], 1)] /\ pc' = [pc EXCEPT ![t] = "run"]
        /\ ran' = [ran EXCEPT ![x] = @ + 1]
    BY <1>4 DEF PopBuffer, Return, Goto
  <2>2. /\ array[t] \in [Slots -> Entries] /\ head[t] \in Index /\ tail[t] \in Index
        /\ Minus(tail[t], head[t]) \in Nat
    BY <1>1, RingIs
  <2>3. 1 \in Nat /\ 1 <= Minus(tail[t], head[t])
    BY <1>4, <2>2, MinusNat
  <2>4. /\ head'[t] = Plus(head[t], 1) /\ tail'[t] = tail[t] /\ array'[t] = array[t]
        /\ pc'[t] = "run"
    BY <1>1, <1>2, <2>1 DEF Types
  <2>5. Live(t) = <<x>> \o Live(t)' /\ <<x>> \in Seq(Entries) /\ Live(t)' \in Seq(Entries)
    <3>1. Stretch(array[t], head[t], 1) = <<x>>
      BY <2>2, StretchOne
    <3>2. /\ Live(t) = Stretch(array[t], head[t], 1) \o Live(t)'
          /\ Stretch(array[t], head[t], 1) \in Seq(Entries) /\ Live(t)' \in Seq(Entries)
      BY <1>1, <2>3, <2>4, HeadCuts
    <3> QED
      BY <3>1, <3>2
  <2> HIDE DEF x
  <2>6. Local(t)
    BY <1>1, <1>2, <2>1 DEF Local, Types
  <2>7. Claimed(t)' = Claimed(t)
    BY <1>2, <2>4 DEF Claimed, Consuming
  <2>8. Hands'
    <3>1. HandOf(t)'
      BY <1>1, <1>2, <2>4 DEF HandOf, Consuming
    <3>2. Stretch(array'[t], head[t], Minus(tail[t], head[t])) = Live(t)
      BY <1>1, <1>2, RingIs
    <3> QED
      BY <2>6, <3>1, <3>2, HandsStay DEF Local
  <2> DEFINE a == <<"live", t>>
             S == {a, a, a}
  <2>9. a \in Places
    BY PlacesAre
  <2>10. \A p \in Places : p \notin S => Pile(p)' = Pile(p)
    <3>1. \A q \in QueueIds : Cache(q)' = Cache(q)
      BY <1>2 DEF Cache
    <3>2. <<"live", t>> \in S
      OBVIOUS
    <3> HIDE DEF S
    <3> QED
      BY <1>2, <2>6, <2>7, <3>1, <3>2, LocalPiles
  <2> DEFINE kept == Live(t)'
  <2>11. Pile(a) = <<x>> \o kept /\ Pile(a)' = kept /\ kept \in Seq(Entries)
    BY <2>5, PileIs
  <2> HIDE DEF a, kept
  <2>12. Distinct(<<x>> \o kept)
    BY <1>1, <2>9, <2>11, KeptIs
  <2>13. Elems(<<x>> \o kept) = {x} \cup Elems(kept) /\ x \notin Elems(kept) /\ Distinct(kept)
    <3>1. Elems(<<x>>) = {x}
      BY FewElems
    <3>2. /\ Elems(<<x>> \o kept) = Elems(<<x>>) \cup Elems(kept) /\ Distinct(kept)
          /\ Elems(<<x>>) \cap Elems(kept) = {}
      BY <2>5, <2>11, <2>12, JoinIs
    <3> QED
      BY <3>1, <3>2
  <2>14. /\ Distinct(Pile(a)') /\ x \in Elems(Pile(a)) \cup Elems(Pile(a)) \cup Elems(Pile(a))
         /\ Elems(Pile(a)') \cup Elems(Pile(a)') \cup Elems(Pile(a)')
              = (Elems(Pile(a)) \cup Elems(Pile(a)) \cup Elems(Pile(a))) \ {x}
    BY <2>11, <2>13
  <2>15. Kept'
    BY <1>1, <1>2, <2>1, <2>9, <2>10, <2>14, MovedOut
  <2> QED
    BY <2>8, <2>15
<1> QED
  BY <1>3, <1>4

(* The store of tail in consume moves the nodes claimed into the ring. *)
LEMMA PlacePublish ==
    ASSUME PlaceInv, HeadsMoveOn, NEW t \in Threads, Publish(t)
    PROVE  Hands' /\ Kept'
<1>1. QueueInv /\ Rings /\ Hands /\ Kept /\ Types /\ HandOf(t)
  BY DEF PlaceInv, QueueInv, Hands
<1> DEFINE n    == count[t]
           part == Stretch(array[t], tail[t], n)
<1>2. /\ pc[t] = "publish" /\ tail' = [tail EXCEPT ![t] = Plus(tail[t], n)]
      /\ count' = [count EXCEPT ![t] = 0] /\ pc' = [pc EXCEPT ![t] = "release"]
      /\ UNCHANGED <<queue, head, array, list, chain, victim, seen, got, next, ran>>
  BY DEF Publish, Goto, scheduling
<1>3. /\ array[t] \in [Slots -> Entries] /\ head[t] \in Index /\ tail[t] \in Index
      /\ n \in Nat /\ n <= CAPACITY /\ RingOf(t) /\ Span(t, tail[t], n) = part
  BY <1>1, RingIs
<1>4. Minus(tail[t], head[t]) = 0
  <2>1. head[t] = tail[t]
    BY <1>2, <1>3 DEF RingOf
  <2> QED
    BY <1>3, <2>1, MinusNat
<1>5. /\ pc'[t] = "release" /\ tail'[t] = Plus(tail[t], n) /\ head'[t] = head[t]
      /\ array'[t] = array[t] /\ count'[t] = 0
  BY <1>1, <1>2 DEF Types
<1>6. Live(t)' = Live(t) \o part /\ Live(t) \in Seq(Entries) /\ part \in Seq(Entries)
  <2>1. Minus(tail[t], head[t]) + n <= CAPACITY
    BY <1>3, <1>4
  <2> QED
    BY <1>1, <1>3, <1>5, <2>1, TailAdds
<1>7. Claimed(t) = part /\ Claimed(t)' = <<>>
  <2>1. Claimed(t) = part
    BY <1>2, <1>3 DEF Claimed, Consuming
  <2>2. Claimed(t)' = [k \in 1..0 |-> array'[t][Slot(Plus(tail'[t], k - 1))]]
    BY <1>5 DEF Claimed, Consuming, Span
  <2>3. 1..0 = {}
    OBVIOUS
  <2> QED
    BY <2>1, <2>2, <2>3
<1> HIDE DEF n, part
<1>8. Local(t)
  BY <1>1, <1>2 DEF Local, Types
<1>9. Hands'
  <2>1. HandOf(t)'
    BY <1>1, <1>2, <1>5 DEF HandOf, Consuming
  <2>2. Stretch(array'[t], head[t], Minus(tail[t], head[t])) = Live(t)
    BY <1>1, <1>2, RingIs
  <2> QED
    BY <1>8, <2>1, <2>2, HandsStay DEF Local
<1> DEFINE a == <<"live", t>>
           b == <<"claimed", t>>
           S == {a, b, b}
<1>10. a \in Places /\ b \in Places /\ a # b
  BY PlacesAre
<1>11. \A p \in Places : p \notin S => Pile(p)' = Pile(p)
  <2>1. \A q \in QueueIds : Cache(q)' = Cache(q)
    BY <1>2 DEF Cache
  <2>2. <<"live", t>> \in S /\ <<"claimed", t>> \in S
    OBVIOUS
  <2> HIDE DEF S
  <2> QED
    BY <1>2, <1>8, <2>1, <2>2, LocalPiles
<1>12. /\ Pile(a) = Live(t) /\ Pile(b) = part /\ Pile(a)' = Live(t) \o part /\ Pile(b)' = <<>>
  BY <1>6, <1>7, PileIs
<1> HIDE DEF a, b
<1>13. Distinct(Pile(a)) /\ Distinct(Pile(b)) /\ Elems(Pile(a)) \cap Elems(Pile(b)) = {}
  BY <1>1, <1>10, KeptIs
<1>14. /\ Elems(Pile(a)') = Elems(Pile(a)) \cup Elems(Pile(b)) /\ Distinct(Pile(a)')
       /\ Elems(Pile(b)') = {} /\ Distinct(Pile(b)')
  BY <1>6, <1>12, <1>13, JoinIs, FewElems
<1>15. Kept'
  BY <1>1, <1>2, <1>10, <1>11, <1>14, MovedOnly
<1> QED
  BY <1>9, <1>15

-----------------------------------------------------------------------------
(* Scheduling *)

(* A batch is the nodes with the numbers that come next, each once. *)
LEMMA BatchIs ==
    ASSUME Types, NEW batch \in Batches
    PROVE  /\ Elems(batch) = {n \in Nodes : next <= n /\ n < next + Len(batch)}
           /\ Distinct(batch)
<1>1. /\ batch \in Seq(Nodes) /\ Len(batch) \in Nat \ {0} /\ Len(batch) <= NodeCount + 1 - next
      /\ \A i \in 1..Len(batch) : batch[i] = next + i - 1
  BY BatchTyped
<1>2. next \in Nat /\ DOMAIN batch = 1..Len(batch) /\ NodeCount \in Nat
  BY <1>1, RunQueuesAssumption DEF Types
<1>3. ASSUME NEW n \in Elems(batch) PROVE n \in Nodes /\ next <= n /\ n < next + Len(batch)
  <2>1. PICK i \in 1..Len(batch) : n = batch[i]
    BY <1>2 DEF Elems
  <2> QED
    BY <1>1, <1>2, <2>1 DEF Nodes
<1>4. ASSUME NEW n \in Nodes, next <= n, n < next + Len(batch) PROVE n \in Elems(batch)
  <2>1. n \in Nat
    BY <1>2 DEF Nodes
  <2>2. n - next + 1 \in 1..Len(batch) /\ next + (n - next + 1) - 1 = n
    BY <1>1, <1>2, <1>4, <2>1
  <2>3. batch[n - next + 1] = n
    BY <1>1, <2>2
  <2> QED
    BY <1>2, <2>2, <2>3 DEF Elems
<1>5. Distinct(batch)
  <2>1. ASSUME NEW i \in 1..Len(batch), NEW j \in 1..Len(batch), batch[i] = batch[j] PROVE i = j
    <3>1. next + i - 1 = next + j - 1
      BY <1>1, <2>1
    <3> QED
      BY <1>1, <1>2, <3>1
  <2> QED
    BY <1>2, <2>1 DEF Distinct
<1> QED
  BY <1>3, <1>4, <1>5

(* The batch is added to one place. *)
LEMMA Arrived ==
    ASSUME Kept, Types, NEW batch \in Batches, NEW a \in Places, Pile(a) \in Seq(Entries),
           \A p \in Places : p \notin {a} => Pile(p)' = Pile(p),
           Pile(a)' = batch \o Pile(a), next' = next + Len(batch), ran' = ran
    PROVE  Kept'
<1>1. batch \in Seq(Entries) /\ Len(batch) \in Nat /\ next \in Nat /\ next' >= next /\ next' \in Nat
  <2>1. batch \in Seq(Entries) /\ Len(batch) \in Nat /\ next \in Nat
    BY BatchTyped DEF Types
  <2> QED
    BY <2>1
<1> DEFINE in  == Elems(batch)
           out == {}
           S   == {a}
<1>2. in = {n \in Nodes : next <= n /\ n < next'} /\ Distinct(batch)
  BY BatchIs
<1>3. Elems(batch) \cap Elems(Pile(a)) = {}
  <2>1. SUFFICES ASSUME NEW n \in Elems(batch), n \in Elems(Pile(a)) PROVE FALSE
    OBVIOUS
  <2>2. n \in Nodes /\ n < next
    BY <2>1 DEF Kept, Stored
  <2>3. next <= n /\ n \in Nat
    BY <1>2, <2>2, RunQueuesAssumption DEF Nodes
  <2> QED
    BY <1>1, <2>2, <2>3
<1>4. Elems(Pile(a)') = in \cup Elems(Pile(a)) /\ Distinct(Pile(a)')
  <2>1. Distinct(Pile(a))
    BY KeptIs
  <2> QED
    BY <1>1, <1>2, <1>3, <2>1, JoinIs
<1>5. Regrouped(S, in, out)
  BY <1>4 DEF Regrouped
<1>6. /\ S \in SUBSET Places /\ \A n \in out : \E p \in S : n \in Elems(Pile(p))
      /\ \A p \in Places : p \notin S => Pile(p)' = Pile(p)
      /\ \A n \in Nodes : ran'[n] = IF n \in out THEN ran[n] + 1 ELSE ran[n]
  OBVIOUS
<1>7. ran' \in [Nodes -> Nat]
  <2>1. ran \in [Nodes -> 0..1]
    BY DEF Kept, RanOnce
  <2> QED
    BY <2>1
<1> HIDE DEF in, out, S
<1> QED
  BY <1>1, <1>2, <1>5, <1>6, <1>7, Regroup

(* A batch scheduled from outside goes to the global queue. *)
LEMMA PlaceGlobal ==
    ASSUME PlaceInv, HeadsMoveOn, PushGlobal
    PROVE  Hands' /\ Kept'
<1>1. QueueInv /\ Rings /\ Hands /\ Kept /\ Types /\ Global \in QueueIds
  BY DEF PlaceInv, QueueInv, QueueIds
<1>2. PICK batch \in Batches : /\ queue' = [queue EXCEPT ![Global].stack = batch \o @]
                               /\ next' = next + Len(batch)
  BY DEF PushGlobal
<1>3. UNCHANGED <<head, tail, array, pc, list, chain, victim, seen, count, got, ran>>
  BY DEF PushGlobal
<1>4. batch \in Seq(Entries) /\ queue[Global].stack \in Seq(Entries)
  BY <1>1, BatchTyped DEF Types, QueueRecord
<1>5. /\ \A p \in QueueIds : /\ queue'[p].consumer = queue[p].consumer
                             /\ queue'[p].cache = queue[p].cache
                             /\ p # Global => queue'[p].stack = queue[p].stack
      /\ queue'[Global].stack = batch \o queue[Global].stack
  <2>1. queue' = [queue EXCEPT ![Global].stack = batch \o queue[Global].stack]
    BY <1>1, <1>2 DEF Types
  <2>2. batch \o queue[Global].stack \in Seq(Entries)
    BY <1>4
  <2> QED
    BY <1>1, <2>1, <2>2, StackReplaced
<1>6. Hands'
  BY <1>1, <1>3 DEF Hands, HandOf, Span
<1> DEFINE a == <<"stack", Global>>
           S == {a}
<1>7. a \in Places /\ Pile(a) = queue[Global].stack /\ Pile(a)' = queue'[Global].stack
  BY <1>1, PlacesAre, PileIs
<1>8. \A p \in Places : p \notin S => Pile(p)' = Pile(p)
  <2>1. \A q \in QueueIds : <<"cache", q>> \notin S => Cache(q)' = Cache(q)
    BY <1>5 DEF Cache
  <2>2. \A q \in QueueIds : <<"stack", q>> \notin S => queue'[q].stack = queue[q].stack
    BY <1>5
  <2>3. \A t \in Threads : /\ Live(t)' = Live(t) /\ list'[t] = list[t] /\ chain'[t] = chain[t]
                           /\ Claimed(t)' = Claimed(t) /\ Got(t)' = Got(t)
    BY <1>3 DEF Live, Claimed, Span, Got
  <2> HIDE DEF S
  <2> QED
    BY <2>1, <2>2, <2>3, PilesStay
<1> HIDE DEF a
<1>9. Kept'
  BY <1>1, <1>2, <1>3, <1>4, <1>5, <1>7, <1>8, Arrived
<1> QED
  BY <1>6, <1>9

(* A batch scheduled by a worker goes to its list. *)
LEMMA PlaceSchedule ==
    ASSUME PlaceInv, HeadsMoveOn, NEW t \in Threads, ScheduleInside(t)
    PROVE  Hands' /\ Kept'
<1>1. QueueInv /\ Rings /\ Hands /\ Kept /\ Types /\ HandOf(t)
  BY DEF PlaceInv, QueueInv, Hands
<1>2. PICK batch \in Batches : list' = [list EXCEPT ![t] = batch] /\ next' = next + Len(batch)
  BY DEF ScheduleInside
<1>3. /\ pc[t] = "run" /\ pc' = [pc EXCEPT ![t] = "push"] /\ seen' = [seen EXCEPT ![t] = head[t]]
      /\ UNCHANGED <<queue, head, tail, array, chain, victim, count, got, ran>>
  BY DEF ScheduleInside, Goto
<1>4. /\ batch \in Seq(Entries) /\ list[t] = <<>> /\ list'[t] = batch /\ pc'[t] = "push"
  BY <1>1, <1>2, <1>3, BatchTyped DEF Types, HandOf
<1>5. Local(t)
  BY <1>1, <1>2, <1>3 DEF Local, Types
<1>6. Live(t)' = Live(t) /\ Claimed(t)' = Claimed(t)
  BY <1>3, <1>4 DEF Live, Claimed, Span, Consuming
<1>7. Hands'
  <2>1. HandOf(t)'
    BY <1>1, <1>3, <1>4 DEF HandOf, Consuming
  <2>2. Stretch(array'[t], head[t], Minus(tail[t], head[t])) = Live(t)
    BY <1>1, <1>3, RingIs
  <2> QED
    BY <1>5, <2>1, <2>2, HandsStay DEF Local
<1> DEFINE a == <<"list", t>>
           S == {a}
<1>8. /\ a \in Places /\ Pile(a) = <<>> /\ Pile(a)' = batch /\ <<>> \in Seq(Entries)
      /\ batch = batch \o <<>>
  <2>1. batch = batch \o <<>> /\ <<>> \in Seq(Entries)
    BY <1>4
  <2>2. a \in Places /\ Pile(a) = list[t] /\ Pile(a)' = list'[t]
    BY PlacesAre, PileIs
  <2> QED
    BY <1>4, <2>1, <2>2
<1>9. \A p \in Places : p \notin S => Pile(p)' = Pile(p)
  <2>1. \A q \in QueueIds : Cache(q)' = Cache(q)
    BY <1>3 DEF Cache
  <2>2. <<"list", t>> \in S
    OBVIOUS
  <2> HIDE DEF S
  <2> QED
    BY <1>3, <1>5, <1>6, <2>1, <2>2, LocalPiles
<1> HIDE DEF a
<1>10. Pile(a)' = batch \o Pile(a) /\ Pile(a) \in Seq(Entries)
  BY <1>8
<1>11. Kept'
  BY <1>1, <1>2, <1>3, <1>8, <1>9, <1>10, Arrived
<1> QED
  BY <1>7, <1>11

-----------------------------------------------------------------------------
(* Buffer::consume *)

(* A ring with head at tail holds nothing, whatever its slots hold. *)
LEMMA EmptyRing ==
    ASSUME QueueInv, Rings, NEW t \in Threads, head[t] = tail[t]
    PROVE  /\ Live(t) = <<>>
           /\ \A slots : Stretch(slots, head[t], Minus(tail[t], head[t])) = <<>>
           /\ head'[t] = head[t] /\ tail'[t] = tail[t] => Live(t)' = <<>>
<1>1. Minus(tail[t], head[t]) = 0 /\ 1..0 = {}
  BY RingIs, MinusNat
<1>2. \A slots : Stretch(slots, head[t], Minus(tail[t], head[t])) = <<>>
  BY <1>1 DEF Stretch
<1>3. Live(t) = <<>>
  BY <1>1 DEF Live, Span
<1>4. head'[t] = head[t] /\ tail'[t] = tail[t] => Live(t)' = <<>>
  BY <1>1 DEF Live, Span
<1> QED
  BY <1>2, <1>3, <1>4

(* Outside consume and steal, or with a count of zero, nothing is claimed. *)
LEMMA NoneClaimed ==
    ASSUME NEW t \in Threads
    PROVE  /\ pc[t] \notin Consuming \cup {"stealPublish"} \/ count[t] = 0 => Claimed(t) = <<>>
           /\ pc'[t] \notin Consuming \cup {"stealPublish"} \/ count'[t] = 0 => Claimed(t)' = <<>>
<1>1. 1..0 = {}
  OBVIOUS
<1>2. pc[t] \notin Consuming \cup {"stealPublish"} \/ count[t] = 0 => Claimed(t) = <<>>
  BY <1>1 DEF Claimed, Span
<1>3. pc'[t] \notin Consuming \cup {"stealPublish"} \/ count'[t] = 0 => Claimed(t)' = <<>>
  BY <1>1 DEF Claimed, Span
<1> QED
  BY <1>2, <1>3

(* try_acquire_consumer moves the cache, or the stack when nothing is cached, to
   the consumer's chain. *)
LEMMA PlaceAcquire ==
    ASSUME PlaceInv, HeadsMoveOn, NEW t \in Threads, Acquire(t)
    PROVE  Hands' /\ Kept'
<1>1. /\ QueueInv /\ Rings /\ Hands /\ Kept /\ Types /\ HandOf(t) /\ Counts /\ OneConsumer
      /\ t # Nil
  BY RunQueuesAssumption DEF PlaceInv, QueueInv, Hands
<1>q. PICK q : q = Source(t)
  OBVIOUS
<1> DEFINE taken == IF queue[q].cache # <<>> THEN queue[q].cache ELSE queue[q].stack
           left  == IF queue[q].hasCache THEN queue[q].stack ELSE <<>>
           after == [queue[q] EXCEPT !.consumer = t, !.hasCache = TRUE, !.stack = left]
<1>2. /\ pc[t] \in {"own", "global", "target"} /\ queue[q].consumer = Nil
      /\ chain' = [chain EXCEPT ![t] = taken] /\ pc' = [pc EXCEPT ![t] = "fill"]
      /\ UNCHANGED <<head, tail, array, list, victim, seen, count, got, next, ran>>
  BY <1>q DEF Acquire, Goto, scheduling
<1>3. q \in QueueIds
  BY <1>1, <1>2, <1>q DEF Source, QueueIds, Types
<1>4. queue[q] \in QueueRecord /\ queue \in [QueueIds -> QueueRecord]
  BY <1>1, <1>3 DEF Types
<1>5. queue' = [queue EXCEPT ![q] = after]
  BY <1>3, <1>4, <1>q DEF Acquire
<1>6. /\ \A p \in QueueIds : p # q => queue'[p] = queue[p]
      /\ queue'[q].consumer = t /\ queue'[q].stack = left
  <2>1. queue'[q] = after
    BY <1>3, <1>4, <1>5
  <2>2. after.consumer = t /\ after.stack = left
    BY <1>4 DEF QueueRecord
  <2> HIDE DEF after
  <2> QED
    BY <1>4, <1>5, <2>1, <2>2
<1>7. queue[q].hasCache <=> queue[q].cache # <<>>
  BY <1>1, <1>2, <1>3 DEF OneConsumer
<1>8. pc'[t] = "fill" /\ chain'[t] = taken /\ chain[t] = <<>> /\ count'[t] = 0
  BY <1>1, <1>2 DEF Types, HandOf, Consuming, Counts
<1> HIDE DEF taken, left, after
<1>9. Local(t)
  BY <1>1, <1>2 DEF Local, Types
<1>10. Claimed(t)' = Claimed(t)
  BY <1>2, <1>8, NoneClaimed DEF Consuming
<1>11. Live(t)' = Live(t)
  BY <1>2 DEF Live, Span
<1>12. Hands'
  <2>1. HandOf(t)'
    BY <1>1, <1>2, <1>8 DEF HandOf, Consuming
  <2>2. Stretch(array'[t], head[t], Minus(tail[t], head[t])) = Live(t)
    BY <1>1, <1>2, RingIs
  <2> QED
    BY <1>9, <2>1, <2>2, HandsStay DEF Local
<1> DEFINE a == <<"stack", q>>
           b == <<"cache", q>>
           c == <<"chain", t>>
           S == {a, b, c}
<1>13. a \in Places /\ b \in Places /\ c \in Places /\ a # b /\ a # c /\ b # c
  BY <1>3, PlacesAre
<1>14. \A p \in Places : p \notin S => Pile(p)' = Pile(p)
  <2>1. \A p \in QueueIds : <<"cache", p>> \notin S => Cache(p)' = Cache(p)
    BY <1>6 DEF Cache
  <2>2. \A p \in QueueIds : <<"stack", p>> \notin S => queue'[p].stack = queue[p].stack
    BY <1>6
  <2>3. <<"chain", t>> \in S
    OBVIOUS
  <2> HIDE DEF S
  <2> QED
    BY <1>2, <1>9, <1>10, <1>11, <2>1, <2>2, <2>3, LocalPiles
<1>15. /\ Pile(a) = queue[q].stack /\ Pile(b) = queue[q].cache /\ Pile(c) = <<>>
       /\ Pile(a)' = left /\ Pile(b)' = <<>> /\ Pile(c)' = taken
  <2>1. Cache(q) = queue[q].cache /\ Cache(q)' = <<>>
    BY <1>1, <1>2, <1>6 DEF Cache
  <2>2. /\ Pile(a) = queue[q].stack /\ Pile(b) = Cache(q) /\ Pile(c) = chain[t]
        /\ Pile(a)' = queue'[q].stack /\ Pile(b)' = Cache(q)' /\ Pile(c)' = chain'[t]
    BY PileIs
  <2> QED
    BY <1>6, <1>8, <2>1, <2>2
<1> HIDE DEF a, b, c
<1>16. /\ Distinct(Pile(a)) /\ Distinct(Pile(b)) /\ Elems(Pile(a)) \cap Elems(Pile(b)) = {}
       /\ Elems(<<>>) = {} /\ Distinct(<<>>)
  BY <1>1, <1>13, KeptIs, FewElems
<1>17. CASE queue[q].cache # <<>>
  <2>1. Pile(a)' = Pile(a) /\ Pile(c)' = Pile(b)
    BY <1>7, <1>15, <1>17 DEF taken, left
  <2>2. /\ Distinct(Pile(a)') /\ Distinct(Pile(b)') /\ Distinct(Pile(c)')
        /\ Elems(Pile(a)') \cap Elems(Pile(b)') = {} /\ Elems(Pile(a)') \cap Elems(Pile(c)') = {}
        /\ Elems(Pile(b)') \cap Elems(Pile(c)') = {}
        /\ Elems(Pile(a)') \cup Elems(Pile(b)') \cup Elems(Pile(c)')
             = Elems(Pile(a)) \cup Elems(Pile(b)) \cup Elems(Pile(c))
    BY <1>15, <1>16, <2>1
  <2>3. Kept'
    BY <1>1, <1>2, <1>13, <1>14, <2>2, MovedOnly
  <2> QED
    BY <1>12, <2>3
<1>18. CASE queue[q].cache = <<>>
  <2>1. Pile(a)' = <<>> /\ Pile(c)' = Pile(a) /\ Pile(b) = <<>>
    BY <1>7, <1>15, <1>18 DEF taken, left
  <2>2. /\ Distinct(Pile(a)') /\ Distinct(Pile(b)') /\ Distinct(Pile(c)')
        /\ Elems(Pile(a)') \cap Elems(Pile(b)') = {} /\ Elems(Pile(a)') \cap Elems(Pile(c)') = {}
        /\ Elems(Pile(b)') \cap Elems(Pile(c)') = {}
        /\ Elems(Pile(a)') \cup Elems(Pile(b)') \cup Elems(Pile(c)')
             = Elems(Pile(a)) \cup Elems(Pile(b)) \cup Elems(Pile(c))
    BY <1>15, <1>16, <2>1
  <2>3. Kept'
    BY <1>1, <1>2, <1>13, <1>14, <2>2, MovedOnly
  <2> QED
    BY <1>12, <2>3
<1> QED
  BY <1>17, <1>18

(* Consumer::pop takes node x off the list and the queue q of a consumer. *)
Takes(t, q, x) ==
    /\ q = Held(t) /\ x = Head(Supply(t)) /\ q \in QueueIds /\ x \in Nodes
    /\ \A p \in QueueIds : Cache(p)' = Cache(p) /\ (p # q => queue'[p].stack = queue[p].stack)
    /\ Distinct(queue'[q].stack) /\ Distinct(chain'[t])
    /\ Elems(queue'[q].stack) \cap Elems(chain'[t]) = {}
    /\ Elems(queue'[q].stack) \cup Elems(chain'[t])
         = (Elems(queue[q].stack) \cup Elems(chain[t])) \ {x}
    /\ x \in Elems(queue[q].stack) \cup Elems(chain[t])

(* Consumer::pop takes one node from the chain, or from the stack when the chain is
   used up, and then the rest of the stack becomes the chain. *)
LEMMA PopTakes ==
    ASSUME QueueInv, Kept, NEW t \in Threads, pc[t] \in Consuming, ConsumerPop(t)
    PROVE  \E q, x : Takes(t, q, x)
<1>q. PICK q : q = Held(t)
  OBVIOUS
<1>x. PICK x : x = Head(Supply(t))
  OBVIOUS
<1> SUFFICES Takes(t, q, x)
  OBVIOUS
<1>1. Types
  BY DEF QueueInv
<1>2. q \in QueueIds /\ queue[q] \in QueueRecord /\ queue[q].stack \in Seq(Entries)
      /\ chain[t] \in Seq(Entries)
  BY <1>1, <1>q, HeldIsMine DEF Types, QueueRecord
<1> DEFINE s == Supply(t)
           r == Tail(s)
<1>3. s = IF chain[t] # <<>> THEN chain[t] ELSE queue[q].stack
  BY <1>q DEF Supply
<1>4. s # <<>> /\ s \in Seq(Entries)
  BY <1>2, <1>3, <1>q DEF ConsumerPop, Available
<1>5. chain'[t] = r
  BY <1>1 DEF ConsumerPop, Types
<1> HIDE DEF s
<1>6. s = <<x>> \o r /\ x \in Entries /\ r \in Seq(Entries)
  <2>1. x = Head(s)
    BY <1>x DEF s
  <2> QED
    BY <1>4, <2>1
<1> HIDE DEF r
<1>7. /\ \A p \in QueueIds : /\ Cache(p)' = Cache(p)
                             /\ p # q => queue'[p].stack = queue[p].stack
      /\ queue'[q].stack = IF chain[t] # <<>> THEN queue[q].stack ELSE <<>>
  <2>1. CASE chain[t] # <<>>
    BY <2>1 DEF ConsumerPop, Cache
  <2>2. CASE chain[t] = <<>>
    <3>1. queue' = [queue EXCEPT ![q].stack = <<>>] /\ <<>> \in Seq(Entries)
      BY <1>q, <2>2 DEF ConsumerPop
    <3>2. /\ \A p \in QueueIds : /\ queue'[p].consumer = queue[p].consumer
                                 /\ queue'[p].cache = queue[p].cache
                                 /\ p # q => queue'[p].stack = queue[p].stack
          /\ queue'[q].stack = <<>>
      BY <1>1, <1>2, <3>1, StackReplaced
    <3> QED
      BY <2>2, <3>2 DEF Cache
  <2> QED
    BY <2>1, <2>2
<1>8. /\ Distinct(queue[q].stack) /\ Distinct(chain[t])
      /\ Elems(queue[q].stack) \cap Elems(chain[t]) = {}
      /\ \A n \in Elems(queue[q].stack) \cup Elems(chain[t]) : n \in Nodes
  <2> DEFINE a == <<"stack", q>>
             b == <<"chain", t>>
  <2>1. a \in Places /\ b \in Places /\ a # b /\ Pile(a) = queue[q].stack /\ Pile(b) = chain[t]
    BY <1>2, PlacesAre, PileIs
  <2> HIDE DEF a, b
  <2> QED
    BY <2>1, KeptIs
<1>9. Distinct(s)
  BY <1>3, <1>8
<1>10. Elems(s) = {x} \cup Elems(r) /\ x \notin Elems(r) /\ Distinct(r)
  <2>1. Elems(<<x>>) = {x} /\ <<x>> \in Seq(Entries)
    BY <1>6, FewElems
  <2>2. Elems(<<x>> \o r) = Elems(<<x>>) \cup Elems(r) /\ Distinct(r)
        /\ Elems(<<x>>) \cap Elems(r) = {}
    BY <1>6, <1>9, <2>1, JoinIs
  <2> QED
    BY <1>6, <2>1, <2>2
<1>11. Elems(<<>>) = {} /\ Distinct(<<>>)
  BY FewElems
<1>12. CASE chain[t] # <<>>
  <2>1. s = chain[t] /\ queue'[q].stack = queue[q].stack
    BY <1>3, <1>7, <1>12
  <2> QED
    BY <1>q, <1>x, <1>2, <1>5, <1>7, <1>8, <1>10, <2>1 DEF Takes
<1>13. CASE chain[t] = <<>>
  <2>1. s = queue[q].stack /\ queue'[q].stack = <<>>
    BY <1>3, <1>7, <1>13
  <2> QED
    BY <1>q, <1>x, <1>2, <1>5, <1>7, <1>8, <1>10, <1>11, <1>13, <2>1 DEF Takes
<1> QED
  BY <1>12, <1>13

(* The loop of consume moves nodes, one at a time, from the chain to the slots
   behind tail. *)
LEMMA PlaceFill ==
    ASSUME PlaceInv, HeadsMoveOn, NEW t \in Threads, Fill(t)
    PROVE  Hands' /\ Kept'
<1>1. /\ QueueInv /\ Rings /\ Hands /\ Kept /\ Types /\ HandOf(t)
      /\ pc[t] = "fill" /\ pc[t] \in Consuming
  BY DEF PlaceInv, QueueInv, Hands, Fill, Consuming
<1>2. UNCHANGED <<head, tail, list, victim, seen, got, next, ran>>
  BY DEF Fill, scheduling
<1>3. CASE UNCHANGED <<queue, chain, array, count>> /\ pc' = [pc EXCEPT ![t] = "extra"]
  <2>1. pc'[t] = "extra" /\ OthersStay(t)
    BY <1>1, <1>2, <1>3 DEF Types, OthersStay
  <2>2. Claimed(t)' = Claimed(t)
    BY <1>1, <1>2, <1>3, <2>1 DEF Claimed, Consuming, Span
  <2>3. HandOf(t)'
    BY <1>1, <1>2, <1>3, <2>1 DEF HandOf, Consuming
  <2> QED
    BY <1>2, <1>3, <2>1, <2>2, <2>3, Quiet
<1>4. CASE ConsumerPop(t) /\ count[t] < CAPACITY /\ UNCHANGED pc
           /\ array' = [array EXCEPT ![t][Slot(Plus(tail[t], count[t]))] = Head(Supply(t))]
           /\ count' = [count EXCEPT ![t] = @ + 1]
  <2>q. PICK q, x : Takes(t, q, x)
    BY <1>1, <1>4, PopTakes
  <2> DEFINE n == count[t]
  <2>1. /\ x = Head(Supply(t)) /\ q \in QueueIds /\ x \in Nodes
        /\ \A p \in QueueIds : Cache(p)' = Cache(p) /\ (p # q => queue'[p].stack = queue[p].stack)
        /\ Distinct(queue'[q].stack) /\ Distinct(chain'[t])
        /\ Elems(queue'[q].stack) \cap Elems(chain'[t]) = {}
        /\ Elems(queue'[q].stack) \cup Elems(chain'[t])
             = (Elems(queue[q].stack) \cup Elems(chain[t])) \ {x}
        /\ x \in Elems(queue[q].stack) \cup Elems(chain[t])
    BY <2>q DEF Takes
  <2>2. \A u \in Threads : u # t => chain'[u] = chain[u]
    BY <1>1, <1>4, Popped
  <2>3. /\ array[t] \in [Slots -> Entries] /\ head[t] \in Index /\ tail[t] \in Index /\ n \in Nat
        /\ RingOf(t) /\ Span(t, tail[t], n) = Stretch(array[t], tail[t], n)
        /\ Claimed(t) \in Seq(Entries) /\ x \in Entries
    BY <1>1, <2>1, RingIs DEF Entries
  <2>4. head[t] = tail[t]
    BY <1>1, <2>3 DEF RingOf
  <2>5. /\ array'[t] = [array[t] EXCEPT ![Slot(Plus(tail[t], n))] = x] /\ count'[t] = n + 1
        /\ pc'[t] = "fill" /\ head'[t] = head[t] /\ tail'[t] = tail[t]
    BY <1>1, <1>2, <1>4, <2>1 DEF Types
  <2>6. Live(t)' = Live(t) /\ Stretch(array'[t], head[t], Minus(tail[t], head[t])) = Live(t)
    BY <1>1, <2>4, <2>5, EmptyRing
  <2>7. Claimed(t)' = Claimed(t) \o <<x>>
    <3>1. Claimed(t) = Stretch(array[t], tail[t], n)
      BY <1>1, <2>3 DEF Claimed
    <3>2. Claimed(t)' = Stretch(array'[t], tail[t], n + 1)
      BY <2>5 DEF Claimed, Consuming, Span, Stretch
    <3> HIDE DEF n
    <3>3. n < CAPACITY
      BY <1>4 DEF n
    <3>4. Stretch([array[t] EXCEPT ![Slot(Plus(tail[t], n))] = x], tail[t], n + 1)
            = Stretch(array[t], tail[t], n) \o <<x>>
      BY <2>3, <3>3, StretchGrows
    <3> QED
      BY <2>5, <3>1, <3>2, <3>4
  <2> HIDE DEF n
  <2>8. Local(t)
    BY <1>1, <1>2, <1>4, <2>2 DEF Local, Types
  <2>9. Hands'
    <3>1. HandOf(t)'
      BY <1>1, <1>2, <2>5 DEF HandOf, Consuming
    <3> QED
      BY <2>6, <2>8, <3>1, HandsStay DEF Local
  <2> DEFINE a == <<"stack", q>>
             b == <<"chain", t>>
             c == <<"claimed", t>>
             S == {a, b, c}
  <2>10. a \in Places /\ b \in Places /\ c \in Places /\ a # b /\ a # c /\ b # c
    BY <2>1, PlacesAre
  <2>11. \A p \in Places : p \notin S => Pile(p)' = Pile(p)
    <3>1. \A p \in QueueIds : <<"stack", p>> \notin S => queue'[p].stack = queue[p].stack
      BY <2>1
    <3>2. <<"chain", t>> \in S /\ <<"claimed", t>> \in S
      OBVIOUS
    <3> HIDE DEF S
    <3> QED
      BY <1>2, <2>1, <2>6, <2>8, <3>1, <3>2, LocalPiles
  <2>12. /\ Pile(a) = queue[q].stack /\ Pile(b) = chain[t] /\ Pile(c) = Claimed(t)
         /\ Pile(a)' = queue'[q].stack /\ Pile(b)' = chain'[t] /\ Pile(c)' = Claimed(t)'
    BY PileIs
  <2> HIDE DEF a, b, c
  <2>13. /\ Elems(Pile(a)) \cap Elems(Pile(c)) = {} /\ Elems(Pile(b)) \cap Elems(Pile(c)) = {}
         /\ Distinct(Pile(c))
    BY <1>1, <2>10, KeptIs
  <2>14. Elems(Pile(c)') = Elems(Pile(c)) \cup {x} /\ Distinct(Pile(c)')
    <3>1. Elems(<<x>>) = {x} /\ Distinct(<<x>>) /\ <<x>> \in Seq(Entries)
      BY <2>3, FewElems
    <3>2. Elems(Pile(c)) \cap Elems(<<x>>) = {}
      BY <2>1, <2>12, <2>13, <3>1
    <3> DEFINE s == Claimed(t)
               r == <<x>>
    <3>3. Pile(c)' = s \o r /\ Pile(c) = s /\ s \in Seq(Entries) /\ r \in Seq(Entries)
      BY <2>3, <2>7, <2>12, <3>1
    <3>4. Distinct(s) /\ Distinct(r) /\ Elems(s) \cap Elems(r) = {} /\ Elems(r) = {x}
      BY <2>13, <3>1, <3>2, <3>3
    <3> HIDE DEF s, r
    <3>5. Elems(s \o r) = Elems(s) \cup Elems(r) /\ Distinct(s \o r)
      BY <3>3, <3>4, JoinIs
    <3> QED
      BY <3>3, <3>4, <3>5
  <2>15. /\ Distinct(Pile(a)') /\ Distinct(Pile(b)')
         /\ Elems(Pile(a)') \cap Elems(Pile(b)') = {} /\ Elems(Pile(a)') \cap Elems(Pile(c)') = {}
         /\ Elems(Pile(b)') \cap Elems(Pile(c)') = {}
         /\ Elems(Pile(a)') \cup Elems(Pile(b)') \cup Elems(Pile(c)')
              = Elems(Pile(a)) \cup Elems(Pile(b)) \cup Elems(Pile(c))
    BY <2>1, <2>12, <2>13, <2>14
  <2>16. Kept'
    BY <1>1, <1>2, <2>10, <2>11, <2>14, <2>15, MovedOnly
  <2> QED
    BY <2>9, <2>16
<1> QED
  BY <1>3, <1>4 DEF Fill, Goto

(* The last of the nodes written beyond tail. *)
LEMMA LastOff ==
    ASSUME QueueInv, Rings, NEW t \in Threads, count[t] >= 1
    PROVE  /\ Stretch(array[t], tail[t], count[t])
                = Stretch(array[t], tail[t], count[t] - 1)
                    \o <<array[t][Slot(Plus(tail[t], count[t] - 1))]>>
           /\ Stretch(array[t], tail[t], count[t] - 1) \in Seq(Entries)
           /\ <<array[t][Slot(Plus(tail[t], count[t] - 1))]>> \in Seq(Entries)
<1> DEFINE k == count[t] - 1
           x == array[t][Slot(Plus(tail[t], k))]
<1>1. /\ array[t] \in [Slots -> Entries] /\ tail[t] \in Index /\ count[t] \in Nat
      /\ count[t] <= CAPACITY
  BY RingIs
<1>2. k \in Nat /\ count[t] = k + 1 /\ CAPACITY \in Nat
  BY <1>1, RunQueuesAssumption
<1> HIDE DEF k
<1>3. Plus(tail[t], k) \in Index
  BY <1>1, <1>2, PlusIs
<1>4. 1 \in Nat /\ k + 1 <= CAPACITY
  BY <1>1, <1>2
<1>5. Stretch(array[t], tail[t], k + 1)
        = Stretch(array[t], tail[t], k) \o Stretch(array[t], Plus(tail[t], k), 1)
  BY <1>1, <1>2, <1>4, StretchCut
<1>6. Stretch(array[t], Plus(tail[t], k), 1) = <<x>>
  BY <1>1, <1>3, StretchOne
<1>7. /\ Stretch(array[t], Plus(tail[t], k), 1) \in Seq(Entries)
      /\ Stretch(array[t], tail[t], k) \in Seq(Entries)
  BY <1>1, <1>2, <1>3, <1>4, StretchIs
<1>8. /\ Stretch(array[t], tail[t], count[t]) = Stretch(array[t], tail[t], k) \o <<x>>
      /\ Stretch(array[t], tail[t], k) \in Seq(Entries) /\ <<x>> \in Seq(Entries)
  BY <1>2, <1>5, <1>6, <1>7
<1> QED
  BY <1>8 DEF k

(* The node consume returns is one more from the chain or the last of those
   written. *)
LEMMA PlaceExtra ==
    ASSUME PlaceInv, HeadsMoveOn, NEW t \in Threads, TakeExtra(t)
    PROVE  Hands' /\ Kept'
<1>1. /\ QueueInv /\ Rings /\ Hands /\ Kept /\ Types /\ HandOf(t) /\ Counts
      /\ pc[t] = "extra" /\ pc[t] \in Consuming
  BY DEF PlaceInv, QueueInv, Hands, TakeExtra, Consuming
<1>2. /\ UNCHANGED <<head, tail, array, list, victim, seen, next, ran>>
      /\ pc' = [pc EXCEPT ![t] = "publish"]
  BY DEF TakeExtra, Goto, scheduling
<1>3. pc'[t] = "publish" /\ got[t] = Nil /\ Got(t) = <<>> /\ Live(t)' = Live(t)
      /\ Stretch(array'[t], head[t], Minus(tail[t], head[t])) = Live(t)
  BY <1>1, <1>2, RingIs DEF Types, HandOf, Got, Live, Span
<1>4. \A n \in Nodes : n # Nil
  BY RunQueuesAssumption DEF Nodes
<1>5. ASSUME NEW x \in Nodes, got'[t] = x PROVE Got(t)' = <<x>> /\ HandOf(t)'
  <2>1. got'[t] # Nil
    BY <1>4, <1>5
  <2>2. Got(t)' = <<x>>
    BY <1>5, <2>1 DEF Got
  <2>3. HandOf(t)'
    BY <1>1, <1>2, <1>3, <2>1 DEF HandOf, Consuming
  <2> QED
    BY <2>2, <2>3
<1>6. CASE ConsumerPop(t) /\ got' = [got EXCEPT ![t] = Head(Supply(t))] /\ UNCHANGED count
  <2>q. PICK q, x : Takes(t, q, x)
    BY <1>1, <1>6, PopTakes
  <2>1. /\ x = Head(Supply(t)) /\ q \in QueueIds /\ x \in Nodes
        /\ \A p \in QueueIds : Cache(p)' = Cache(p) /\ (p # q => queue'[p].stack = queue[p].stack)
        /\ Distinct(queue'[q].stack) /\ Distinct(chain'[t])
        /\ Elems(queue'[q].stack) \cap Elems(chain'[t]) = {}
        /\ Elems(queue'[q].stack) \cup Elems(chain'[t])
             = (Elems(queue[q].stack) \cup Elems(chain[t])) \ {x}
        /\ x \in Elems(queue[q].stack) \cup Elems(chain[t])
    BY <2>q DEF Takes
  <2>2. \A u \in Threads : u # t => chain'[u] = chain[u]
    BY <1>1, <1>6, Popped
  <2>3. Local(t)
    BY <1>1, <1>2, <1>6, <2>2 DEF Local, Types
  <2>4. got'[t] = x
    BY <1>1, <1>6, <2>1 DEF Types
  <2>5. Got(t)' = <<x>> /\ HandOf(t)'
    BY <1>5, <2>1, <2>4
  <2>6. Hands'
    BY <1>3, <2>3, <2>5, HandsStay DEF Local
  <2>7. Claimed(t)' = Claimed(t)
    BY <1>1, <1>2, <1>3, <1>6 DEF Claimed, Consuming, Span
  <2> DEFINE a == <<"stack", q>>
             b == <<"chain", t>>
             c == <<"got", t>>
             S == {a, b, c}
  <2>8. a \in Places /\ b \in Places /\ c \in Places /\ a # b /\ a # c /\ b # c
    BY <2>1, PlacesAre
  <2>9. \A p \in Places : p \notin S => Pile(p)' = Pile(p)
    <3>1. \A p \in QueueIds : <<"stack", p>> \notin S => queue'[p].stack = queue[p].stack
      BY <2>1
    <3>2. <<"chain", t>> \in S /\ <<"got", t>> \in S
      OBVIOUS
    <3> HIDE DEF S
    <3> QED
      BY <1>2, <1>3, <2>1, <2>3, <2>7, <3>1, <3>2, LocalPiles
  <2>10. /\ Pile(a) = queue[q].stack /\ Pile(b) = chain[t] /\ Pile(c) = <<>>
         /\ Pile(a)' = queue'[q].stack /\ Pile(b)' = chain'[t] /\ Pile(c)' = <<x>>
    <3>1. /\ Pile(a) = queue[q].stack /\ Pile(b) = chain[t] /\ Pile(c) = Got(t)
          /\ Pile(a)' = queue'[q].stack /\ Pile(b)' = chain'[t] /\ Pile(c)' = Got(t)'
      BY PileIs
    <3> QED
      BY <1>3, <2>5, <3>1
  <2> HIDE DEF a, b, c
  <2>11. /\ Elems(Pile(c)) = {} /\ Elems(Pile(c)') = {x} /\ Distinct(Pile(c)')
    BY <2>10, FewElems
  <2>12. /\ Distinct(Pile(a)') /\ Distinct(Pile(b)')
         /\ Elems(Pile(a)') \cap Elems(Pile(b)') = {} /\ Elems(Pile(a)') \cap Elems(Pile(c)') = {}
         /\ Elems(Pile(b)') \cap Elems(Pile(c)') = {}
         /\ Elems(Pile(a)') \cup Elems(Pile(b)') \cup Elems(Pile(c)')
              = Elems(Pile(a)) \cup Elems(Pile(b)) \cup Elems(Pile(c))
    BY <2>1, <2>10, <2>11
  <2>13. Kept'
    BY <1>1, <1>2, <2>8, <2>9, <2>11, <2>12, MovedOnly
  <2> QED
    BY <2>6, <2>13
<1>7. CASE /\ got' = [got EXCEPT ![t] = array[t][Slot(Plus(tail[t], count[t] - 1))]]
           /\ count' = [count EXCEPT ![t] = @ - 1] /\ UNCHANGED <<queue, chain>>
  <2>x. PICK x : x = array[t][Slot(Plus(tail[t], count[t] - 1))]
    OBVIOUS
  <2> DEFINE k    == count[t] - 1
             part == Stretch(array[t], tail[t], k)
  <2>1. /\ count[t] >= 1
        /\ Span(t, tail[t], count[t]) = Stretch(array[t], tail[t], count[t])
    BY <1>1, RingIs DEF Counts
  <2>3. got'[t] = x /\ count'[t] = k
    BY <1>1, <1>7, <2>x DEF Types
  <2>4. Claimed(t) = part \o <<x>> /\ part \in Seq(Entries) /\ <<x>> \in Seq(Entries)
    BY <1>1, <2>1, <2>x, LastOff DEF Claimed
  <2>5. Claimed(t)' = part
    BY <1>2, <1>3, <2>3 DEF Claimed, Consuming, Span, Stretch
  <2> HIDE DEF k, part
  <2> DEFINE a == <<"claimed", t>>
             b == <<"got", t>>
             S == {a, b, b}
  <2>6. a \in Places /\ b \in Places /\ a # b
    BY PlacesAre
  <2>7. Pile(a) = part \o <<x>> /\ Pile(b) = <<>> /\ Pile(a)' = part /\ Pile(b)' = Got(t)'
    BY <1>3, <2>4, <2>5, PileIs
  <2>8. Distinct(part \o <<x>>) /\ \A n \in Elems(part \o <<x>>) : n \in Nodes
    BY <1>1, <2>6, <2>7, KeptIs
  <2>9. /\ Elems(part \o <<x>>) = Elems(part) \cup {x} /\ Distinct(part) /\ x \notin Elems(part)
        /\ Elems(<<x>>) = {x} /\ Distinct(<<x>>) /\ Elems(<<>>) = {}
    <3>1. Elems(<<x>>) = {x} /\ Distinct(<<x>>) /\ Elems(<<>>) = {}
      BY FewElems
    <3>2. /\ Elems(part \o <<x>>) = Elems(part) \cup Elems(<<x>>) /\ Distinct(part)
          /\ Elems(part) \cap Elems(<<x>>) = {}
      BY <2>4, <2>8, JoinIs
    <3> QED
      BY <3>1, <3>2
  <2>10. x \in Nodes
    BY <2>8, <2>9
  <2>11. Got(t)' = <<x>> /\ HandOf(t)'
    BY <1>5, <2>3, <2>10
  <2>12. Local(t)
    BY <1>1, <1>2, <1>7 DEF Local, Types
  <2>13. Hands'
    BY <1>3, <2>11, <2>12, HandsStay DEF Local
  <2>14. \A p \in Places : p \notin S => Pile(p)' = Pile(p)
    <3>1. \A q \in QueueIds : Cache(q)' = Cache(q)
      BY <1>7 DEF Cache
    <3>2. <<"claimed", t>> \in S /\ <<"got", t>> \in S
      OBVIOUS
    <3> HIDE DEF S
    <3> QED
      BY <1>2, <1>3, <1>7, <2>12, <3>1, <3>2, LocalPiles
  <2> HIDE DEF a, b
  <2>15. /\ Distinct(Pile(a)') /\ Distinct(Pile(b)') /\ Elems(Pile(a)') \cap Elems(Pile(b)') = {}
         /\ Elems(Pile(a)') \cup Elems(Pile(b)') \cup Elems(Pile(b)')
              = Elems(Pile(a)) \cup Elems(Pile(b)) \cup Elems(Pile(b))
    BY <2>7, <2>9, <2>11
  <2>16. Kept'
    BY <1>1, <1>2, <2>6, <2>14, <2>15, MovedOnly
  <2> QED
    BY <2>13, <2>16
<1> QED
  BY <1>6, <1>7 DEF TakeExtra

(* release_consumer puts the rest of the chain back as the queue's cache, and the
   node that was taken is run. *)
LEMMA PlaceRelease ==
    ASSUME PlaceInv, HeadsMoveOn, NEW t \in Threads, Release(t)
    PROVE  Hands' /\ Kept'
<1>1. /\ QueueInv /\ Rings /\ Hands /\ Kept /\ Types /\ HandOf(t) /\ Counts /\ t # Nil
      /\ pc[t] = "release" /\ pc[t] \in Consuming
  BY RunQueuesAssumption DEF PlaceInv, QueueInv, Hands, Release, Consuming
<1>q. PICK q : q = Held(t)
  OBVIOUS
<1>x. PICK x : x = got[t]
  OBVIOUS
<1>2. /\ pc' = [pc EXCEPT ![t] = "run"] /\ chain' = [chain EXCEPT ![t] = <<>>]
      /\ got' = [got EXCEPT ![t] = Nil] /\ ran' = [ran EXCEPT ![x] = @ + 1]
      /\ UNCHANGED <<head, tail, array, list, victim, seen, count, next>>
  BY <1>x DEF Release, Return, Goto
<1>3. q \in QueueIds /\ queue[q].consumer = t
  BY <1>1, <1>q, HeldIsMine
<1> DEFINE after == [queue[q] EXCEPT !.cache = chain[t], !.consumer = Nil,
                                     !.hasCache = @ /\ chain[t] # <<>>]
<1>4. queue[q] \in QueueRecord /\ queue \in [QueueIds -> QueueRecord]
  BY <1>1, <1>3 DEF Types
<1>5. queue' = [queue EXCEPT ![q] = after]
  BY <1>3, <1>4, <1>q DEF Release
<1>6. /\ \A p \in QueueIds : p # q => queue'[p] = queue[p]
      /\ queue'[q].consumer = Nil /\ queue'[q].cache = chain[t]
      /\ queue'[q].stack = queue[q].stack
  <2>1. queue'[q] = after
    BY <1>3, <1>4, <1>5
  <2>2. after.consumer = Nil /\ after.cache = chain[t] /\ after.stack = queue[q].stack
    BY <1>4 DEF QueueRecord
  <2> HIDE DEF after
  <2> QED
    BY <1>4, <1>5, <2>1, <2>2
<1> HIDE DEF after
<1>7. pc'[t] = "run" /\ chain'[t] = <<>> /\ got'[t] = Nil /\ x # Nil /\ count[t] = 0
  BY <1>1, <1>2, <1>x DEF Types, HandOf, Counts
<1>8. Local(t)
  BY <1>1, <1>2 DEF Local, Types
<1>9. Claimed(t)' = Claimed(t) /\ Live(t)' = Live(t)
  <2>1. Claimed(t)' = Claimed(t)
    BY <1>1, <1>7, NoneClaimed DEF Consuming
  <2> QED
    BY <1>2, <2>1 DEF Live, Span
<1>10. Hands'
  <2>1. HandOf(t)'
    BY <1>1, <1>2, <1>7 DEF HandOf, Consuming
  <2>2. Stretch(array'[t], head[t], Minus(tail[t], head[t])) = Live(t)
    BY <1>1, <1>2, RingIs
  <2> QED
    BY <1>8, <2>1, <2>2, HandsStay DEF Local
<1> DEFINE a == <<"cache", q>>
           b == <<"chain", t>>
           c == <<"got", t>>
           S == {a, b, c}
<1>11. a \in Places /\ b \in Places /\ c \in Places /\ a # b /\ a # c /\ b # c
  BY <1>3, PlacesAre
<1>12. \A p \in Places : p \notin S => Pile(p)' = Pile(p)
  <2>1. \A p \in QueueIds : <<"cache", p>> \notin S => Cache(p)' = Cache(p)
    BY <1>6 DEF Cache
  <2>2. \A p \in QueueIds : queue'[p].stack = queue[p].stack
    BY <1>6
  <2>3. <<"chain", t>> \in S /\ <<"got", t>> \in S
    OBVIOUS
  <2> HIDE DEF S
  <2> QED
    BY <1>2, <1>8, <1>9, <2>1, <2>2, <2>3, LocalPiles
<1>13. /\ Pile(a) = <<>> /\ Pile(b) = chain[t] /\ Pile(c) = <<x>>
       /\ Pile(a)' = chain[t] /\ Pile(b)' = <<>> /\ Pile(c)' = <<>>
  <2>1. Cache(q) = <<>> /\ Cache(q)' = chain[t] /\ Got(t) = <<x>> /\ Got(t)' = <<>>
    BY <1>1, <1>3, <1>6, <1>7, <1>x DEF Cache, Got
  <2>2. /\ Pile(a) = Cache(q) /\ Pile(b) = chain[t] /\ Pile(c) = Got(t)
        /\ Pile(a)' = Cache(q)' /\ Pile(b)' = chain'[t] /\ Pile(c)' = Got(t)'
    BY PileIs
  <2> QED
    BY <1>7, <2>1, <2>2
<1> HIDE DEF a, b, c
<1>14. /\ Distinct(Pile(b)) /\ Elems(Pile(b)) \cap Elems(Pile(c)) = {}
       /\ Elems(<<>>) = {} /\ Distinct(<<>>) /\ Elems(<<x>>) = {x}
  BY <1>1, <1>11, KeptIs, FewElems
<1>15. /\ Distinct(Pile(a)') /\ Distinct(Pile(b)') /\ Distinct(Pile(c)')
       /\ Elems(Pile(a)') \cap Elems(Pile(b)') = {} /\ Elems(Pile(a)') \cap Elems(Pile(c)') = {}
       /\ Elems(Pile(b)') \cap Elems(Pile(c)') = {}
       /\ Elems(Pile(a)') \cup Elems(Pile(b)') \cup Elems(Pile(c)')
            = (Elems(Pile(a)) \cup Elems(Pile(b)) \cup Elems(Pile(c))) \ {x}
       /\ x \in Elems(Pile(a)) \cup Elems(Pile(b)) \cup Elems(Pile(c))
  BY <1>13, <1>14
<1>16. Kept'
  BY <1>1, <1>2, <1>11, <1>12, <1>15, MovedOut
<1> QED
  BY <1>10, <1>16

-----------------------------------------------------------------------------
(* Buffer::steal *)

(* The copies of a steal are not nodes yet: the victim still has them. *)
LEMMA PlaceCopy ==
    ASSUME PlaceInv, HeadsMoveOn, NEW t \in Threads, StealCopy(t)
    PROVE  Hands' /\ Kept'
<1>1. /\ QueueInv /\ Rings /\ Hands /\ Kept /\ Types /\ HandOf(t) /\ pc[t] = "copy"
  BY DEF PlaceInv, QueueInv, Hands, StealCopy
<1>v. PICK v : v = victim[t]
  OBVIOUS
<1> DEFINE n    == count[t]
           part == Stretch(array[v], seen[t], n)
<1>2. /\ array' = [array EXCEPT ![t] = WriteAt(array[t], tail[t], part)]
      /\ pc' = [pc EXCEPT ![t] = "commit"]
      /\ UNCHANGED <<queue, head, tail, list, chain, victim, seen, count, got, next, ran>>
  BY <1>v DEF StealCopy, Goto, scheduling, Span, Stretch
<1>3. /\ array[t] \in [Slots -> Entries] /\ tail[t] \in Index /\ seen[t] \in Index /\ n \in Nat
      /\ n <= CAPACITY /\ RingOf(t) /\ v \in Threads
  BY <1>1, <1>v, RingIs
<1>4. head[t] = tail[t] /\ v # t
  BY <1>1, <1>3, <1>v DEF RingOf
<1>5. part \in Seq(Entries) /\ Len(part) = n
  <2>1. array[v] \in [Slots -> Entries]
    BY <1>1, <1>3, RingIs
  <2> QED
    BY <1>3, <2>1, StretchIs
<1> HIDE DEF part
<1>6. /\ array'[t] = WriteAt(array[t], tail[t], part) /\ array'[v] = array[v]
      /\ pc'[t] = "commit" /\ victim'[t] = v /\ tail'[t] = tail[t] /\ head'[t] = head[t]
      /\ count'[t] = n /\ seen'[t] = seen[t]
  BY <1>1, <1>2, <1>3, <1>4, <1>v DEF Types
<1>7. Stretch(array'[t], tail[t], n) = part
  BY <1>3, <1>5, <1>6, WriteReads
<1>8. Span(t, tail[t], count[t])' = Span(victim[t], seen[t], count[t])'
  BY <1>6, <1>7 DEF Span, Stretch, part
<1>9. Local(t)
  BY <1>1, <1>2 DEF Local, Types
<1>10. Live(t)' = Live(t) /\ Stretch(array'[t], head[t], Minus(tail[t], head[t])) = Live(t)
  BY <1>1, <1>4, <1>6, EmptyRing
<1>11. Claimed(t)' = Claimed(t)
  BY <1>1, <1>6 DEF Claimed, Consuming
<1>12. HandOf(t)'
  BY <1>1, <1>2, <1>6, <1>8 DEF HandOf, Consuming
<1>13. Hands'
  BY <1>9, <1>10, <1>12, HandsStay DEF Local
<1>14. \A p \in Places : Pile(p)' = Pile(p)
  <2> DEFINE S == {}
  <2> HIDE DEF S
  <2>1. \A q \in QueueIds : Cache(q)' = Cache(q)
    BY <1>2 DEF Cache
  <2>2. \A p \in Places : p \notin S => Pile(p)' = Pile(p)
    BY <1>2, <1>9, <1>10, <1>11, <2>1, LocalPiles
  <2> QED
    BY <2>2 DEF S
<1>15. Kept'
  BY <1>1, <1>2, <1>14, Unmoved
<1> QED
  BY <1>13, <1>15

(* The exchange of the victim's head that succeeds moves the half that was copied
   from the victim's ring to the thief's hands. *)
LEMMA PlaceSteal ==
    ASSUME PlaceInv, HeadsMoveOn, NEW t \in Threads, StealCommit(t), head[victim[t]] = seen[t]
    PROVE  Hands' /\ Kept'
<1>1. /\ QueueInv /\ Rings /\ Hands /\ Kept /\ Types /\ HandOf(t) /\ Counts /\ pc[t] = "commit"
  BY DEF PlaceInv, QueueInv, Hands, StealCommit
<1>v. PICK v : v = victim[t]
  OBVIOUS
<1>x. PICK x : x = array[t][Slot(Plus(tail[t], count[t] - 1))]
  OBVIOUS
<1> DEFINE n    == count[t]
           k    == count[t] - 1
           part == Stretch(array[t], tail[t], k)
           kept == Live(v)'
<1>2. /\ head' = [head EXCEPT ![v] = Plus(head[v], n)] /\ got' = [got EXCEPT ![t] = x]
      /\ count' = [count EXCEPT ![t] = k] /\ pc' = [pc EXCEPT ![t] = "stealPublish"]
      /\ UNCHANGED <<queue, tail, array, list, chain, victim, seen, next, ran>>
  BY <1>v, <1>x DEF StealCommit, Goto, scheduling
<1>3. /\ n \in Nat /\ RingOf(t) /\ v \in Threads /\ n >= 1
      /\ Span(t, tail[t], n) = Stretch(array[t], tail[t], n)
      /\ Span(v, seen[t], n) = Stretch(array[v], seen[t], n) /\ head[v] = seen[t]
  BY <1>1, <1>v, RingIs DEF Counts
<1>4. head[t] = tail[t] /\ v # t /\ n <= Minus(tail[v], head[v])
  BY <1>1, <1>3, <1>v DEF RingOf
<1>5. /\ head'[v] = Plus(head[v], n) /\ tail'[v] = tail[v] /\ array'[v] = array[v]
      /\ pc'[t] = "stealPublish" /\ count'[t] = k /\ got'[t] = x /\ tail'[t] = tail[t]
      /\ array'[t] = array[t]
  BY <1>1, <1>2, <1>3 DEF Types
<1>6. Stretch(array[v], head[v], n) = part \o <<x>> /\ part \in Seq(Entries) /\ <<x>> \in Seq(Entries)
  <2>1. Stretch(array[t], tail[t], n) = Stretch(array[v], head[v], n)
    BY <1>1, <1>3, <1>v DEF HandOf
  <2>2. /\ Stretch(array[t], tail[t], n) = part \o <<x>> /\ part \in Seq(Entries)
        /\ <<x>> \in Seq(Entries)
    BY <1>1, <1>3, <1>x, LastOff
  <2> QED
    BY <2>1, <2>2
<1>7. /\ Live(v) = Stretch(array[v], head[v], n) \o kept /\ kept \in Seq(Entries)
      /\ Stretch(array[v], head[v], n) \in Seq(Entries)
  BY <1>1, <1>3, <1>4, <1>5, HeadCuts
<1>8. Claimed(t) = <<>> /\ Claimed(t)' = part /\ Got(t) = <<>>
  <2>1. Claimed(t) = <<>> /\ Got(t) = <<>>
    BY <1>1 DEF Claimed, Consuming, HandOf, Got
  <2>2. Claimed(t)' = part
    BY <1>5 DEF Claimed, Span, Stretch
  <2> QED
    BY <2>1, <2>2
<1> HIDE DEF n, k, part, kept
<1> DEFINE a == <<"live", v>>
           b == <<"claimed", t>>
           c == <<"got", t>>
           S == {a, b, c}
<1>9. a \in Places /\ b \in Places /\ c \in Places /\ a # b /\ a # c /\ b # c
  BY <1>3, PlacesAre
<1>10. /\ Pile(a) = (part \o <<x>>) \o kept /\ Pile(b) = <<>> /\ Pile(c) = <<>>
       /\ Pile(a)' = kept /\ Pile(b)' = part /\ Pile(c)' = Got(t)'
  <2>1. /\ Pile(a) = Live(v) /\ Pile(b) = Claimed(t) /\ Pile(c) = Got(t)
        /\ Pile(a)' = Live(v)' /\ Pile(b)' = Claimed(t)' /\ Pile(c)' = Got(t)'
    BY PileIs
  <2> QED
    BY <1>6, <1>7, <1>8, <2>1 DEF kept
<1>11. /\ Elems(Pile(a)) = (Elems(part) \cup {x}) \cup Elems(kept)
       /\ Distinct(part) /\ x \notin Elems(part) /\ Distinct(kept)
       /\ (Elems(part) \cup {x}) \cap Elems(kept) = {}
       /\ Elems(<<x>>) = {x} /\ Distinct(<<x>>) /\ Elems(<<>>) = {} /\ x \in Nodes
  <2> DEFINE s == part \o <<x>>
  <2>1. s \in Seq(Entries)
    BY <1>6
  <2>2. Distinct(s \o kept) /\ \A m \in Elems(s \o kept) : m \in Nodes
    BY <1>1, <1>9, <1>10, KeptIs
  <2> HIDE DEF s
  <2>3. /\ Elems(s \o kept) = Elems(s) \cup Elems(kept) /\ Distinct(s) /\ Distinct(kept)
        /\ Elems(s) \cap Elems(kept) = {}
    BY <1>7, <2>1, <2>2, JoinIs
  <2>4. Elems(<<x>>) = {x} /\ Distinct(<<x>>) /\ Elems(<<>>) = {}
    BY FewElems
  <2>5. /\ Elems(s) = Elems(part) \cup Elems(<<x>>) /\ Distinct(part)
        /\ Elems(part) \cap Elems(<<x>>) = {}
    BY <1>6, <2>3, JoinIs DEF s
  <2>6. Pile(a) = s \o kept
    BY <1>10 DEF s
  <2> QED
    BY <2>2, <2>3, <2>4, <2>5, <2>6
<1>12. got'[t] # Nil /\ Got(t)' = <<x>>
  <2>1. x # Nil
    BY <1>11, RunQueuesAssumption DEF Nodes
  <2> QED
    BY <1>5, <2>1 DEF Got
<1>13. Hands'
  <2>1. HandOf(t)'
    BY <1>1, <1>2, <1>5, <1>12 DEF HandOf, Consuming
  <2>2. Stretch(array'[t], head[t], Minus(tail[t], head[t])) = Live(t)
    BY <1>1, <1>2, RingIs
  <2>3. \A u \in Threads \ {t} :
           /\ tail'[u] = tail[u] /\ array'[u] = array[u] /\ pc'[u] = pc[u]
           /\ list'[u] = list[u] /\ chain'[u] = chain[u] /\ victim'[u] = victim[u]
           /\ seen'[u] = seen[u] /\ count'[u] = count[u] /\ got'[u] = got[u]
    BY <1>1, <1>2 DEF Types
  <2> QED
    BY <2>1, <2>2, <2>3, HandsStay
<1>14. \A p \in Places : p \notin S => Pile(p)' = Pile(p)
  <2>1. \A q \in QueueIds : Cache(q)' = Cache(q)
    BY <1>2 DEF Cache
  <2>2. \A u \in Threads : <<"live", u>> \notin S => Live(u)' = Live(u)
    <3> SUFFICES ASSUME NEW u \in Threads, u # v PROVE Live(u)' = Live(u)
      BY <1>9
    <3>1. head'[u] = head[u]
      BY <1>1, <1>2 DEF Types
    <3> QED
      BY <1>2, <3>1 DEF Live, Span
  <2>3. \A u \in Threads : u # t => Claimed(u)' = Claimed(u) /\ Got(u)' = Got(u)
    <3> SUFFICES ASSUME NEW u \in Threads, u # t
                 PROVE  Claimed(u)' = Claimed(u) /\ Got(u)' = Got(u)
      OBVIOUS
    <3>1. pc'[u] = pc[u] /\ count'[u] = count[u] /\ got'[u] = got[u]
      BY <1>1, <1>2 DEF Types
    <3> QED
      BY <1>2, <3>1 DEF Claimed, Span, Got
  <2>4. \A u \in Threads : <<"claimed", u>> \notin S => Claimed(u)' = Claimed(u)
    BY <2>3
  <2>5. \A u \in Threads : <<"got", u>> \notin S => Got(u)' = Got(u)
    BY <2>3
  <2> HIDE DEF S
  <2> QED
    BY <1>2, <2>1, <2>2, <2>4, <2>5, PilesStay
<1> HIDE DEF a, b, c
<1>15. /\ Distinct(Pile(a)') /\ Distinct(Pile(b)') /\ Distinct(Pile(c)')
       /\ Elems(Pile(a)') \cap Elems(Pile(b)') = {} /\ Elems(Pile(a)') \cap Elems(Pile(c)') = {}
       /\ Elems(Pile(b)') \cap Elems(Pile(c)') = {}
       /\ Elems(Pile(a)') \cup Elems(Pile(b)') \cup Elems(Pile(c)')
            = Elems(Pile(a)) \cup Elems(Pile(b)) \cup Elems(Pile(c))
  BY <1>10, <1>11, <1>12
<1>16. Kept'
  BY <1>1, <1>2, <1>9, <1>14, <1>15, MovedOnly
<1> QED
  BY <1>13, <1>16

(* The thief's store of tail moves what it stole to its ring, and the node it kept
   back is run. *)
LEMMA PlaceStolen ==
    ASSUME PlaceInv, HeadsMoveOn, NEW t \in Threads, StealPublish(t)
    PROVE  Hands' /\ Kept'
<1>1. QueueInv /\ Rings /\ Hands /\ Kept /\ Types /\ HandOf(t) /\ pc[t] = "stealPublish"
  BY DEF PlaceInv, QueueInv, Hands, StealPublish
<1>x. PICK x : x = got[t]
  OBVIOUS
<1> DEFINE n    == count[t]
           part == Stretch(array[t], tail[t], n)
<1>2. /\ tail' = [tail EXCEPT ![t] = Plus(tail[t], n)] /\ count' = [count EXCEPT ![t] = 0]
      /\ got' = [got EXCEPT ![t] = Nil] /\ pc' = [pc EXCEPT ![t] = "run"]
      /\ ran' = [ran EXCEPT ![x] = @ + 1]
      /\ UNCHANGED <<queue, head, array, list, chain, victim, seen, next>>
  BY <1>x DEF StealPublish, Return, Goto
<1>3. /\ head[t] \in Index /\ tail[t] \in Index /\ n \in Nat /\ n <= CAPACITY /\ RingOf(t)
      /\ Span(t, tail[t], n) = part
  BY <1>1, RingIs
<1>4. Minus(tail[t], head[t]) = 0
  <2>1. head[t] = tail[t]
    BY <1>1, <1>3 DEF RingOf
  <2> QED
    BY <1>3, <2>1, MinusNat
<1>5. /\ pc'[t] = "run" /\ tail'[t] = Plus(tail[t], n) /\ head'[t] = head[t]
      /\ array'[t] = array[t] /\ got'[t] = Nil /\ x # Nil
  BY <1>1, <1>2, <1>x DEF Types, HandOf
<1>6. Live(t)' = Live(t) \o part /\ Live(t) \in Seq(Entries) /\ part \in Seq(Entries)
  <2>1. Minus(tail[t], head[t]) + n <= CAPACITY
    BY <1>3, <1>4
  <2> QED
    BY <1>1, <1>3, <1>5, <2>1, TailAdds
<1>7. Claimed(t) = part /\ Claimed(t)' = <<>> /\ Got(t) = <<x>> /\ Got(t)' = <<>>
  BY <1>1, <1>3, <1>5, <1>x DEF Claimed, Consuming, Got
<1> HIDE DEF n, part
<1>8. Local(t)
  BY <1>1, <1>2 DEF Local, Types
<1>9. Hands'
  <2>1. HandOf(t)'
    BY <1>1, <1>2, <1>5 DEF HandOf, Consuming
  <2>2. Stretch(array'[t], head[t], Minus(tail[t], head[t])) = Live(t)
    BY <1>1, <1>2, RingIs
  <2> QED
    BY <1>8, <2>1, <2>2, HandsStay DEF Local
<1> DEFINE a == <<"live", t>>
           b == <<"claimed", t>>
           c == <<"got", t>>
           S == {a, b, c}
<1>10. a \in Places /\ b \in Places /\ c \in Places /\ a # b /\ a # c /\ b # c
  BY PlacesAre
<1>11. \A p \in Places : p \notin S => Pile(p)' = Pile(p)
  <2>1. \A q \in QueueIds : Cache(q)' = Cache(q)
    BY <1>2 DEF Cache
  <2>2. <<"live", t>> \in S /\ <<"claimed", t>> \in S /\ <<"got", t>> \in S
    OBVIOUS
  <2> HIDE DEF S
  <2> QED
    BY <1>2, <1>8, <2>1, <2>2, LocalPiles
<1>12. /\ Pile(a) = Live(t) /\ Pile(b) = part /\ Pile(c) = <<x>>
       /\ Pile(a)' = Live(t) \o part /\ Pile(b)' = <<>> /\ Pile(c)' = <<>>
  BY <1>6, <1>7, PileIs
<1> HIDE DEF a, b, c
<1>13. /\ Distinct(Pile(a)) /\ Distinct(Pile(b)) /\ Elems(Pile(a)) \cap Elems(Pile(b)) = {}
       /\ Elems(Pile(a)) \cap Elems(Pile(c)) = {} /\ Elems(Pile(b)) \cap Elems(Pile(c)) = {}
       /\ Elems(<<>>) = {} /\ Distinct(<<>>) /\ Elems(<<x>>) = {x}
  BY <1>1, <1>10, KeptIs, FewElems
<1>14. Elems(Pile(a)') = Elems(Pile(a)) \cup Elems(Pile(b)) /\ Distinct(Pile(a)')
  BY <1>6, <1>12, <1>13, JoinIs
<1>15. /\ Distinct(Pile(b)') /\ Distinct(Pile(c)')
       /\ Elems(Pile(a)') \cap Elems(Pile(b)') = {} /\ Elems(Pile(a)') \cap Elems(Pile(c)') = {}
       /\ Elems(Pile(b)') \cap Elems(Pile(c)') = {}
       /\ Elems(Pile(a)') \cup Elems(Pile(b)') \cup Elems(Pile(c)')
            = (Elems(Pile(a)) \cup Elems(Pile(b)) \cup Elems(Pile(c))) \ {x}
       /\ x \in Elems(Pile(a)) \cup Elems(Pile(b)) \cup Elems(Pile(c))
  BY <1>12, <1>13, <1>14
<1>16. Kept'
  BY <1>1, <1>2, <1>10, <1>11, <1>14, <1>15, MovedOut
<1> QED
  BY <1>9, <1>16

-----------------------------------------------------------------------------
(* One step, and the theorem *)

(* A stuttering step changes no place. *)
LEMMA PlaceStutter == PlaceInv /\ UNCHANGED vars => PlaceInv'
<1> SUFFICES ASSUME PlaceInv, UNCHANGED vars PROVE PlaceInv'
  OBVIOUS
<1>1. QueueInv /\ Rings /\ Hands /\ Kept
  BY DEF PlaceInv
<1>2. QueueInv'
  BY <1>1, QueueStep
<1>3. Rings'
  <2>1. UNCHANGED <<head, tail, pc, seen, count, victim>>
    BY DEF vars
  <2> QED
    BY <1>1, <2>1 DEF Rings, RingOf
<1>4. Hands'
  BY <1>1 DEF vars, Hands, HandOf, Span
<1>5. \A p \in Places : Pile(p)' = Pile(p)
  <2> DEFINE S == {}
  <2> HIDE DEF S
  <2>1. /\ \A q \in QueueIds : queue'[q].stack = queue[q].stack /\ Cache(q)' = Cache(q)
        /\ \A t \in Threads : /\ Live(t)' = Live(t) /\ list'[t] = list[t]
                              /\ chain'[t] = chain[t] /\ Claimed(t)' = Claimed(t)
                              /\ Got(t)' = Got(t)
    BY DEF vars, Cache, Live, Claimed, Got, Span
  <2>2. \A p \in Places : p \notin S => Pile(p)' = Pile(p)
    BY <2>1, PilesStay
  <2> QED
    BY <2>2 DEF S
<1>6. Kept'
  BY <1>1, <1>5, Unmoved DEF vars
<1> QED
  BY <1>2, <1>3, <1>4, <1>6 DEF PlaceInv

(* Every step keeps every node in one place, one lemma for each operation. *)
LEMMA PlaceStep == PlaceInv /\ HeadsMoveOn /\ [Next]_vars => PlaceInv'
<1> SUFFICES ASSUME PlaceInv, HeadsMoveOn, [Next]_vars PROVE PlaceInv'
  OBVIOUS
<1>1. QueueInv /\ Rings /\ Hands /\ Kept
  BY DEF PlaceInv
<1>2. QueueInv' /\ Rings'
  BY <1>1, QueueStep, RingsStep
<1>3. Hands' /\ Kept'
  <2>1. CASE UNCHANGED vars
    BY <2>1, PlaceStutter DEF PlaceInv
  <2>2. CASE PushGlobal
    BY <2>2, PlaceGlobal
  <2>3. ASSUME NEW t \in Threads, Worker(t) PROVE Hands' /\ Kept'
    <3>1. CASE \/ PushLoad(t) \/ TurnedAway(t) \/ StealHead(t) \/ StealTail(t) \/ Finish(t)
               \/ (PushMigrate(t) /\ head[t] # seen[t])
               \/ (StealCommit(t) /\ head[victim[t]] # seen[t])
      BY <3>1, QuietSteps
    <3>2. CASE PushMigrate(t) /\ head[t] = seen[t]
      BY <3>2, PlaceMigrate
    <3>3. CASE StealCommit(t) /\ head[victim[t]] = seen[t]
      BY <3>3, PlaceSteal
    <3>4. CASE ScheduleInside(t)
      BY <3>4, PlaceSchedule
    <3>5. CASE PushWrite(t)
      BY <3>5, PlaceWrite
    <3>6. CASE PushTail(t)
      BY <3>6, PlacePushed
    <3>7. CASE PushOverflow(t)
      BY <3>7, PlaceOverflow
    <3>8. CASE PopBuffer(t)
      BY <3>8, PlacePop
    <3>9. CASE Acquire(t)
      BY <3>9, PlaceAcquire
    <3>10. CASE Fill(t)
      BY <3>10, PlaceFill
    <3>11. CASE TakeExtra(t)
      BY <3>11, PlaceExtra
    <3>12. CASE Publish(t)
      BY <3>12, PlacePublish
    <3>13. CASE Release(t)
      BY <3>13, PlaceRelease
    <3>14. CASE StealCopy(t)
      BY <3>14, PlaceCopy
    <3>15. CASE StealPublish(t)
      BY <3>15, PlaceStolen
    <3> QED
      BY <2>3, <3>1, <3>2, <3>3, <3>4, <3>5, <3>6, <3>7, <3>8, <3>9, <3>10, <3>11, <3>12, <3>13,
         <3>14, <3>15
      DEF Worker
  <2> QED
    BY <2>1, <2>2, <2>3 DEF Next
<1> QED
  BY <1>2, <1>3 DEF PlaceInv

(* A node of a list without repetitions occurs in it once. *)
LEMMA OccursOnce ==
    ASSUME NEW s \in Seq(Entries), Distinct(s), NEW n
    PROVE  Occurrences(n, s) = IF n \in Elems(s) THEN 1 ELSE 0
<1> DEFINE at == {i \in DOMAIN s : s[i] = n}
<1>1. CASE n \in Elems(s)
  <2>1. PICK i \in DOMAIN s : s[i] = n
    BY <1>1 DEF Elems
  <2>2. at = {i}
    BY <2>1 DEF Distinct
  <2>3. Cardinality({i}) = 1
    BY FS_Singleton
  <2> QED
    BY <1>1, <2>2, <2>3 DEF Occurrences
<1>2. CASE n \notin Elems(s)
  <2>1. at = {}
    BY <1>2 DEF Elems
  <2>2. Cardinality({}) = 0
    BY FS_EmptySet
  <2> QED
    BY <1>2, <2>1, <2>2 DEF Occurrences
<1> QED
  BY <1>1, <1>2

(* What Queued and InHand hold. *)
LEMMA QueuedIs ==
    ASSUME PlaceInv, NEW q \in QueueIds
    PROVE  /\ Queued(q) \in Seq(Entries) /\ Distinct(Queued(q))
           /\ Elems(Queued(q)) = Elems(queue[q].stack) \cup Elems(Cache(q))
<1>1. Types /\ Kept
  BY DEF PlaceInv, QueueInv
<1>2. queue[q] \in QueueRecord
  BY <1>1 DEF Types
<1>3. queue[q].stack \in Seq(Entries) /\ Cache(q) \in Seq(Entries)
  BY <1>2 DEF QueueRecord, Cache
<1>4. Queued(q) = queue[q].stack \o Cache(q)
  BY DEF Queued, Cache
<1> DEFINE a == <<"stack", q>>
           b == <<"cache", q>>
<1>5. a \in Places /\ b \in Places /\ a # b /\ Pile(a) = queue[q].stack /\ Pile(b) = Cache(q)
  BY PlacesAre, PileIs
<1> HIDE DEF a, b
<1>6. /\ Distinct(queue[q].stack) /\ Distinct(Cache(q))
      /\ Elems(queue[q].stack) \cap Elems(Cache(q)) = {}
  BY <1>1, <1>5, KeptIs
<1>7. queue[q].stack \o Cache(q) \in Seq(Entries)
  BY <1>3
<1> QED
  BY <1>3, <1>4, <1>6, <1>7, JoinIs

(* What a worker has in its hands, by variable. *)
LEMMA InHandIs ==
    ASSUME PlaceInv, NEW t \in Threads
    PROVE  /\ InHand(t) \in Seq(Entries) /\ Distinct(InHand(t))
           /\ Elems(InHand(t))
                = ((Elems(list[t]) \cup Elems(chain[t])) \cup Elems(Claimed(t))) \cup Elems(Got(t))
<1>1. QueueInv /\ Rings /\ Kept
  BY DEF PlaceInv
<1> DEFINE s1 == list[t]
           s2 == chain[t]
           s3 == Claimed(t)
           s4 == Got(t)
           a  == <<"list", t>>
           b  == <<"chain", t>>
           c  == <<"claimed", t>>
           d  == <<"got", t>>
<1>2. s1 \in Seq(Entries) /\ s2 \in Seq(Entries) /\ s3 \in Seq(Entries) /\ s4 \in Seq(Entries)
  <2>1. /\ list[t] \in Seq(Entries) /\ chain[t] \in Seq(Entries) /\ Claimed(t) \in Seq(Entries)
        /\ got[t] \in Entries
    BY <1>1, RingIs
  <2>2. Got(t) \in Seq(Entries)
    BY <2>1 DEF Got
  <2> QED
    BY <2>1, <2>2
<1>3. InHand(t) = ((s1 \o s2) \o s3) \o s4
  BY DEF InHand, Got
<1>4. /\ a \in Places /\ b \in Places /\ c \in Places /\ d \in Places
      /\ a # b /\ a # c /\ a # d /\ b # c /\ b # d /\ c # d
      /\ Pile(a) = s1 /\ Pile(b) = s2 /\ Pile(c) = s3 /\ Pile(d) = s4
  BY PlacesAre, PileIs
<1> HIDE DEF a, b, c, d, s1, s2, s3, s4
<1>5. /\ Distinct(s1) /\ Distinct(s2) /\ Distinct(s3) /\ Distinct(s4)
      /\ Elems(s1) \cap Elems(s2) = {} /\ Elems(s1) \cap Elems(s3) = {}
      /\ Elems(s1) \cap Elems(s4) = {} /\ Elems(s2) \cap Elems(s3) = {}
      /\ Elems(s2) \cap Elems(s4) = {} /\ Elems(s3) \cap Elems(s4) = {}
  BY <1>1, <1>4, KeptIs
<1> DEFINE s12 == s1 \o s2
<1>6. s12 \in Seq(Entries) /\ Distinct(s12) /\ Elems(s12) = Elems(s1) \cup Elems(s2)
  BY <1>2, <1>5, JoinIs
<1> HIDE DEF s12
<1> DEFINE s123 == s12 \o s3
<1>7. s123 \in Seq(Entries) /\ Distinct(s123) /\ Elems(s123) = Elems(s12) \cup Elems(s3)
  <2>1. Elems(s12) \cap Elems(s3) = {}
    BY <1>5, <1>6
  <2> QED
    BY <1>2, <1>5, <1>6, <2>1, JoinIs
<1> HIDE DEF s123
<1>8. /\ s123 \o s4 \in Seq(Entries) /\ Distinct(s123 \o s4)
      /\ Elems(s123 \o s4) = Elems(s123) \cup Elems(s4)
  <2>1. Elems(s123) \cap Elems(s4) = {}
    BY <1>5, <1>6, <1>7
  <2> QED
    BY <1>2, <1>5, <1>7, <2>1, JoinIs
<1>9. InHand(t) = s123 \o s4
  BY <1>3 DEF s12, s123
<1>10. Elems(InHand(t)) = ((Elems(s1) \cup Elems(s2)) \cup Elems(s3)) \cup Elems(s4)
  BY <1>6, <1>7, <1>8, <1>9
<1> QED
  BY <1>8, <1>9, <1>10 DEF s1, s2, s3, s4

(* Where a node is, by the kind of place. *)
InQueues(n) == {q \in QueueIds : n \in Elems(Queued(q))}

InRings(n) == {t \in Threads : n \in Elems(Live(t))}

InHands(n) == {t \in Threads : n \in Elems(InHand(t))}

(* A node that was scheduled and not run is in one queue, one ring or one worker's
   hands; any other node is in none. *)
LEMMA OnePlace ==
    ASSUME PlaceInv, NEW n \in Nodes
    PROVE  \/ /\ n < next /\ ran[n] = 0
              /\ \/ (\E q : InQueues(n) = {q}) /\ InRings(n) = {} /\ InHands(n) = {}
                 \/ InQueues(n) = {} /\ (\E t : InRings(n) = {t}) /\ InHands(n) = {}
                 \/ InQueues(n) = {} /\ InRings(n) = {} /\ (\E t : InHands(n) = {t})
           \/ /\ \/ n < next /\ ran[n] = 1
                 \/ n >= next /\ ran[n] = 0
              /\ InQueues(n) = {} /\ InRings(n) = {} /\ InHands(n) = {}
<1> DEFINE queues == InQueues(n)
           rings  == InRings(n)
           hands  == InHands(n)
<1>1. Kept /\ Stored /\ NoneLost /\ Apart /\ RanOnce /\ next \in Nat /\ n \in Nat
  BY RunQueuesAssumption DEF PlaceInv, Kept, QueueInv, Types, Nodes
<1>q. \A q \in QueueIds : q \in queues <=> \/ n \in Elems(Pile(<<"stack", q>>))
                                            \/ n \in Elems(Pile(<<"cache", q>>))
  BY QueuedIs, PileIs DEF InQueues
<1>r. \A t \in Threads : t \in rings <=> n \in Elems(Pile(<<"live", t>>))
  BY PileIs DEF InRings
<1>h. \A t \in Threads : t \in hands <=> \/ n \in Elems(Pile(<<"list", t>>))
                                          \/ n \in Elems(Pile(<<"chain", t>>))
                                          \/ n \in Elems(Pile(<<"claimed", t>>))
                                          \/ n \in Elems(Pile(<<"got", t>>))
  BY InHandIs, PileIs DEF InHands
<1>s. queues \subseteq QueueIds /\ rings \subseteq Threads /\ hands \subseteq Threads
  BY DEF InQueues, InRings, InHands
<1> HIDE DEF queues, rings, hands
<1>2. CASE ~(n < next /\ ran[n] = 0)
  <2>1. \A p \in Places : n \notin Elems(Pile(p))
    BY <1>1, <1>2 DEF Stored
  <2>2. queues = {} /\ rings = {} /\ hands = {}
    BY <1>q, <1>r, <1>h, <1>s, <2>1, PlacesAre
  <2>3. ran[n] \in 0..1 /\ (n >= next => ran[n] = 0)
    BY <1>1 DEF RanOnce
  <2> QED
    BY <1>1, <1>2, <2>2, <2>3 DEF queues, rings, hands
<1>3. CASE n < next /\ ran[n] = 0
  <2>1. PICK p \in Places : n \in Elems(Pile(p))
    BY <1>1, <1>3 DEF NoneLost
  <2>2. \A r \in Places : n \in Elems(Pile(r)) => r = p
    BY <1>1, <2>1 DEF Apart
  <2>3. ASSUME NEW q \in QueueIds, p = <<"stack", q>> \/ p = <<"cache", q>>
        PROVE  queues = {q} /\ rings = {} /\ hands = {}
    <3>1. q \in queues
      BY <1>q, <2>1, <2>3
    <3>2. ASSUME NEW r \in queues PROVE r = q
      <4>1. r \in QueueIds
        BY <1>s
      <4>2. <<"stack", r>> = p \/ <<"cache", r>> = p
        BY <1>q, <2>2, <4>1, PlacesAre
      <4> QED
        BY <2>3, <4>2
    <3>3. \A t \in Threads : t \notin rings /\ t \notin hands
      <4> SUFFICES ASSUME NEW t \in Threads PROVE t \notin rings /\ t \notin hands
        OBVIOUS
      <4>1. /\ <<"live", t>> # p /\ <<"list", t>> # p /\ <<"chain", t>> # p
            /\ <<"claimed", t>> # p /\ <<"got", t>> # p
        BY <2>3
      <4> QED
        BY <1>r, <1>h, <2>2, <4>1, PlacesAre
    <3> QED
      BY <1>s, <3>1, <3>2, <3>3
  <2>4. ASSUME NEW t \in Threads, p = <<"live", t>>
        PROVE  queues = {} /\ rings = {t} /\ hands = {}
    <3>1. t \in rings
      BY <1>r, <2>1, <2>4
    <3>2. ASSUME NEW u \in rings PROVE u = t
      <4>1. u \in Threads
        BY <1>s
      <4>2. <<"live", u>> = p
        BY <1>r, <2>2, <4>1, PlacesAre
      <4> QED
        BY <2>4, <4>2
    <3>3. \A u \in Threads : u \notin hands
      <4> SUFFICES ASSUME NEW u \in Threads PROVE u \notin hands
        OBVIOUS
      <4>1. /\ <<"list", u>> # p /\ <<"chain", u>> # p
            /\ <<"claimed", u>> # p /\ <<"got", u>> # p
        BY <2>4
      <4> QED
        BY <1>h, <2>2, <4>1, PlacesAre
    <3>4. \A q \in QueueIds : q \notin queues
      <4> SUFFICES ASSUME NEW q \in QueueIds PROVE q \notin queues
        OBVIOUS
      <4>1. <<"stack", q>> # p /\ <<"cache", q>> # p
        BY <2>4
      <4> QED
        BY <1>q, <2>2, <4>1, PlacesAre
    <3> QED
      BY <1>s, <3>1, <3>2, <3>3, <3>4
  <2>5. ASSUME NEW t \in Threads,
               p \in {<<"list", t>>, <<"chain", t>>, <<"claimed", t>>, <<"got", t>>}
        PROVE  queues = {} /\ rings = {} /\ hands = {t}
    <3>1. t \in hands
      BY <1>h, <2>1, <2>5
    <3>2. ASSUME NEW u \in hands PROVE u = t
      <4>1. u \in Threads
        BY <1>s
      <4>2. <<"list", u>> = p \/ <<"chain", u>> = p \/ <<"claimed", u>> = p \/ <<"got", u>> = p
        BY <1>h, <2>2, <4>1, PlacesAre
      <4> QED
        BY <2>5, <4>2
    <3>3. \A u \in Threads : u \notin rings
      <4> SUFFICES ASSUME NEW u \in Threads PROVE u \notin rings
        OBVIOUS
      <4>1. <<"live", u>> # p
        BY <2>5
      <4> QED
        BY <1>r, <2>2, <4>1, PlacesAre
    <3>4. \A q \in QueueIds : q \notin queues
      <4> SUFFICES ASSUME NEW q \in QueueIds PROVE q \notin queues
        OBVIOUS
      <4>1. <<"stack", q>> # p /\ <<"cache", q>> # p
        BY <2>5
      <4> QED
        BY <1>q, <2>2, <4>1, PlacesAre
    <3> QED
      BY <1>s, <3>1, <3>2, <3>3, <3>4
  <2>6. \/ \E q \in QueueIds : p = <<"stack", q>> \/ p = <<"cache", q>>
        \/ \E t \in Threads : \/ p = <<"live", t>>
                              \/ p \in {<<"list", t>>, <<"chain", t>>, <<"claimed", t>>, <<"got", t>>}
    BY PlacesAre
  <2>7. CASE \E q \in QueueIds : p = <<"stack", q>> \/ p = <<"cache", q>>
    BY <1>3, <2>3, <2>7 DEF queues, rings, hands
  <2>8. CASE \E t \in Threads : p = <<"live", t>>
    BY <1>3, <2>4, <2>8 DEF queues, rings, hands
  <2>9. CASE \E t \in Threads : p \in {<<"list", t>>, <<"chain", t>>, <<"claimed", t>>, <<"got", t>>}
    BY <1>3, <2>5, <2>9 DEF queues, rings, hands
  <2> QED
    BY <2>6, <2>7, <2>8, <2>9
<1> QED
  BY <1>2, <1>3 DEF queues, rings, hands

(* Every node that was scheduled and not run is in exactly one place, and once:
   the tasks that push, pop, consume and steal hand from one list to another are
   neither lost nor run twice. *)
THEOREM EveryNodeInOnePlace == Spec /\ [][HeadsMoveOn]_vars => []ExactlyOnePlace
<1>1. Init => PlaceInv
  BY QueueInit, RingsInit, PlaceInit DEF PlaceInv
<1>2. PlaceInv => ExactlyOnePlace
  <2> SUFFICES ASSUME PlaceInv, NEW n \in Nodes
               PROVE  LET waiting == IF n >= next THEN 1 ELSE 0
                          queues == {q \in QueueIds : Occurrences(n, Queued(q)) > 0}
                          rings  == {t \in Threads : Occurrences(n, Live(t)) > 0}
                          hands  == {t \in Threads : Occurrences(n, InHand(t)) > 0}
                      IN  /\ waiting + Cardinality(queues) + Cardinality(rings)
                               + Cardinality(hands) + ran[n] = 1
                          /\ \A q \in QueueIds : Occurrences(n, Queued(q)) <= 1
                          /\ \A t \in Threads : /\ Occurrences(n, Live(t)) <= 1
                                                /\ Occurrences(n, InHand(t)) <= 1
    BY DEF ExactlyOnePlace
  <2> DEFINE queues == {q \in QueueIds : Occurrences(n, Queued(q)) > 0}
             rings  == {t \in Threads : Occurrences(n, Live(t)) > 0}
             hands  == {t \in Threads : Occurrences(n, InHand(t)) > 0}
  <2>1. \A q \in QueueIds : Occurrences(n, Queued(q)) = IF n \in Elems(Queued(q)) THEN 1 ELSE 0
    BY QueuedIs, OccursOnce
  <2>2. \A t \in Threads : Occurrences(n, InHand(t)) = IF n \in Elems(InHand(t)) THEN 1 ELSE 0
    BY InHandIs, OccursOnce
  <2>3. \A t \in Threads : Occurrences(n, Live(t)) = IF n \in Elems(Live(t)) THEN 1 ELSE 0
    <3> SUFFICES ASSUME NEW t \in Threads
                 PROVE  Occurrences(n, Live(t)) = IF n \in Elems(Live(t)) THEN 1 ELSE 0
      OBVIOUS
    <3> DEFINE a == <<"live", t>>
    <3>1. a \in Places /\ Pile(a) = Live(t) /\ Live(t) \in Seq(Entries) /\ Kept
      BY PlacesAre, PileIs, RingIs DEF PlaceInv
    <3> HIDE DEF a
    <3>2. Distinct(Live(t))
      BY <3>1, KeptIs
    <3> QED
      BY <3>1, <3>2, OccursOnce
  <2>4. queues = InQueues(n) /\ rings = InRings(n) /\ hands = InHands(n)
    BY <2>1, <2>2, <2>3 DEF InQueues, InRings, InHands
  <2> HIDE DEF queues, rings, hands
  <2>5. Cardinality({}) = 0 /\ \A x : Cardinality({x}) = 1
    BY FS_EmptySet, FS_Singleton
  <2>6. n \in Nat /\ next \in Nat
    BY RunQueuesAssumption DEF PlaceInv, QueueInv, Types, Nodes
  <2>7. (IF n >= next THEN 1 ELSE 0) + Cardinality(queues) + Cardinality(rings)
          + Cardinality(hands) + ran[n] = 1
    <3>1. CASE /\ n < next /\ ran[n] = 0
               /\ \/ (\E q : InQueues(n) = {q}) /\ InRings(n) = {} /\ InHands(n) = {}
                  \/ InQueues(n) = {} /\ (\E t : InRings(n) = {t}) /\ InHands(n) = {}
                  \/ InQueues(n) = {} /\ InRings(n) = {} /\ (\E t : InHands(n) = {t})
      <4>1. \/ Cardinality(queues) = 1 /\ Cardinality(rings) = 0 /\ Cardinality(hands) = 0
            \/ Cardinality(queues) = 0 /\ Cardinality(rings) = 1 /\ Cardinality(hands) = 0
            \/ Cardinality(queues) = 0 /\ Cardinality(rings) = 0 /\ Cardinality(hands) = 1
        BY <2>4, <2>5, <3>1
      <4> QED
        BY <2>6, <3>1, <4>1
    <3>2. CASE /\ \/ n < next /\ ran[n] = 1
                  \/ n >= next /\ ran[n] = 0
               /\ InQueues(n) = {} /\ InRings(n) = {} /\ InHands(n) = {}
      BY <2>4, <2>5, <2>6, <3>2
    <3> QED
      BY <3>1, <3>2, OnePlace
  <2> QED
    BY <2>1, <2>2, <2>3, <2>7 DEF queues, rings, hands
<1>3. PlaceInv /\ [Next]_vars /\ [HeadsMoveOn]_vars => PlaceInv'
  BY PlaceStep, PlaceStutter
<1> QED
  BY <1>1, <1>2, <1>3, PTL DEF Spec

=============================================================================
