--------------------------- MODULE UnboundedQueue ---------------------------
(* src/src/threading/unbounded_queue.rs: the intrusive queue other threads   *)
(* hand work to a loop with. Every queue of the repository has one consumer, *)
(* the thread of its loop. A node belongs to the queue from push to pop and  *)
(* is then the consumer's to free or to push again.                          *)
EXTENDS Naturals, FiniteSets, Sequences, SequencesExt

CONSTANTS Producers, Nodes, NULL

ASSUME UnboundedQueueAssumption == NULL \notin Nodes /\ IsFiniteSet(Nodes)

VARIABLES front, back, next,    \* the two ends and the nodes' links
          pushing,              \* per producer: the node it pushes and the old back it got
          pc,                   \* where the consumer is in pop or pop_batch
          first, nextItem,      \* its locals; the walk of pop_batch moves nextItem
          last, count,
          out                   \* what its last call returned

vars == <<front, back, next, pushing, pc, first, nextItem, last, count, out>>

NoPush == [node |-> NULL, oldBack |-> NULL]

Pushing == {p \in Producers : pushing[p] # NoPush}

Init ==
    /\ front = NULL /\ back = NULL
    /\ next = [n \in Nodes |-> NULL]
    /\ pushing = [p \in Producers |-> NoPush]
    /\ pc = "idle" /\ first = NULL /\ nextItem = NULL /\ last = NULL /\ count = 0
    /\ out = <<>>

-----------------------------------------------------------------------------
(* The sequence the pointers stand for: the links that are stored and the    *)
(* ones their producers are about to store.                                  *)

PushedBehind(n) == {pushing[p].node : p \in {q \in Pushing : pushing[q].oldBack = n}}

Successor(n) ==
    IF n # NULL /\ next[n] # NULL THEN next[n]
    ELSE IF PushedBehind(n) # {} THEN CHOOSE m \in PushedBehind(n) : TRUE
    ELSE NULL

(* The nodes from n on, NULL behind the last one. *)
Trail(n) ==
    LET at[i \in 1..Cardinality(Nodes)] ==
            IF i = 1 THEN n ELSE IF at[i - 1] = NULL THEN NULL ELSE Successor(at[i - 1])
    IN  at

Chain(n) == SubSeq(Trail(n), 1, Cardinality({i \in 1..Cardinality(Nodes) : Trail(n)[i] # NULL}))

(* The consumer cuts the head off before it has decided what is behind it. *)
Detached == IF pc \in {"clear", "spin", "batch", "walk"} THEN Chain(first) ELSE <<>>

Attached == Chain(IF front # NULL THEN front ELSE Successor(NULL))

Queued == Detached \o Attached

Abs == INSTANCE Fifo WITH
    Items    <- Nodes,
    items    <- Queued,
    unlinked <- {pushing[p].node : p \in Pushing}

-----------------------------------------------------------------------------
(* The consumer's locals go out of scope. *)
Return(nodes) ==
    /\ pc' = "idle" /\ out' = nodes
    /\ first' = NULL /\ nextItem' = NULL /\ last' = NULL /\ count' = 0

(* Plausible slips. *)

(* pop does not wait for the producer that is linking a node behind the one
   it returns: what has arrived so far is the new front. *)
SlipNoSpin ==
    /\ pc = "spin"
    /\ front' = next[first]
    /\ Return(<<first>>)
    /\ UNCHANGED <<back, next, pushing>>

(* pop_batch takes the batch for complete where it finds no link. *)
SlipWalkStops ==
    /\ pc = "walk" /\ nextItem # last
    /\ IF next[nextItem] = NULL
       THEN last' = nextItem /\ UNCHANGED <<nextItem, count>>
       ELSE nextItem' = next[nextItem] /\ count' = count + 1 /\ UNCHANGED last
    /\ UNCHANGED <<front, back, next, pushing, pc, first, out>>

(* pop stores null in back instead of comparing it with the node it pops. *)
SlipClearBlindly ==
    /\ pc = "clear"
    /\ back' = NULL /\ Return(<<first>>)
    /\ UNCHANGED <<front, next, pushing>>

-----------------------------------------------------------------------------
(* push, which is push_batch of one node: the node's link is cleared before
   the swap of back makes it visible. *)
Push(p, n) ==
    /\ p \notin Pushing
    /\ n \notin Range(Queued)
    /\ next' = [next EXCEPT ![n] = NULL]
    /\ back' = n
    /\ pushing' = [pushing EXCEPT ![p] = [node |-> n, oldBack |-> back]]
    /\ UNCHANGED <<front, pc, first, nextItem, last, count, out>>

(* The store of the old back's link, or of front. *)
Link(p) ==
    /\ p \in Pushing
    /\ LET node == pushing[p].node
           old  == pushing[p].oldBack
       IN  IF old # NULL
           THEN next' = [next EXCEPT ![old] = node] /\ UNCHANGED front
           ELSE front' = node /\ UNCHANGED next
    /\ pushing' = [pushing EXCEPT ![p] = NoPush]
    /\ UNCHANGED <<back, pc, first, nextItem, last, count, out>>

(* pop: the loads of front and of its link; only the consumer moves a front
   that is not null. *)
PopLoad ==
    /\ pc = "idle"
    /\ IF front = NULL
       THEN Return(<<>>)
       ELSE /\ pc' = "cas" /\ first' = front /\ nextItem' = next[front]
            /\ UNCHANGED <<out, last, count>>
    /\ UNCHANGED <<front, back, next, pushing>>

(* The exchange of front; a spurious failure of the weak exchange reads the
   link again. *)
PopFront ==
    /\ pc = "cas"
    /\ \/ /\ front' = nextItem
          /\ IF nextItem # NULL
             THEN Return(<<first>>)
             ELSE pc' = "clear" /\ UNCHANGED <<out, first, nextItem, last, count>>
       \/ nextItem' = next[first] /\ UNCHANGED <<front, pc, out, first, last, count>>
    /\ UNCHANGED <<back, next, pushing>>

(* first was the only item: the exchange of back for null *)
PopBack ==
    /\ pc = "clear"
    /\ IF back = first
       THEN back' = NULL /\ Return(<<first>>)
       ELSE pc' = "spin" /\ UNCHANGED <<back, out, first, nextItem, last, count>>
    /\ UNCHANGED <<front, next, pushing>>

(* Another item was pushed: spin for its link and make it the front. *)
PopSpin ==
    /\ pc = "spin"
    /\ next[first] # NULL
    /\ front' = next[first]
    /\ Return(<<first>>)
    /\ UNCHANGED <<back, next, pushing>>

(* pop_batch: front.swap(null), back.swap(null), and the walk from one to the
   other, which spins on a link that is not stored. *)
BatchFront ==
    /\ pc = "idle"
    /\ front' = NULL
    /\ IF front = NULL
       THEN Return(<<>>)
       ELSE pc' = "batch" /\ first' = front /\ UNCHANGED <<out, nextItem, last, count>>
    /\ UNCHANGED <<back, next, pushing>>

BatchBack ==
    /\ pc = "batch"
    /\ last' = back /\ back' = NULL
    /\ nextItem' = first /\ count' = 1
    /\ pc' = "walk"
    /\ UNCHANGED <<front, next, pushing, first, out>>

BatchWalk ==
    /\ pc = "walk" /\ nextItem # last
    /\ next[nextItem] # NULL
    /\ nextItem' = next[nextItem] /\ count' = count + 1
    /\ UNCHANGED <<front, back, next, pushing, pc, first, last, out>>

(* The batch is returned; its iterator follows count links from first, which
   nobody writes any more. *)
BatchDone ==
    /\ pc = "walk" /\ nextItem = last
    /\ LET batch[i \in 1..count] == IF i = 1 THEN first ELSE next[batch[i - 1]]
       IN  Return(batch)
    /\ UNCHANGED <<front, back, next, pushing>>

-----------------------------------------------------------------------------
PopStep == PopFront \/ PopBack \/ PopSpin \/ BatchBack \/ BatchWalk \/ BatchDone

Next ==
    \/ \E p \in Producers : Link(p) \/ \E n \in Nodes : Push(p, n)
    \/ PopLoad \/ BatchFront \/ PopStep

(* Producers finish the push they began; the loop keeps asking, a call at a
   time. An exchange does not fail spuriously for ever. *)
QueueFairness ==
    /\ \A p \in Producers : WF_vars(Link(p))
    /\ WF_vars(PopLoad \/ BatchFront) /\ WF_vars(PopStep)
    /\ SF_vars(PopFront /\ pc' # "cas")

Spec == Init /\ [][Next]_vars /\ QueueFairness

-----------------------------------------------------------------------------
(* Properties *)

(* pop and pop_batch return the items in the order of the pushes, each once,
   and say "empty" only when nothing is queued or the oldest push has not
   stored the front. *)
ImplementsFifo == Abs!Spec

(* A producer stores its link into a node the queue still has: pop and
   pop_batch hand no node out, to be freed, while a producer holds it as its
   old back; and back is null, which is_empty reports, exactly when nothing is
   queued behind the items the consumer is taking. *)
LinksStayInside ==
    /\ \A p \in Pushing : pushing[p].oldBack \in Range(Queued) \cup {NULL}
    /\ pc = "idle" => (back = NULL <=> Queued = <<>>)

(* Whatever is pushed is popped, by a consumer that keeps asking. *)
EveryItemPopped ==
    \A n \in Nodes : (n \in Range(Queued)) ~> (n \in Range(out))
=============================================================================
