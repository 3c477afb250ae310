-------------------------------- MODULE Fifo --------------------------------
(* What a queue with many producers and one consumer promises. A push takes  *)
(* its place in the order at once and becomes reachable a moment later, when *)
(* its producer links it. An item pushed on an empty queue hides the whole   *)
(* queue until it is linked: the consumer may be told "empty" although later *)
(* pushes have returned.                                                     *)
EXTENDS Naturals, Sequences, SequencesExt

CONSTANTS Items

VARIABLES items,       \* the items pushed and not popped, in the order of their pushes
          unlinked,    \* those of them that are not yet linked
          out          \* what the last pop returned

vars == <<items, unlinked, out>>

Init == items = <<>> /\ unlinked = {} /\ out = <<>>

Push(i) ==
    /\ i \notin Range(items)
    /\ items' = Append(items, i)
    /\ unlinked' = unlinked \cup {i}
    /\ UNCHANGED out

Link(i) == i \in unlinked /\ unlinked' = unlinked \ {i} /\ UNCHANGED <<items, out>>

(* The consumer gets the k oldest items, in order. *)
Take(k) ==
    /\ out' = SubSeq(items, 1, k)
    /\ items' = SubSeq(items, k + 1, Len(items))
    /\ Range(out') \cap unlinked = {}
    /\ UNCHANGED unlinked

(* One item; the one behind it, if any, must be linked as well. *)
Pop ==
    /\ items # <<>>
    /\ Len(items) > 1 => items[2] \notin unlinked
    /\ Take(1)

PopBatch == \E k \in 1..Len(items) : Take(k)

PopEmpty ==
    /\ items # <<>> => Head(items) \in unlinked
    /\ out' = <<>>
    /\ UNCHANGED <<items, unlinked>>

IsEmpty == items = <<>>

Next ==
    \/ \E i \in Items : Push(i) \/ Link(i)
    \/ Pop \/ PopBatch \/ PopEmpty

Spec == Init /\ [][Next]_vars
=============================================================================
