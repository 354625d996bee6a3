------------------------------ MODULE IrqLists ------------------------------
(***************************************************************************)
(* What the other modules take the irq lists of the daemon for: sequences, *)
(* and for_each_irq a walk over the sequence the list was when the walk    *)
(* began, whatever the callbacks do to it meanwhile.                       *)
(***************************************************************************)
EXTENDS Integers, SequencesExt

CONSTANTS Irqs, Objs, NoList

Lists == {"interrupts_db", "banned_irqs", "rebalance_irq_list"} \cup Objs

VARIABLES
    lists,   \* the irqs on each list
    walk     \* [on, todo]: the list for_each_irq is on and the irqs it has still to visit

Idle == [on |-> NoList, todo |-> <<>>]

Init == lists = [l \in Lists |-> <<>>] /\ walk = Idle

Joins(l, i)  == lists' = [lists EXCEPT ![l] = Append(@, i)]
Moves(i, from, to) ==
    IF i \in ToSet(lists[from])
    THEN \E k \in DOMAIN lists[from] :
            /\ lists[from][k] = i
            /\ lists' = [lists EXCEPT ![from] = RemoveAt(@, k), ![to] = Append(@, i)]
    ELSE UNCHANGED lists

Add(l, i) == walk = Idle /\ Joins(l, i) /\ UNCHANGED walk

(* A list may be sorted before it is walked. *)
Begin(l) == /\ walk = Idle
            /\ \E s \in SetToSeqs(ToSet(lists[l])) :
                  lists' = [lists EXCEPT ![l] = s] /\ walk' = [on |-> l, todo |-> s]

(* The callback leaves the irq, adds it to the irqs to place, or moves it  *)
(* to another list.                                                        *)
Visit == /\ walk.todo # <<>>
         /\ walk' = [walk EXCEPT !.todo = Tail(@)]
         /\ \/ UNCHANGED lists
            \/ walk.on = "interrupts_db" /\ Joins("rebalance_irq_list", Head(walk.todo))
            \/ /\ walk.on # "interrupts_db"
               /\ \E to \in Lists \ {walk.on} : Moves(Head(walk.todo), walk.on, to)

End == walk # Idle /\ walk.todo = <<>> /\ walk' = Idle /\ UNCHANGED lists

(* A list is given up as a whole. *)
Drop == /\ walk = Idle
        /\ \E S \in SUBSET Lists : lists' = [l \in Lists |-> IF l \in S THEN <<>> ELSE lists[l]]
        /\ UNCHANGED walk

Next == \/ \E l \in Lists : Begin(l) \/ \E i \in Irqs : Add(l, i)
        \/ Visit \/ End \/ Drop

Spec == Init /\ [][Next]_<<lists, walk>>
=============================================================================
