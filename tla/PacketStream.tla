------------------------------ MODULE PacketStream ------------------------------
(***************************************************************************)
(* What an echo promises: packets come back in the order they were sent,   *)
(* each at most once, and nothing else comes back.  Only the newest is     *)
(* safe: older ones may be lost behind it.  When the link goes up or down  *)
(* all are lost.                                                           *)
(***************************************************************************)
EXTENDS Integers, Sequences

CONSTANT Capacity       \* most packets inside at a time: a natural number

VARIABLES
    inside,         \* packets on their way, oldest first
    back,           \* the packet that last came back, << >> before the first
    epoch           \* 0 or 1, changes when the link goes up or down

Init == inside = << >> /\ back = << >> /\ epoch = 0

Send == /\ Len(inside') = Len(inside) + 1 /\ Len(inside') <= Capacity
        /\ SubSeq(inside', 1, Len(inside)) = inside
        /\ UNCHANGED <<back, epoch>>

Lose == /\ \E k \in 1 .. Len(inside) : inside' = SubSeq(inside, k, Len(inside))
        /\ UNCHANGED <<back, epoch>>

Return == /\ inside # << >>
          /\ back' = << Head(inside) >> /\ inside' = Tail(inside)
          /\ UNCHANGED epoch

Relink == inside' = << >> /\ epoch' = 1 - epoch /\ UNCHANGED back

Next == Send \/ Lose \/ Return \/ Relink

Spec == Init /\ [][Next]_<<inside, back, epoch>>
=============================================================================
