------------------------------- MODULE ByteStream -------------------------------
(***************************************************************************)
(* What a serial byte stream promises, without its storage: bytes come     *)
(* out in the order they were accepted, each one once, and nothing else    *)
(* comes out; no more than Capacity of them wait inside.                   *)
(*                                                                         *)
(* `broken' marks the point from which the promise is void.  The modules   *)
(* that implement a stream say exactly which events break it.              *)
(***************************************************************************)
EXTENDS Integers, Sequences

CONSTANTS
    Capacity,       \* most bytes that may wait in the stream: a natural number
    Clearable       \* whether the owner may discard what waits

VARIABLES
    pending,        \* accepted and not yet delivered, oldest first
    out,            \* the bytes of the last delivery
    broken

Init == pending = << >> /\ out = << >> /\ broken = FALSE

\* The sender appends bytes.
Accept ==
    /\ Len(pending') \in Len(pending) + 1 .. Capacity
    /\ SubSeq(pending', 1, Len(pending)) = pending
    /\ UNCHANGED <<out, broken>>

\* The receiver gets a prefix of what waits.
Deliver ==
    \E n \in 0 .. Len(pending) :
        /\ out' = SubSeq(pending, 1, n)
        /\ pending' = SubSeq(pending, n + 1, Len(pending))
        /\ UNCHANGED broken

Discard == /\ Clearable
           /\ pending' = << >> /\ out' = << >>
           /\ UNCHANGED broken

Break == broken' = TRUE

Next == Accept \/ Deliver \/ Discard \/ Break

Spec == Init /\ [][Next]_<<pending, out, broken>>
=============================================================================
