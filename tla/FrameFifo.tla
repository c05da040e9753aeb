----------------------------- MODULE FrameFifo -----------------------------
(***************************************************************************)
(* What frame reception promises: frames reach the consumer one at a time, *)
(* in the order in which they arrived, each once, and a frame is dropped   *)
(* only when the queue is full but for the one that may be on its way out. *)
(***************************************************************************)
EXTENDS Naturals, Sequences

CONSTANTS
    Frames,         \* what a frame can be
    None,           \* no frame
    Capacity        \* how many frames may wait

VARIABLES
    queue,          \* frames that wait
    out,            \* the frame the consumer has, or None
    drops           \* parity of the number of frames dropped

vars == <<queue, out, drops>>

Init == queue = <<>> /\ out = None /\ drops = 0

Arrive ==
    /\ Len(queue) < Capacity
    /\ \E f \in Frames : queue' = Append(queue, f)
    /\ UNCHANGED <<out, drops>>

Drop ==
    /\ Len(queue) >= Capacity - 1
    /\ drops' = 1 - drops
    /\ UNCHANGED <<queue, out>>

Take ==
    /\ out = None
    /\ queue # <<>>
    /\ out' = Head(queue)
    /\ queue' = Tail(queue)
    /\ UNCHANGED drops

Done ==
    /\ out # None
    /\ out' = None
    /\ UNCHANGED <<queue, drops>>

Next == Arrive \/ Drop \/ Take \/ Done

Spec == Init /\ [][Next]_vars
=============================================================================
