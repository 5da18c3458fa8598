---------------------------- MODULE EdgeChannel ----------------------------
(***************************************************************************)
(* What an Edge promises its two endpoints, with no threads, locks or      *)
(* notifications: a bounded FIFO channel that stops accepting frames when  *)
(* it is closed, and never reopens.  EdgeQueue is shown to implement it.   *)
(***************************************************************************)
EXTENDS Naturals, Sequences

CONSTANTS Frame, Capacity

VARIABLES
    chan,   \* the frames in transit
    open,   \* whether the channel still accepts frames
    out     \* the frames received so far, in order

vars == <<chan, open, out>>

Init == chan = <<>> /\ open = TRUE /\ out = <<>>

Send(f) ==
    /\ open /\ Len(chan) < Capacity
    /\ chan' = Append(chan, f)
    /\ UNCHANGED <<open, out>>

\* Under DropOldest a full channel makes room by forgetting its head.
Overwrite(f) ==
    /\ open /\ Len(chan) = Capacity
    /\ chan' = Append(Tail(chan), f)
    /\ UNCHANGED <<open, out>>

Receive ==
    /\ chan # <<>>
    /\ out' = Append(out, Head(chan))
    /\ chan' = Tail(chan)
    /\ UNCHANGED open

\* Closing keeps what is in transit, or discards all of it.
Close ==
    /\ open' = FALSE
    /\ chan' \in {chan, <<>>}
    /\ UNCHANGED out

Next == (\E f \in Frame : Send(f) \/ Overwrite(f)) \/ Receive \/ Close

Spec == Init /\ [][Next]_vars
=============================================================================
