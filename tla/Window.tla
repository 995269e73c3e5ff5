------------------------------- MODULE Window -------------------------------
(***************************************************************************)
(* What the leader needs from its per-follower flow-control window: the    *)
(* last indexes of the batches that were sent and not yet acknowledged,    *)
(* oldest first, at most Cap of them.                                      *)
(***************************************************************************)
EXTENDS Naturals, Sequences

CONSTANTS Cap,      \* how many batches may be in flight
          Index     \* the log indexes a batch can end with

VARIABLE inflight   \* last indexes of the batches in flight, oldest first

Init == inflight = << >>

\* A batch ending at idx is sent; only a window with a free slot admits it.
Add(idx) ==
    /\ Len(inflight) < Cap
    /\ inflight' = Append(inflight, idx)

\* Everything in front of the first batch that ends beyond idx is acknowledged.
Ack(idx) ==
    \E n \in 0..Len(inflight) :
        /\ \A k \in 1..n : inflight[k] <= idx
        /\ n < Len(inflight) => inflight[n + 1] > idx
        /\ inflight' = SubSeq(inflight, n + 1, Len(inflight))

\* A rejection, a snapshot or a transport error empties the window.
Reset == inflight' = << >>

Next ==
    \/ \E idx \in Index : Add(idx) \/ Ack(idx)
    \/ Reset

Spec == Init /\ [][Next]_inflight
=============================================================================
