--------------------------- MODULE InflightWindow ---------------------------
(***************************************************************************)
(* The ring buffer behind the per-follower flow-control window             *)
(* (pkg/raft/inflight.go).  A slot holds the last log index of one batch   *)
(* that was sent and not yet acknowledged.                                 *)
(***************************************************************************)
EXTENDS Naturals, Sequences

CONSTANTS WindowSize,  \* Config.MaxInflight, as given to newInflightWindow
          Index        \* the log indexes a batch can end with

ASSUME WindowAssumption ==
    /\ WindowSize \in Nat
    /\ Index \subseteq Nat

VARIABLES buf, head, tail, size

windowVars == <<buf, head, tail, size>>

\* A capacity of zero is raised to one.
Cap == IF WindowSize = 0 THEN 1 ELSE WindowSize

Slots == 0..(Cap - 1)

WindowInit ==
    /\ buf = [i \in Slots |-> 0]
    /\ head = 0
    /\ tail = 0
    /\ size = 0

Full == size = Cap

\* Mutant of Add: the write cursor is advanced before the slot is written.
AddAfterAdvance(idx) ==
    /\ ~Full
    /\ head' = (head + 1) % Cap
    /\ buf' = [buf EXCEPT ![head'] = idx]
    /\ size' = size + 1
    /\ UNCHANGED tail

\* add: the caller has checked full(), which add would panic on.
Add(idx) ==
    /\ ~Full
    /\ buf' = [buf EXCEPT ![head] = idx]
    /\ head' = (head + 1) % Cap
    /\ size' = size + 1
    /\ UNCHANGED tail

\* ack: the loop drops the oldest batch while it ends at or below matchIdx.
\* n is the number of turns it takes.
Ack(matchIdx) ==
    \E n \in 0..size :
        /\ \A k \in 0..(n - 1) : buf[(tail + k) % Cap] <= matchIdx
        /\ n < size => buf[(tail + n) % Cap] > matchIdx
        /\ tail' = (tail + n) % Cap
        /\ size' = size - n
        /\ UNCHANGED <<buf, head>>

\* reset: the cursors go back to slot 0, the slots keep their old contents.
Reset ==
    /\ head' = 0
    /\ tail' = 0
    /\ size' = 0
    /\ UNCHANGED buf

WindowNext ==
    \/ \E idx \in Index : Add(idx) \/ Ack(idx)
    \/ Reset

WindowSpec == WindowInit /\ [][WindowNext]_windowVars

-----------------------------------------------------------------------------

\* The batches in flight, oldest first, as the ring stores them.
Contents == [k \in 1..size |-> buf[(tail + k - 1) % Cap]]

Queue == INSTANCE Window WITH inflight <- Contents

\* The ring buffer is a bounded queue: add appends, ack drops exactly the
\* acknowledged front, reset empties, whatever the cursors have wrapped to.
RefinesWindow == Queue!Spec
=============================================================================
