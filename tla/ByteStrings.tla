----------------------------- MODULE ByteStrings -----------------------------
(***************************************************************************)
(* Go strings as sequences of bytes, for the code whose decisions depend   *)
(* on how keys compare.                                                    *)
(***************************************************************************)
EXTENDS Naturals, Sequences, SequencesExt

\* Go's comparison of strings.
Less(a, b) ==
    \/ IsStrictPrefix(a, b)
    \/ \E i \in 1..Len(a) : /\ i <= Len(b) /\ a[i] < b[i]
                            /\ \A j \in 1..(i - 1) : a[j] = b[j]
=============================================================================
