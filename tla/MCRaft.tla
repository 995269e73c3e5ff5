------------------------------- MODULE MCRaft -------------------------------
(* Instances of Raft for TLC.                                              *)
EXTENDS Raft, TLC

\* Voters are interchangeable: no definition of Raft names one of them.
Symmetry == Permutations(Voters)
=============================================================================
