----------------------------- MODULE MCCluster -----------------------------
(***************************************************************************)
(* What a client of the cluster relies on, side by side: changes of the    *)
(* membership, confirmed reads and leases, and writes with their retries.  *)
(* The parts share no variable; a behaviour picks one and only that one    *)
(* moves.                                                                  *)
(***************************************************************************)
EXTENDS Membership, Reads, Lease, WritePath

VARIABLE part       \* the part that moves

clusterVars == <<part, memberVars, readVars, leaseVars, writeVars>>

-----------------------------------------------------------------------------
\* Three voters, one of which may be removed or replaced by node 4; two voters,
\* to which one is added; two voters and a learner, which may be promoted or get
\* a second beside it.
MCVoters == <<Server(1, FALSE), Server(2, FALSE), Server(3, FALSE)>>
MCPair == <<Server(1, FALSE), Server(2, FALSE)>>
MCLearner == <<Server(1, FALSE), Server(2, FALSE), Server(3, TRUE)>>

Ask(op, id, by) == [call |-> op, id |-> id, by |-> by]
MCRequests ==
    (MCVoters :> {Ask("replace", 3, 4), Ask("remove", 3, 0)}) @@
    (MCPair :> {Ask("add", 4, 0)}) @@
    (MCLearner :> {Ask("promote", 3, 0), Ask("learner", 4, 0)})

\* Once a history flag is up the property claims nothing more.  Answers are lost and
\* nodes restarted in the clusters of two voters only.
MCMemberBound == ~lagged /\ ~padded /\ (used.faults > 0 => initial # MCVoters)

\* A read that was served, or for which a history flag is up, is not followed
\* further; two messages are in flight in the first two terms, one in the third.
MCReadBound ==
    /\ ~read.late /\ ~read.again /\ read.own /\ read.step # "served"
    /\ Cardinality(wire) = 2 => \A n \in Voters : vterm[n] < 3

\* Every kind of write, numbered and not, accepted and rejected.
MCAddrs == <<"s1", "s2">>
Call(kind) == [kind |-> kind, rejected |-> FALSE]
RejectedCall(kind) == [kind |-> kind, rejected |-> TRUE]
MCPlans == {<<Call("put"), RejectedCall("incr")>>, <<RejectedCall("delete"), Call("command")>>,
            <<Call("txn")>>}

-----------------------------------------------------------------------------
\* A part that does not move and has several initial states stays in one.
ClusterInit ==
    /\ part \in {"member", "read", "lease", "write"}
    /\ MemberInit /\ ReadInit /\ LeaseInit /\ WriteInit
    /\ part # "member" => initial = MCVoters
    /\ part # "write" => client.plan[1] = Call("put")

ClusterNext ==
    \/ part = "member" /\ MemberNext /\ UNCHANGED <<part, readVars, leaseVars, writeVars>>
    \/ part = "read" /\ ReadNext /\ UNCHANGED <<part, memberVars, leaseVars, writeVars>>
    \/ part = "lease" /\ LeaseNext /\ UNCHANGED <<part, memberVars, readVars, writeVars>>
    \/ part = "write" /\ WriteNext /\ UNCHANGED <<part, memberVars, readVars, leaseVars>>

ClusterSpec == ClusterInit /\ [][ClusterNext]_clusterVars
=============================================================================
