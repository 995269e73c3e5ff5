----------------------------- MODULE Membership -----------------------------
(***************************************************************************)
(* Membership changes of pkg/raft: AddServer, RemoveServer, ReplaceServer, *)
(* AddLearner and PromoteLearner append configuration entries, which take  *)
(* effect on each node when it applies them (applyConfigurationEntry), and *)
(* elections and commits count quorums in the configuration a node has     *)
(* applied, or in both configurations of a joint one (pkg/raft/joint.go).  *)
(*                                                                         *)
(* Module Raft has the message exchanges of one configuration step by      *)
(* step; here an election is one step, and so is bringing a follower's log *)
(* up to date.  A node's configuration is a function of the entries it has *)
(* applied since it started.                                               *)
(***************************************************************************)
EXTENDS Naturals, Sequences, FiniteSets, SequencesExt, FiniteSetsExt

CONSTANTS
    Nodes,
    Requests,       \* by initial configuration, a sequence of servers, the changes an
                    \* operator may ask for
    TrailingLogs,   \* Config.TrailingLogs
    MaxMTerm,       \* bound: terms
    MaxRequests,    \* bound: client writes and changes
    MaxFaults       \* bound: lost answers and restarts

VARIABLES
    initial,    \* the configuration the nodes are started with
    mterm,      \* per node: r.term
    votedFor,   \* per node: r.votedFor
    mlead,      \* per node: whether its state is leader
    mlog,       \* per node: its log
    mcommit,    \* per node: r.commitIndex
    mapplied,   \* per node: r.applyIndex
    mview,      \* per node: r.configuration and r.jointConfig
    mmatch,     \* per leader: r.matchIndex (a leader starts with an empty one)
    pending,    \* per node: r.pendingConfigIndex
    committed,  \* history: entries a leader counted as committed, by index
    leaders,    \* history: the nodes elected, by term
    lagged,     \* history: a leader was elected two configuration entries behind its log
    padded,     \* history: a learner made up a quorum of a joint configuration
    used        \* what was used of the bounds

memberVars == <<initial, mterm, votedFor, mlead, mlog, mcommit, mapplied, mview, mmatch, pending,
                committed, leaders, lagged, padded, used>>

-----------------------------------------------------------------------------
(* Configuration (pkg/raft/types.go)                                       *)

Server(id, learner) == [id |-> id, learner |-> learner]

\* GetServer: the first server of that name.
Position(c, id) == SelectInSeq(c, LAMBDA s : s.id = id)
HasServer(c, id) == Position(c, id) > 0
IsVoter(c, id) == HasServer(c, id) /\ ~c[Position(c, id)].learner
QuorumSizeOf(c) == Len(SelectSeq(c, LAMBDA s : ~s.learner)) \div 2 + 1
AddTo(c, id, learner) == Append(c, Server(id, learner))
RemoveFrom(c, id) == IF HasServer(c, id) THEN RemoveAt(c, Position(c, id)) ELSE c
Promoted(c, id) == IF HasServer(c, id) THEN [c EXCEPT ![Position(c, id)].learner = FALSE] ELSE c

\* applyConfigurationEntry: what an entry makes of the configuration.
Applied(v, e) ==
    CASE e.type = "joint"   -> [v EXCEPT !.joint = TRUE, !.new = e.config]
      [] e.type = "final"   -> IF v.joint THEN [config |-> v.new, joint |-> FALSE, new |-> <<>>] ELSE v
      [] e.type = "learner" -> [v EXCEPT !.config = AddTo(@, e.server, TRUE)]
      [] e.type = "promote" -> [v EXCEPT !.config = Promoted(@, e.server)]
      [] OTHER              -> v

\* loadConfiguration: the configuration a node starts with.
InitialView == [config |-> initial, joint |-> FALSE, new |-> <<>>]

\* Everyone the leader replicates to.
MembersOf(v) == {id \in Nodes : HasServer(v.config, id) \/ (v.joint /\ HasServer(v.new, id))}

-----------------------------------------------------------------------------
NoEntry == [term |-> 0, type |-> "write", config |-> <<>>, server |-> 0]

NoMatch == [n \in Nodes |-> 0]

MemberInit ==
    /\ initial \in DOMAIN Requests
    /\ mterm = [n \in Nodes |-> 1]
    /\ mlead = [n \in Nodes |-> n = initial[1].id]
    /\ votedFor = [n \in Nodes |-> initial[1].id]
    /\ mlog = [n \in Nodes |-> <<>>]
    /\ mcommit = [n \in Nodes |-> 0] /\ mapplied = [n \in Nodes |-> 0]
    /\ mview = [n \in Nodes |-> InitialView]
    /\ mmatch = [n \in Nodes |-> NoMatch]
    /\ pending = [n \in Nodes |-> 0]
    /\ committed = <<>>
    /\ leaders = [t \in 1..MaxMTerm |-> IF t = 1 THEN {initial[1].id} ELSE {}]
    /\ lagged = FALSE /\ padded = FALSE
    /\ used = [requests |-> 0, faults |-> 0]

-----------------------------------------------------------------------------
(* Elections                                                               *)

\* Mutant of HasVoteQuorum: a joint configuration's new half is not asked.
HasVoteQuorumOld(v, votes) ==
    Cardinality({id \in votes : IsVoter(v.config, id)}) >= QuorumSizeOf(v.config)

\* hasVoteQuorum: voters only, and a majority of both halves of a joint one.
HasVoteQuorum(v, votes) ==
    \A c \in {v.config} \cup (IF v.joint THEN {v.new} ELSE {}) :
        Cardinality({id \in votes : IsVoter(c, id)}) >= QuorumSizeOf(c)

LastTerm(n) == IF mlog[n] = <<>> THEN 0 ELSE Last(mlog[n]).term

\* handleRequestVote.
Grants(n, c, t) ==
    /\ mterm[n] < t \/ (mterm[n] = t /\ votedFor[n] \in {0, c})
    /\ \/ LastTerm(c) > LastTerm(n)
       \/ LastTerm(c) = LastTerm(n) /\ Len(mlog[c]) >= Len(mlog[n])

\* Two configuration entries of its log or more are not applied by the node.
Behind(n) ==
    Cardinality({i \in (mapplied[n] + 1)..Len(mlog[n]) : mlog[n][i].type # "write"}) > 1

\* advanceCommitIndex: the members of c that have the entry at i.  A joint
\* configuration counts its servers, a single one its voters.
Holders(l, c, match, i) ==
    {n \in Nodes : HasServer(c, n) /\ (n = l \/ match[n] >= i)}
VotersHolding(l, c, match, i) == {n \in Holders(l, c, match, i) : IsVoter(c, n)}

Commits(l, v, match, i) ==
    IF v.joint THEN \A c \in {v.config, v.new} :
                        Cardinality(Holders(l, c, match, i)) >= QuorumSizeOf(c)
    ELSE Cardinality(VotersHolding(l, v.config, match, i)) >= QuorumSizeOf(v.config)

PaddedBy(l, v, match, i) ==
    v.joint /\ \E c \in {v.config, v.new} :
                   /\ Cardinality(VotersHolding(l, c, match, i)) < QuorumSizeOf(c)
                   /\ Cardinality(Holders(l, c, match, i)) >= QuorumSizeOf(c)

\* advanceCommitIndex: the highest entry of the leader's term that Commits.
NewlyCommitted(l, v, log, match) ==
    {i \in (mcommit[l] + 1)..Len(log) : log[i].term = mterm'[l] /\ Commits(l, v, match, i)}
Upto(l, new) == Max(new \cup {mcommit[l]})

\* The voters of r.configuration that would vote for c.
Willing(c) == {n \in Nodes \ {c} : IsVoter(mview[c].config, n) /\ Grants(n, c, mterm[c] + 1)}

\* startElectionWith, the votes q it brings from the voters of r.configuration, and
\* the winner's becomeLeader, which appends an entry of its term.  Candidates that
\* do not win are left to module Raft.
Elected(c, q) ==
    LET t    == mterm[c] + 1
        v    == mview[c]
        lone == QuorumSizeOf(v.config) = 1
        log  == Append(mlog[c], [NoEntry EXCEPT !.term = t])
        upto == IF lone THEN Upto(c, NewlyCommitted(c, v, log, NoMatch)) ELSE mcommit[c]
    IN  /\ ~mlead[c] /\ t <= MaxMTerm
        /\ IF lone THEN q = {} ELSE HasVoteQuorum(v, q \cup {c})
        /\ mterm' = [n \in Nodes |-> IF n \in q \cup {c} THEN t ELSE mterm[n]]
        /\ votedFor' = [n \in Nodes |-> IF n \in q \cup {c} THEN c ELSE votedFor[n]]
        /\ mlead' = [n \in Nodes |-> n = c \/ (n \notin q /\ mlead[n])]
        /\ leaders' = [leaders EXCEPT ![t] = @ \cup {c}]
        /\ mlog' = [mlog EXCEPT ![c] = log]
        /\ mmatch' = [n \in Nodes |-> IF n \in q \cup {c} THEN NoMatch ELSE mmatch[n]]
        /\ mcommit' = [mcommit EXCEPT ![c] = upto]
        /\ committed' = committed \o SubSeq(log, Len(committed) + 1, upto)
        /\ lagged' = (lagged \/ Behind(c))
        /\ UNCHANGED <<initial, mapplied, mview, pending, padded, used>>

-----------------------------------------------------------------------------
(* Replication and commitment                                              *)

\* replicateOnce and the answer: the follower takes the leader's log and commit
\* index, and the leader, if the answer arrives, counts again.
Replicate(l, n, answered) ==
    LET v     == mview[l]
        match == [mmatch[l] EXCEPT ![n] = Len(mlog[l])]
        new   == NewlyCommitted(l, v, mlog[l], match)
        upto  == Upto(l, new)
        newer == mterm[n] < mterm[l]
    IN  /\ mlead[l] /\ n # l /\ n \in MembersOf(v) /\ mterm[n] <= mterm[l]
        /\ mterm' = [mterm EXCEPT ![n] = mterm[l]]
        /\ votedFor' = IF newer THEN [votedFor EXCEPT ![n] = 0] ELSE votedFor
        /\ mlead' = [mlead EXCEPT ![n] = @ /\ ~newer]
        /\ mlog' = [mlog EXCEPT ![n] = mlog[l]]
        /\ IF answered
           THEN /\ mmatch' = [mmatch EXCEPT ![n] = IF newer THEN NoMatch ELSE @, ![l] = match]
                /\ mcommit' = [mcommit EXCEPT ![n] = Max({@, mcommit[l]}), ![l] = upto]
                /\ committed' = committed \o SubSeq(mlog[l], Len(committed) + 1, upto)
                /\ padded' = (padded \/ \E i \in new : PaddedBy(l, v, match, i))
                /\ UNCHANGED used
           ELSE /\ mmatch' = [mmatch EXCEPT ![n] = IF newer THEN NoMatch ELSE @]
                /\ mcommit' = [mcommit EXCEPT ![n] = Max({@, mcommit[l]})]
                /\ used.faults < MaxFaults /\ used' = [used EXCEPT !.faults = @ + 1]
                /\ UNCHANGED <<committed, padded>>
        /\ UNCHANGED <<initial, mapplied, mview, pending, leaders, lagged>>

\* A refusal by a node of a higher term makes the leader step down.
StepsDown(l, n) ==
    /\ mlead[l] /\ n \in MembersOf(mview[l]) /\ mterm[n] > mterm[l]
    /\ mterm' = [mterm EXCEPT ![l] = mterm[n]]
    /\ votedFor' = [votedFor EXCEPT ![l] = 0]
    /\ mlead' = [mlead EXCEPT ![l] = FALSE]
    /\ mmatch' = [mmatch EXCEPT ![l] = NoMatch]
    /\ UNCHANGED <<initial, mlog, mcommit, mapplied, mview, pending, committed, leaders, lagged,
                   padded,
                   used>>

Write(l) ==
    /\ mlead[l] /\ used.requests < MaxRequests
    /\ mlog' = [mlog EXCEPT ![l] = Append(@, [NoEntry EXCEPT !.term = mterm[l]])]
    /\ used' = [used EXCEPT !.requests = @ + 1]
    /\ UNCHANGED <<initial, mterm, votedFor, mlead, mcommit, mapplied, mview, mmatch, pending,
                   committed,
                   leaders, lagged, padded>>

-----------------------------------------------------------------------------
(* Changes                                                                 *)

\* configChangePending.
ChangePending(n) == mview[n].joint \/ pending[n] > mcommit[n]

\* createConfigurationEntry, appended by a leader that has no change pending.
AppendChange(l, type, server, config) ==
    /\ mlead[l] /\ ~ChangePending(l) /\ used.requests < MaxRequests
    /\ mlog' = [mlog EXCEPT ![l] = Append(@, [term |-> mterm[l], type |-> type,
                                              config |-> config, server |-> server])]
    /\ pending' = [pending EXCEPT ![l] = Len(mlog'[l])]
    /\ used' = [used EXCEPT !.requests = @ + 1]
    /\ UNCHANGED <<initial, mterm, votedFor, mlead, mcommit, mapplied, mview, mmatch, committed,
                   leaders,
                   lagged, padded>>

AddServer(l, r) ==
    /\ r.call = "add"
    /\ AppendChange(l, "joint", 0, AddTo(mview[l].config, r.id, FALSE))

\* RemoveServer, and Demote with it.
RemoveServer(l, r) ==
    /\ r.call = "remove" /\ HasServer(mview[l].config, r.id)
    /\ AppendChange(l, "joint", 0, RemoveFrom(mview[l].config, r.id))

ReplaceServer(l, r) ==
    /\ r.call = "replace"
    /\ AppendChange(l, "joint", 0, AddTo(RemoveFrom(mview[l].config, r.id), r.by, FALSE))

AddLearner(l, r) ==
    /\ r.call = "learner"
    /\ AppendChange(l, "learner", r.id, <<>>)

\* The learner may lag the log by TrailingLogs.
PromoteLearner(l, r) ==
    /\ r.call = "promote" /\ r.id \in MembersOf(mview[l]) \ {l}
    /\ Len(mlog[l]) > TrailingLogs => mmatch[l][r.id] + TrailingLogs >= Len(mlog[l])
    /\ AppendChange(l, "promote", r.id, <<>>)

\* POST /admin/members refuses to add a voter again.
HandleAdminMembers(l, r) == ~IsVoter(mview[l].config, r.id) /\ AddServer(l, r)

\* DELETE /admin/members/{id} and POST /admin/members/{id}/promote.
HandleAdminMemberByID(l, r) == RemoveServer(l, r) \/ PromoteLearner(l, r)

\* applyCommitted with the next entry.  A leader that enters a joint configuration
\* appends the entry that ends it; one that leaves the configuration steps down.
ApplyOne(n) ==
    LET e   == mlog[n][mapplied[n] + 1]
        v   == Applied(mview[n], e)
        out == mlead[n] /\ e.type # "write" /\ ~v.joint /\ ~IsVoter(v.config, n)
    IN  /\ mapplied[n] < mcommit[n] /\ mapplied[n] < Len(mlog[n])
        /\ mapplied' = [mapplied EXCEPT ![n] = @ + 1]
        /\ mview' = [mview EXCEPT ![n] = v]
        /\ mlog' = IF e.type = "joint" /\ mlead[n]
                   THEN [mlog EXCEPT ![n] = Append(@, [NoEntry EXCEPT !.term = mterm[n], !.type = "final"])]
                   ELSE mlog
        /\ mmatch' = IF out THEN [mmatch EXCEPT ![n] = NoMatch]
                     ELSE IF e.type = "final" /\ mlead[n]
                     THEN [mmatch EXCEPT ![n] = [m \in Nodes |-> IF HasServer(v.config, m) THEN @[m] ELSE 0]]
                     ELSE mmatch
        /\ mlead' = IF out THEN [mlead EXCEPT ![n] = FALSE] ELSE mlead
        /\ votedFor' = IF out THEN [votedFor EXCEPT ![n] = 0] ELSE votedFor
        /\ UNCHANGED <<initial, mterm, mcommit, pending, committed, leaders, lagged, padded, used>>

\* newRaft and Start: the configuration is the initial one again and the log is
\* applied from its beginning; the commit index may not have been flushed.
RestartNode(n) ==
    /\ used.faults < MaxFaults
    /\ used' = [used EXCEPT !.faults = @ + 1]
    /\ \E c \in {0, mcommit[n]} : mcommit' = [mcommit EXCEPT ![n] = c]
    /\ mapplied' = [mapplied EXCEPT ![n] = 0]
    /\ mview' = [mview EXCEPT ![n] = InitialView]
    /\ pending' = [pending EXCEPT ![n] = 0]
    /\ mlead' = [mlead EXCEPT ![n] = FALSE]
    /\ mmatch' = [mmatch EXCEPT ![n] = NoMatch]
    /\ UNCHANGED <<initial, mterm, votedFor, mlog, committed, leaders, lagged, padded>>

MemberNext ==
    \/ \E c \in Nodes : \E q \in SUBSET Willing(c) : Elected(c, q)
    \/ \E l, n \in Nodes : StepsDown(l, n) \/ \E answered \in BOOLEAN : Replicate(l, n, answered)
    \/ \E l \in Nodes, r \in Requests[initial] :
        \/ HandleAdminMembers(l, r)
        \/ HandleAdminMemberByID(l, r)
        \/ ReplaceServer(l, r)
        \/ AddLearner(l, r)
    \/ \E n \in Nodes : Write(n) \/ ApplyOne(n) \/ RestartNode(n)

MemberSpec == MemberInit /\ [][MemberNext]_memberVars

-----------------------------------------------------------------------------
Later(t) == {n \in Nodes : mlead[n] /\ mterm[n] > t}

\* Whatever configurations the nodes have applied, an entry a leader counted as
\* committed is in the log of every leader of a later term, and one node leads per
\* term.  It needs joint quorums that voters alone make up, and leaders that had all
\* but one of the configuration entries of their logs applied when elected: that
\* one is what joint configurations make up for.
ChangesKeepCommitted ==
    ~lagged /\ ~padded =>
        /\ \A i \in DOMAIN committed : \A n \in Later(committed[i].term) :
               i <= Len(mlog[n]) /\ mlog[n][i] = committed[i]
        /\ \A t \in DOMAIN leaders : Cardinality(leaders[t]) <= 1
=============================================================================
