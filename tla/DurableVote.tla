----------------------------- MODULE DurableVote -----------------------------
(***************************************************************************)
(* The term and the vote of one server on disk (raft.go,                   *)
(* persistTermAndVotedFor and its callers; StableStore of pkg/storage).    *)
(*                                                                         *)
(* Raft.tla takes the term and the vote to be durable.  Here each is a     *)
(* separate write of the stable store: the process can die between the     *)
(* two, and a write can fail and be reported to the caller.                *)
(***************************************************************************)
EXTENDS Naturals

CONSTANTS
    Self,           \* the server
    Others,         \* the servers that ask it for votes
    Nil,            \* "no server"
    SelfVoteFails,  \* whether writing a candidate's own vote can fail
    MaxTerm,        \* bound: the highest term
    MaxCampaigns,   \* bound: elections the server starts
    MaxVoteErrors,  \* bound: writes that fail
    MaxCrashes      \* bound: crashes

ASSUME DurableVoteAssumption ==
    /\ Self \notin Others
    /\ Nil \notin Others \cup {Self}
    /\ SelfVoteFails \in BOOLEAN
    /\ MaxTerm \in Nat /\ MaxCampaigns \in Nat
    /\ MaxVoteErrors \in Nat /\ MaxCrashes \in Nat

VARIABLES
    up,
    term, votedFor,              \* in memory
    stored,                      \* the stable store: [term, vote]
    campaigns, voteErrors, crashes,
    told                         \* history: every vote anybody was told of

voteVars == <<up, term, votedFor, stored, campaigns, voteErrors, crashes, told>>

VoteInit ==
    /\ up = TRUE
    /\ term = 0
    /\ votedFor = Nil
    /\ stored = [term |-> 0, vote |-> Nil]
    /\ campaigns = 0
    /\ voteErrors = 0
    /\ crashes = 0
    /\ told = {}

\* The stable store after n of the two Set calls.
Written(disk, n, t, v) ==
    [term |-> IF n >= 1 THEN t ELSE disk.term,
     vote |-> IF n >= 2 THEN v ELSE disk.vote]

\* persistTermAndVotedFor: both writes and the Sync succeed; or a Set fails, or
\* the Sync after both; or the process dies on the way.
Persist(disk, t, v) ==
    {[disk |-> Written(disk, 2, t, v), result |-> "ok"]} \cup
    [disk : {Written(disk, n, t, v) : n \in 0..2}, result : {"error", "dead"}]

\* Nothing is persisted.
NoPersist(disk) == {[disk |-> disk, result |-> "ok"]}

\* A critical section ends after persisting with results first and last.
Ends(first, last) ==
    LET count(r) == (IF first.result = r THEN 1 ELSE 0) + (IF last.result = r THEN 1 ELSE 0)
    IN  /\ voteErrors' = voteErrors + count("error")
        /\ crashes' = crashes + count("dead")
        /\ up' = (count("dead") = 0)
        /\ stored' = last.disk
        /\ voteErrors' <= MaxVoteErrors
        /\ crashes' <= MaxCrashes

\* startElectionWith: the self-vote is persisted on a best-effort basis, then
\* the others are asked for theirs.
StartElection ==
    LET t == term + 1
    IN  /\ up
        /\ term < MaxTerm
        /\ campaigns < MaxCampaigns
        /\ campaigns' = campaigns + 1
        /\ term' = t
        /\ votedFor' = Self
        /\ \E o \in NoPersist(stored), p \in Persist(stored, t, Self) :
            /\ p.result = "error" => SelfVoteFails
            /\ Ends(o, p)
            /\ told' = IF p.result = "dead" THEN told ELSE told \cup {<<t, Self>>}

\* A newer term is seen in an AppendEntries request or any reply: the vote is
\* cleared and persisted on a best-effort basis.
ObserveTerm(t) ==
    /\ up
    /\ t > term
    /\ term' = t
    /\ votedFor' = Nil
    /\ \E o \in NoPersist(stored), p \in Persist(stored, t, Nil) : Ends(o, p)
    /\ UNCHANGED <<campaigns, told>>

\* Mutant of Granted: the candidate is told whatever becomes of the write.
GrantedUnchecked(p) == p.result \in {"ok", "error"}

\* handleRequestVote: the vote is reported only if it is durable.
Granted(p) == p.result = "ok"

\* handleRequestVote on a request that is not stale; logOK is its log test.  A
\* newer term is adopted and persisted first, then the vote.
HandleRequestVote(t, c, logOK) ==
    LET newer == t > term
        cast  == IF newer THEN Nil ELSE votedFor
    IN  /\ up
        /\ t >= term
        /\ term' = t
        /\ \E o \in IF newer THEN Persist(stored, t, Nil) ELSE NoPersist(stored) :
             IF o.result # "dead" /\ cast \in {Nil, c} /\ logOK
             THEN \E p \in Persist(o.disk, t, c) :
                    /\ Ends(o, p)
                    /\ votedFor' = IF Granted(p) THEN c ELSE cast
                    /\ told' = IF Granted(p) THEN told \cup {<<t, c>>} ELSE told
             ELSE /\ \E p \in NoPersist(o.disk) : Ends(o, p)
                  /\ votedFor' = cast
                  /\ UNCHANGED told
        /\ UNCHANGED campaigns

\* The process dies between two critical sections.
Crash ==
    /\ up
    /\ crashes < MaxCrashes
    /\ crashes' = crashes + 1
    /\ up' = FALSE
    /\ UNCHANGED <<term, votedFor, stored, campaigns, voteErrors, told>>

\* Start, loadTerm.
LoadTerm ==
    /\ ~up
    /\ up' = TRUE
    /\ term' = stored.term
    /\ votedFor' = stored.vote
    /\ UNCHANGED <<stored, campaigns, voteErrors, crashes, told>>

VoteNext ==
    \/ StartElection
    \/ \E t \in 1..MaxTerm :
        \/ ObserveTerm(t)
        \/ \E c \in Others, logOK \in BOOLEAN : HandleRequestVote(t, c, logOK)
    \/ Crash
    \/ LoadTerm

VoteSpec == VoteInit /\ [][VoteNext]_voteVars

-----------------------------------------------------------------------------
\* The types of the variables, in memory and in the stable store.
VoteTypeOK ==
    /\ up \in BOOLEAN
    /\ term \in 0..MaxTerm
    /\ votedFor \in Others \cup {Self, Nil}
    /\ stored \in [term : 0..MaxTerm, vote : Others \cup {Self, Nil}]
    /\ campaigns \in 0..MaxCampaigns
    /\ voteErrors \in 0..MaxVoteErrors
    /\ crashes \in 0..MaxCrashes
    /\ told \subseteq (1..MaxTerm) \X (Others \cup {Self})

\* vote_persist_test.go:40-43 and the comments of handleRequestVote: whatever
\* write fails and whenever the process dies, the server never tells two
\* servers of one term that they have its vote.
VotesOncePerTerm ==
    \A a, b \in told : a[1] = b[1] => a = b
=============================================================================
