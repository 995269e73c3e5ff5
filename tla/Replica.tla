------------------------------- MODULE Replica -------------------------------
(***************************************************************************)
(* One node of pkg/raft/raft.go between its log and its state machine: the *)
(* run goroutine with handleProposal, applyCommitted, processSnapshot and  *)
(* drainFuturesOnShutdown, the RPC handlers that change the log under the  *)
(* same lock (handleAppendEntries, handleInstallSnapshot), the futures of  *)
(* Apply, WaitApplied, Shutdown, stopFatal, a crash and Start.             *)
(*                                                                         *)
(* An entry is an id of its own, so equal ids are equal indexes and terms. *)
(* The rest of the cluster is the history of committed entries and, once   *)
(* another node leads, that node's log.  The run goroutine reads the log   *)
(* and calls the state machine without the lock, and those are steps of    *)
(* their own.                                                              *)
(***************************************************************************)
EXTENDS Naturals, Sequences, SequencesExt, FiniteSetsExt

CONSTANTS
    Proposals,      \* the Apply calls, numbered
    FutureCap,      \* pendingFutureCap
    MaxEntries,     \* bound: entries another leader adds
    MaxTaken,       \* bound: snapshots this node takes
    MaxInstalled,   \* bound: snapshots it is sent
    MaxBroken       \* bound: crashes, storage failures and state machine panics

VARIABLES
    history,    \* the entries committed in the cluster
    role,       \* "leader", "follower" or "stopped"
    rival,      \* the log of the leader elected meanwhile, if any
    disk,       \* what a crash leaves: the log, the newest snapshot, the commit index
    last,       \* r.lastIndex
    commit,     \* r.commitIndex
    applyIdx,   \* r.applyIndex
    fsm,        \* the entries the state machine has applied
    loop,       \* the run goroutine: its step and its local variables
    install,    \* handleInstallSnapshot, holding r.mu after it saved a snapshot
    futures,    \* r.pendingFutures, by index
    answers,    \* the outcome of each Apply call
    waiter,     \* a WaitApplied call
    forWait,    \* r.appliedForWait
    fatal,      \* r.fatalErr is set
    disturbed,  \* history: the state machine and applyIndex may have parted
    spent       \* what was used of the bounds

replicaVars == <<history, role, rival, disk, last, commit, applyIdx, fsm, loop, install, futures,
                 answers, waiter, forWait, fatal, disturbed, spent>>

None == [step |-> "none"]
Idle == [step |-> "idle"]
NoFutures == <<>>
Locked == install # None

\* The log holds the indexes above base.
InLog(i) == i > disk.base /\ i <= disk.base + Len(disk.log)
Entry(i) == disk.log[i - disk.base]
LastInLog == IF disk.log = <<>> THEN 0 ELSE disk.base + Len(disk.log)

ReplicaInit ==
    /\ history = <<>> /\ rival = <<>> /\ role \in {"leader", "follower"}
    /\ disk = [base |-> 0, log |-> <<>>, snap |-> 0, state |-> <<>>, commit |-> 0]
    /\ last = 0 /\ commit = 0 /\ applyIdx = 0 /\ fsm = <<>>
    /\ loop = Idle /\ install = None /\ futures = NoFutures
    /\ answers = [p \in Proposals |-> "none"]
    /\ waiter \in [step : {"calling"}, index : {1, 2}] /\ forWait = 0
    /\ fatal = FALSE /\ disturbed = FALSE
    /\ spent = [entries |-> 0, taken |-> 0, installed |-> 0, broken |-> 0]

Respond(ps, what) == [p \in Proposals |-> IF p \in ps /\ answers[p] = "waiting" THEN what ELSE answers[p]]

\* Mutant of Due: only a leader answers.
DueIfLeader(i) == IF role = "leader" /\ i \in DOMAIN futures THEN {futures[i]} ELSE {}

\* The proposal that waits for the entry at i.
Due(i) == IF i \in DOMAIN futures THEN {futures[i]} ELSE {}

FuturesAbove(c) == {futures[i] : i \in {j \in DOMAIN futures : j > c}}

-----------------------------------------------------------------------------
(* The cluster                                                             *)

\* Another node is elected.  It has every committed entry, and of the entries
\* after them those this node replicated to it.
RivalElected ==
    /\ rival = <<>> /\ spent.entries < MaxEntries
    /\ \E n \in Len(history)..Max({Len(history), LastInLog}) :
        /\ n > Len(history) => disk.base <= Len(history)
        /\ LET own == [i \in 1..(n - Len(history)) |-> Entry(Len(history) + i)]
           IN  rival' = history \o own \o <<100 + spent.entries>>
    /\ spent' = [spent EXCEPT !.entries = @ + 1]
    /\ UNCHANGED <<history, role, disk, last, commit, applyIdx, fsm, loop, install, futures,
                   answers, waiter, forWait, fatal, disturbed>>

\* It appends and commits entries.
RivalAppends ==
    /\ rival # <<>> /\ spent.entries < MaxEntries
    /\ rival' = Append(rival, 100 + spent.entries)
    /\ spent' = [spent EXCEPT !.entries = @ + 1]
    /\ UNCHANGED <<history, role, disk, last, commit, applyIdx, fsm, loop, install, futures,
                   answers, waiter, forWait, fatal, disturbed>>

RivalCommits ==
    /\ Len(rival) > Len(history)
    /\ history' = rival
    /\ UNCHANGED <<role, rival, disk, last, commit, applyIdx, fsm, loop, install, futures,
                   answers, waiter, forWait, fatal, disturbed, spent>>

-----------------------------------------------------------------------------
(* Apply and handleProposal                                                *)

Propose(p) ==
    /\ answers[p] = "none" /\ role = "leader"
    /\ answers' = [answers EXCEPT ![p] = "queued"]
    /\ UNCHANGED <<history, role, rival, disk, last, commit, applyIdx, fsm, loop, install,
                   futures, waiter, forWait, fatal, disturbed, spent>>

\* handleProposalBatch and handleProposal: the proposals that are ready are
\* appended together, and those past the cap refused.
HandleProposal ==
    LET ready    == {p \in Proposals : answers[p] = "queued"}
        room     == FutureCap - Cardinality(DOMAIN futures)
        batch    == SetToSeq(ready)
        accepted == SubSeq(batch, 1, Min({Len(batch), room}))
    IN  /\ loop.step = "idle" /\ ~Locked /\ role # "stopped" /\ ready # {}
        /\ IF role # "leader"
           THEN /\ answers' = [p \in Proposals |-> IF p \in ready THEN "lost" ELSE answers[p]]
                /\ UNCHANGED <<disk, last, futures>>
           ELSE /\ disk' = [disk EXCEPT !.log = @ \o accepted,
                                        !.base = IF disk.log = <<>> THEN last ELSE @]
                /\ last' = last + Len(accepted)
                /\ futures' = [i \in DOMAIN futures \cup (last + 1)..last' |->
                                   IF i > last THEN accepted[i - last] ELSE futures[i]]
                /\ answers' = [p \in Proposals |->
                                   IF p \notin ready THEN answers[p]
                                   ELSE IF p \in ToSet(accepted) THEN "waiting" ELSE "busy"]
        /\ loop' = [step |-> "capture"]
        /\ UNCHANGED <<history, role, rival, commit, applyIdx, fsm, install, waiter, forWait,
                       fatal, disturbed, spent>>

\* stopFatal; stopCh is closed and the run goroutine drains.
Halt ==
    /\ role' = "stopped" /\ fatal' = TRUE
    /\ loop' = [step |-> "drain"]
    /\ spent' = [spent EXCEPT !.broken = @ + 1]

\* handleProposal when persistLog fails.
ProposalFails ==
    LET ready == {p \in Proposals : answers[p] = "queued"}
    IN  /\ loop.step = "idle" /\ ~Locked /\ role = "leader" /\ ready # {}
        /\ spent.broken < MaxBroken
        /\ answers' = [p \in Proposals |-> IF p \in ready THEN "failed" ELSE answers[p]]
        /\ Halt
        /\ UNCHANGED <<history, rival, disk, last, commit, applyIdx, fsm, install, futures, waiter,
                       forWait, disturbed>>

\* advanceCommitIndex, while no other node was elected.
CommitOwn ==
    /\ role = "leader" /\ ~Locked /\ rival = <<>> /\ last > commit
    /\ \E c \in (commit + 1)..last :
        /\ commit' = c
        /\ history' = history \o [i \in 1..(c - Len(history)) |-> Entry(Len(history) + i)]
    /\ UNCHANGED <<role, rival, disk, last, applyIdx, fsm, loop, install, futures, answers, waiter,
                   forWait, fatal, disturbed, spent>>

\* flushCommitIndex.
FlushCommit ==
    /\ loop.step = "idle" /\ role # "stopped" /\ disk.commit # commit
    /\ disk' = [disk EXCEPT !.commit = commit]
    /\ UNCHANGED <<history, role, rival, last, commit, applyIdx, fsm, loop, install, futures,
                   answers, waiter, forWait, fatal, disturbed, spent>>

-----------------------------------------------------------------------------
(* RPC handlers                                                            *)

\* Mutant of FailPending: the futures stay.
FailPendingNever == UNCHANGED <<answers, futures>>

\* failPendingFutures: those not yet committed.
FailPending ==
    /\ answers' = Respond(FuturesAbove(commit), "lost")
    /\ futures' = Restrict(futures, {i \in DOMAIN futures : i <= commit})

\* A message or an answer of the rival's term makes a leader step down.
StepDown ==
    /\ role = "leader" /\ rival # <<>> /\ ~Locked
    /\ role' = "follower"
    /\ FailPending
    /\ UNCHANGED <<history, rival, disk, last, commit, applyIdx, fsm, loop, install, waiter,
                   forWait, fatal, disturbed, spent>>

\* handleAppendEntries with the rival's entries up to n: they must join the log,
\* what conflicts with them is cut, and the rest appended behind lastIndex.
AppendFrom(n) ==
    LET differs(i) == ~InLog(i) \/ Entry(i) # rival[i]
        todo == {i \in (disk.base + 1)..n : differs(i)}
        i    == Min(todo)
    IN  /\ role = "follower" /\ rival # <<>> /\ ~Locked /\ n <= Len(rival)
        /\ disk.base = 0 \/ (disk.log # <<>> /\ n > disk.base /\ ~differs(disk.base + 1))
        /\ IF todo = {} THEN UNCHANGED <<disk, last>>
           ELSE /\ InLog(i) => i > commit
                /\ ~InLog(i) => i = last + 1
                /\ disk' = [disk EXCEPT !.log = SubSeq(@, 1, i - 1 - disk.base) \o SubSeq(rival, i, n)]
                /\ last' = n
        /\ commit' = Max({commit, Min({n, Len(history)})})
        /\ UNCHANGED <<history, role, rival, applyIdx, fsm, loop, install, futures, answers, waiter,
                       forWait, fatal, disturbed, spent>>

\* handleInstallSnapshot: restoreSnapshotData saves the snapshot ...
InstallBegins(n) ==
    /\ role = "follower" /\ rival # <<>> /\ ~Locked /\ spent.installed < MaxInstalled
    /\ n \in (commit + 1)..Len(history)
    /\ disk' = [disk EXCEPT !.snap = n, !.state = SubSeq(history, 1, n)]
    /\ install' = [step |-> "saved", index |-> n]
    /\ spent' = [spent EXCEPT !.installed = @ + 1]
    /\ UNCHANGED <<history, role, rival, last, commit, applyIdx, fsm, loop, futures, answers,
                   waiter, forWait, fatal, disturbed>>

\* ... and restores the state machine; the log is reconciled, and the indexes set.
InstallEnds ==
    LET n    == install.index
        keep == InLog(n) /\ Entry(n) = disk.state[n]
    IN  /\ Locked
        /\ fsm' = disk.state
        /\ disk' = [disk EXCEPT !.base = n,
                                !.log = IF keep THEN SubSeq(@, n - disk.base + 1, Len(@)) ELSE <<>>]
        /\ last' = IF keep THEN Max({last, n}) ELSE n
        /\ commit' = n /\ applyIdx' = n /\ forWait' = Max({forWait, n})
        /\ install' = None
        /\ disturbed' = (disturbed \/ loop.step \in {"got", "done"} \/ futures # NoFutures)
        /\ UNCHANGED <<history, role, rival, loop, futures, answers, waiter, fatal, spent>>

-----------------------------------------------------------------------------
(* applyCommitted                                                          *)

\* After every event, and when draining.
Capture ==
    /\ loop.step \in {"idle", "capture", "drain"} /\ ~Locked
    /\ loop.step = "idle" => role # "stopped" /\ applyIdx < commit
    /\ LET end == IF loop.step = "drain" THEN "answer" ELSE "idle"
       IN  loop' = IF fatal \/ applyIdx >= commit THEN [step |-> end]
                   ELSE [step |-> "get", at |-> applyIdx, upto |-> commit, end |-> end]
    /\ UNCHANGED <<history, role, rival, disk, last, commit, applyIdx, fsm, install, futures,
                   answers, waiter, forWait, fatal, disturbed, spent>>

\* r.log.Get, without the lock; an entry that is missing ends the loop.
GetEntry ==
    /\ loop.step = "get"
    /\ loop' = IF InLog(loop.at + 1)
               THEN [step |-> "got", at |-> loop.at, upto |-> loop.upto, end |-> loop.end,
                     entry |-> Entry(loop.at + 1)]
               ELSE [step |-> loop.end]
    /\ UNCHANGED <<history, role, rival, disk, last, commit, applyIdx, fsm, install, futures,
                   answers, waiter, forWait, fatal, disturbed, spent>>

\* r.fsm.Apply, without the lock.
ApplyEntry ==
    /\ loop.step = "got"
    /\ fsm' = Append(fsm, loop.entry)
    /\ loop' = [loop EXCEPT !.step = "done"]
    /\ UNCHANGED <<history, role, rival, disk, last, commit, applyIdx, install, futures, answers,
                   waiter, forWait, fatal, disturbed, spent>>

\* It panics: the future gets the error and the node halts.
ApplyPanics ==
    LET i == loop.at + 1
    IN  /\ loop.step = "got" /\ ~Locked /\ spent.broken < MaxBroken
        /\ answers' = Respond(Due(i), "failed")
        /\ futures' = Restrict(futures, DOMAIN futures \ {i})
        /\ Halt
        /\ UNCHANGED <<history, rival, disk, last, commit, applyIdx, fsm, install, waiter, forWait,
                       disturbed>>

\* applyIndex advances and the entry's future is answered.
FinishEntry ==
    LET i == loop.at + 1
    IN  /\ loop.step = "done" /\ ~Locked
        /\ applyIdx' = i
        /\ answers' = Respond(Due(i), "ok")
        /\ futures' = Restrict(futures, DOMAIN futures \ {i})
        /\ loop' = [step |-> "notify", at |-> i, upto |-> loop.upto, end |-> loop.end]
        /\ UNCHANGED <<history, role, rival, disk, last, commit, fsm, install, waiter, forWait,
                       fatal, disturbed, spent>>

\* Mutant of Notified: the index before the one applied.
NotifiedBefore == Max({forWait, loop.at - 1})

Notified == Max({forWait, loop.at})

\* notifyApplied.
Notify ==
    /\ loop.step = "notify"
    /\ forWait' = Notified
    /\ loop' = IF loop.at < loop.upto THEN [loop EXCEPT !.step = "get"] ELSE [step |-> loop.end]
    /\ UNCHANGED <<history, role, rival, disk, last, commit, applyIdx, fsm, install, futures,
                   answers, waiter, fatal, disturbed, spent>>

\* WaitApplied: the first look, and a later one when applyWaitCh is closed.
Look ==
    /\ \/ waiter.step = "calling" /\ ~Locked
          /\ waiter' = [waiter EXCEPT !.step = IF applyIdx >= waiter.index THEN "returned" ELSE "waiting"]
       \/ waiter.step = "waiting" /\ forWait >= waiter.index
          /\ waiter' = [waiter EXCEPT !.step = "returned"]
    /\ UNCHANGED <<history, role, rival, disk, last, commit, applyIdx, fsm, loop, install, futures,
                   answers, forWait, fatal, disturbed, spent>>

-----------------------------------------------------------------------------
(* processSnapshot                                                         *)

TakeSnapshot ==
    /\ loop.step = "idle" /\ ~Locked /\ role # "stopped" /\ applyIdx > 0
    /\ spent.taken < MaxTaken
    /\ loop' = [step |-> "save", index |-> applyIdx, state |-> fsm]
    /\ spent' = [spent EXCEPT !.taken = @ + 1]
    /\ UNCHANGED <<history, role, rival, disk, last, commit, applyIdx, fsm, install, futures,
                   answers, waiter, forWait, fatal, disturbed>>

\* The sink is closed; the store's newest snapshot is the one of the highest index.
Save ==
    /\ loop.step = "save"
    /\ disk' = IF loop.index >= disk.snap
               THEN [disk EXCEPT !.snap = loop.index, !.state = loop.state] ELSE disk
    /\ loop' = [loop EXCEPT !.step = "compact"]
    /\ UNCHANGED <<history, role, rival, last, commit, applyIdx, fsm, install, futures, answers,
                   waiter, forWait, fatal, disturbed, spent>>

\* Mutant of SaveFails: the failure is logged, and the log compacted all the same.
SaveFailsGoesOn ==
    /\ loop.step = "save"
    /\ loop' = [loop EXCEPT !.step = "compact"]
    /\ UNCHANGED <<history, role, rival, disk, last, commit, applyIdx, fsm, install, futures,
                   answers, waiter, forWait, fatal, disturbed, spent>>

\* A failure before that ends the request with an error.
SaveFails ==
    /\ loop.step = "save"
    /\ loop' = [step |-> "capture"]
    /\ UNCHANGED <<history, role, rival, disk, last, commit, applyIdx, fsm, install, futures,
                   answers, waiter, forWait, fatal, disturbed, spent>>

\* The log is compacted up to the snapshot, without the lock.
CompactLog ==
    /\ loop.step = "compact"
    /\ disk' = IF loop.index > disk.base
               THEN [disk EXCEPT !.log = SubSeq(@, loop.index - disk.base + 1, Len(@)),
                                 !.base = loop.index]
               ELSE disk
    /\ loop' = [step |-> "capture"]
    /\ UNCHANGED <<history, role, rival, last, commit, applyIdx, fsm, install, futures, answers,
                   waiter, forWait, fatal, disturbed, spent>>

-----------------------------------------------------------------------------
(* Stopping and starting                                                   *)

Shutdown ==
    /\ role # "stopped" /\ ~Locked
    /\ role' = "stopped"
    /\ UNCHANGED <<history, rival, disk, last, commit, applyIdx, fsm, loop, install, futures,
                   answers, waiter, forWait, fatal, disturbed, spent>>

\* The run goroutine sees stopCh closed.
BeginDrain ==
    /\ loop.step = "idle" /\ role = "stopped"
    /\ loop' = [step |-> "drain"]
    /\ UNCHANGED <<history, role, rival, disk, last, commit, applyIdx, fsm, install, futures,
                   answers, waiter, forWait, fatal, disturbed, spent>>

\* drainFuturesOnShutdown: what is committed is answered as done.
Drain ==
    LET done == {futures[i] : i \in {j \in DOMAIN futures : j <= commit}}
    IN  /\ loop.step = "answer" /\ ~Locked
        /\ answers' = [p \in Proposals |->
                           IF answers[p] # "waiting" \/ p \notin Range(futures) THEN answers[p]
                           ELSE IF p \in done THEN "done" ELSE "stopped"]
        /\ futures' = NoFutures
        /\ loop' = [step |-> "exited"]
        /\ UNCHANGED <<history, role, rival, disk, last, commit, applyIdx, fsm, install, waiter,
                       forWait, fatal, disturbed, spent>>

\* Apply also returns when stopCh is closed, or when its context ends.
CallerLeaves(p) ==
    /\ answers[p] \in {"queued", "waiting"} /\ role = "stopped"
    /\ answers' = [answers EXCEPT ![p] = "stopped"]
    /\ UNCHANGED <<history, role, rival, disk, last, commit, applyIdx, fsm, loop, install, futures,
                   waiter, forWait, fatal, disturbed, spent>>

ReplicaCrash ==
    /\ spent.broken < MaxBroken /\ loop.step # "down"
    /\ role' = "stopped" /\ loop' = [step |-> "down"] /\ install' = None
    /\ answers' = [p \in Proposals |-> IF answers[p] \in {"queued", "waiting"} THEN "stopped"
                                       ELSE answers[p]]
    /\ waiter' = [waiter EXCEPT !.step = IF @ = "returned" THEN @ ELSE "gone"]
    /\ futures' = NoFutures /\ fsm' = <<>>
    /\ last' = 0 /\ commit' = 0 /\ applyIdx' = 0 /\ forWait' = 0 /\ fatal' = FALSE
    /\ spent' = [spent EXCEPT !.broken = @ + 1]
    /\ UNCHANGED <<history, rival, disk, disturbed>>

\* Mutant of StartIndex: what was committed is taken to be applied.
StartAtCommit == disk.commit

\* loadSnapshotState: the entries up to the newest snapshot count as applied.
StartIndex == disk.snap

\* loadLastIndex, and the snapshot's index if that is higher.
StartLast == Max({LastInLog, disk.snap})

\* loadCommitIndex, raised to the snapshot and capped at the log.
StartCommit == Min({Max({disk.commit, disk.snap}), StartLast})

\* newRaft and Start.  The state machine starts empty.
ReplicaRestart ==
    /\ loop.step = "down"
    /\ role' = "follower" /\ loop' = Idle
    /\ last' = StartLast /\ commit' = StartCommit /\ applyIdx' = StartIndex
    /\ disturbed' = (disturbed \/ disk.snap > 0)
    /\ UNCHANGED <<history, rival, disk, fsm, install, futures, answers, waiter, forWait, fatal,
                   spent>>

-----------------------------------------------------------------------------
LoopStep ==
    \/ HandleProposal \/ FlushCommit \/ Capture \/ GetEntry \/ ApplyEntry \/ FinishEntry
    \/ Notify \/ Save \/ CompactLog \/ BeginDrain \/ Drain

ReplicaNext ==
    \/ RivalElected \/ RivalAppends \/ RivalCommits
    \/ \E p \in Proposals : Propose(p) \/ CallerLeaves(p)
    \/ LoopStep
    \/ ProposalFails \/ CommitOwn \/ StepDown
    \/ \E n \in 1..(MaxEntries + Cardinality(Proposals)) : AppendFrom(n) \/ InstallBegins(n)
    \/ InstallEnds
    \/ ApplyPanics \/ Look \/ TakeSnapshot \/ SaveFails
    \/ Shutdown \/ ReplicaCrash \/ ReplicaRestart

\* The run goroutine, an RPC handler that began and a waiting caller go on.
ReplicaFairness ==
    /\ WF_replicaVars(LoopStep)
    /\ WF_replicaVars(InstallEnds)
    /\ WF_replicaVars(Look)

ReplicaSpec == ReplicaInit /\ [][ReplicaNext]_replicaVars /\ ReplicaFairness

-----------------------------------------------------------------------------
\* The state machine has applied the committed entries up to applyIndex, each once
\* and in order, while entries are appended, cut, compacted and restored under the
\* apply loop.  Three events part the two: a snapshot installed while the loop is
\* between reading an entry and counting it, one installed over unapplied futures,
\* and a start from a snapshot.
AppliedPrefix ==
    ~disturbed /\ loop.step # "down" =>
        LET n == IF loop.step = "done" THEN applyIdx + 1 ELSE applyIdx
        IN  n <= Len(history) /\ fsm = SubSeq(history, 1, n)

\* An Apply call that succeeds, by the apply loop or by the drain at shutdown, had
\* its own entry committed, though another leader may have put other entries at
\* the indexes of this node's futures.
FutureTruthful ==
    \A p \in Proposals : answers[p] \in {"ok", "done"} => p \in Range(history)

\* Every committed entry this node knows of is in its log or in its snapshot, at
\* every point where it may crash.
NothingLost ==
    \A i \in 1..disk.commit : InLog(i) \/ i <= disk.snap

\* A proposal whose entry is known to be committed is answered.
CommittedAnswered ==
    \A p \in Proposals :
        (answers[p] = "waiting" /\ \E i \in DOMAIN futures : i <= commit /\ futures[i] = p)
            ~> (answers[p] # "waiting" \/ disturbed)

\* WaitApplied returns once the node has committed what it waits for, unless the
\* node stops.
WaiterWakes ==
    (waiter.step = "waiting" /\ waiter.index <= commit)
        ~> (waiter.step # "waiting" \/ disturbed \/ role = "stopped")
=============================================================================
