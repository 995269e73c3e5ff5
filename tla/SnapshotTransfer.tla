-------------------------- MODULE SnapshotTransfer --------------------------
(***************************************************************************)
(* Snapshot transfer from a leader that has compacted its log to a         *)
(* follower (pkg/raft/raft.go): the fallback in replicateOnce,             *)
(* sendSnapshotTo, and handleInstallSnapshot with its reassembly of        *)
(* chunks, together with the AppendEntries calls before and after it.      *)
(*                                                                         *)
(* The leader keeps its term.  An entry is its index: the leader's entries *)
(* are all of one term, and the follower may start with a suffix of        *)
(* another term.  The other voters are not shown; they let the leader      *)
(* commit anything it has.  A call is answered, or it fails: then the      *)
(* request was lost, or only its answer was, or it reaches the follower    *)
(* later.                                                                  *)
(***************************************************************************)
EXTENDS Naturals, Sequences, FiniteSetsExt

CONSTANTS
    ChunkCount,     \* data chunks of a snapshot; a last, empty one says Done
    MaxLast,        \* bound: the leader's last index
    MaxSnaps,       \* bound: snapshots the leader takes
    MaxLate         \* bound: failed calls

VARIABLES
    lead,       \* the leader: first and last index of its log, commitIndex, snapshot
    next,       \* r.nextIndex of the follower
    match,      \* r.matchIndex of the follower
    call,       \* the call being made
    delayed,    \* requests that have yet to reach the follower
    foll,       \* the follower's log, lastIndex and commitIndex
    reasm,      \* the follower's r.snapReasm
    installed,  \* the chunks of the snapshot its state machine was restored from
    again,      \* history: a snapshot was taken twice at one index
    failures    \* failed calls

transferVars == <<lead, next, match, call, delayed, foll, reasm, installed, again, failures>>

NoTransfer == [type |-> "none"]
NoBuffer == [index |-> 0, buf |-> <<>>]

\* The log stores' FirstIndex and LastIndex are 0 when no entry is left.
FirstIndex == IF lead.first <= lead.last THEN lead.first ELSE 0
LastHeld(held) == IF held = {} THEN 0 ELSE Max(held)

\* The follower has a prefix of the leader's log and perhaps entries of another
\* term behind it; nothing of it is known to be committed.
TransferInit ==
    /\ \E n \in 0..MaxLast, k, g \in 0..2 :
        /\ lead = [first |-> 1, last |-> n, commit |-> n, snap |-> 0, ver |-> 0]
        /\ g <= n /\ k <= n
        /\ foll = [held |-> 1..(g + k), bad |-> (g + 1)..(g + k), last |-> g + k, commit |-> 0]
        /\ next = n + 1
    /\ match = 0 /\ call = NoTransfer /\ delayed = {} /\ reasm = NoBuffer
    /\ installed = <<>> /\ again = FALSE /\ failures = 0

-----------------------------------------------------------------------------
(* The leader                                                              *)

\* A proposal, replicated to the other voters and committed or not.
ProposeNext ==
    /\ lead.last < MaxLast
    /\ \E c \in {lead.commit, lead.last + 1} :
        lead' = [lead EXCEPT !.last = @ + 1, !.commit = c]
    /\ UNCHANGED <<next, match, call, delayed, foll, reasm, installed, again, failures>>

\* processSnapshot and the compaction of the log up to the snapshot's index.
LeaderSnapshots ==
    /\ lead.ver < MaxSnaps /\ lead.commit > 0
    /\ lead' = [lead EXCEPT !.snap = lead.commit, !.ver = @ + 1, !.first = lead.commit + 1]
    /\ again' = (again \/ lead.snap = lead.commit)
    /\ UNCHANGED <<next, match, call, delayed, foll, reasm, installed, failures>>

\* Mutant of NeedsSnapshot: only the entry before the one needed is looked for.
NeedsSnapshotByPrev == FirstIndex > 0 /\ next > 1 /\ next - 1 < FirstIndex

\* The entry the follower needs, or the one before it, is compacted away.
NeedsSnapshot ==
    /\ FirstIndex > 0
    /\ next < FirstIndex \/ (next > 1 /\ next - 1 < FirstIndex)

\* replicateOnce: an AppendEntries with the entries from nextIndex on; known says
\* whether the term of the entry before them was found.
BeginAppend ==
    /\ call = NoTransfer /\ ~NeedsSnapshot
    /\ call' = [type |-> "append", prev |-> next - 1,
                known |-> next = 1 \/ next - 1 \in lead.first..lead.last,
                last |-> IF next \in lead.first..lead.last THEN lead.last ELSE next - 1,
                commit |-> lead.commit]
    /\ UNCHANGED <<lead, next, match, delayed, foll, reasm, installed, again, failures>>

\* replicateOnce falls back to sendSnapshotTo, which opens the newest snapshot.
BeginSnapshot ==
    /\ call = NoTransfer /\ NeedsSnapshot /\ lead.ver > 0
    /\ call' = [type |-> "chunk", index |-> lead.snap, ver |-> lead.ver, offset |-> 0]
    /\ UNCHANGED <<lead, next, match, delayed, foll, reasm, installed, again, failures>>

-----------------------------------------------------------------------------
(* The follower                                                            *)

Refused(i, t) == [ok |-> FALSE, index |-> i, term |-> t, foll |-> foll]

\* First index of the entries of the same term that end at i.
FirstHeldOfTerm(i) ==
    CHOOSE j \in foll.held :
        /\ j <= i
        /\ \A k \in j..i : k \in foll.held /\ (k \in foll.bad <=> i \in foll.bad)
        /\ j - 1 \in foll.held => (j - 1 \in foll.bad <=> i \notin foll.bad)

\* truncateLog(i - 1) and persistLog from i on.
Overwrite(c, i) ==
    LET cut   == i \in foll.held
        held  == IF cut THEN {j \in foll.held : j < i} ELSE foll.held
        last  == IF cut THEN i - 1 ELSE foll.last
        kept  == [foll EXCEPT !.held = held, !.bad = @ \cap held, !.last = last,
                              !.commit = Min({@, last})]
    IN  IF (cut /\ i > 1 /\ i - 1 \notin held) \/ i # last + 1
        THEN [ok |-> FALSE, foll |-> kept]
        ELSE [ok |-> TRUE, foll |-> [kept EXCEPT !.held = @ \cup i..c.last, !.last = c.last]]

\* handleAppendEntries for a request of the leader's term.
Appended(c) ==
    LET p    == c.prev
        todo == {i \in (p + 1)..c.last : i \notin foll.held \/ i \in foll.bad}
        i    == Min(todo)
        w    == IF todo = {} THEN [ok |-> TRUE, foll |-> foll] ELSE Overwrite(c, i)
        upto == Min({c.commit, c.last})
    IN  IF p > 0 /\ p > LastHeld(foll.held) THEN Refused(LastHeld(foll.held) + 1, "none")
        ELSE IF p > 0 /\ p \notin foll.held THEN Refused(p, "none")
        ELSE IF p > 0 /\ (p \in foll.bad \/ ~c.known)
             THEN Refused(FirstHeldOfTerm(p), IF p \in foll.bad THEN "other" ELSE "own")
        ELSE IF todo # {} /\ i \in foll.bad /\ i <= foll.commit
             THEN Refused(foll.commit + 1, "none")
        ELSE IF ~w.ok THEN [Refused(0, "none") EXCEPT !.foll = w.foll]
        ELSE [ok |-> TRUE, index |-> w.foll.last, term |-> "none",
              foll |-> IF c.commit > foll.commit THEN [w.foll EXCEPT !.commit = upto] ELSE w.foll]

\* Mutant of Continues: the index of the transfer is not compared.
ContinuesAny(c) == c.offset = Len(reasm.buf)

\* A chunk that continues the transfer in progress.
Continues(c) == reasm.index = c.index /\ c.offset = Len(reasm.buf)

\* The buffer once a chunk is handled; a chunk out of order empties it.
Reassembled(c) ==
    LET data == IF c.offset < ChunkCount THEN <<<<c.index, c.ver, c.offset>>>> ELSE <<>>
    IN  IF c.offset = 0 THEN [index |-> c.index, buf |-> data]
        ELSE IF Continues(c) THEN [reasm EXCEPT !.buf = @ \o data]
        ELSE NoBuffer

Finishes(c) ==
    c.offset = ChunkCount /\ (c.offset = 0 \/ Continues(c)) /\ c.index > foll.commit

\* handleInstallSnapshot with the last chunk: a log that has the snapshot's last
\* entry keeps what follows it, any other is discarded.
Reconciled(c) ==
    IF c.index \in foll.held \ foll.bad
    THEN [held |-> {i \in foll.held : i > c.index}, bad |-> foll.bad \cap {i \in foll.held : i > c.index},
          last |-> Max({foll.last, c.index}), commit |-> c.index]
    ELSE [held |-> {}, bad |-> {}, last |-> c.index, commit |-> c.index]

\* handleInstallSnapshot.
InstallData(c) ==
    /\ reasm' = IF c.offset = ChunkCount THEN NoBuffer ELSE Reassembled(c)
    /\ IF Finishes(c)
       THEN foll' = Reconciled(c) /\ installed' = Reassembled(c).buf
       ELSE UNCHANGED <<foll, installed>>

FollowerReceives(c) ==
    IF c.type = "chunk" THEN InstallData(c)
    ELSE foll' = Appended(c).foll /\ UNCHANGED <<reasm, installed>>

-----------------------------------------------------------------------------
(* Answers                                                                 *)

\* lastIndexOfTerm for the leader's own term: nothing once the log is empty.
LastOfOwnTerm == IF lead.first <= lead.last THEN lead.last ELSE 0

\* replicateOnce: where a refusal makes the leader go on from.
BackedOff(a) ==
    LET n == IF a.term = "own" /\ LastOfOwnTerm > 0 THEN LastOfOwnTerm + 1
             ELSE IF a.index > 0 THEN a.index
             ELSE IF next > 1 THEN next - 1 ELSE 1
    IN  IF n < next THEN n ELSE IF next > 1 THEN next - 1 ELSE next

AppendAnswered ==
    LET a == Appended(call)
        m == IF call.last > call.prev THEN Max({match, call.last}) ELSE match
    IN  /\ call.type = "append"
        /\ FollowerReceives(call)
        /\ match' = IF a.ok THEN m ELSE match
        /\ next' = IF ~a.ok THEN BackedOff(a)
                   ELSE IF call.last > call.prev THEN m + 1 ELSE next
        /\ call' = NoTransfer
        /\ UNCHANGED <<lead, delayed, again, failures>>

\* Mutant of Matched: the whole log of the leader.
MatchedAll == Max({match, lead.last})

Matched == Max({match, call.index})

\* sendSnapshotTo: the next chunk follows an answer, and after the last one the
\* follower is taken to hold the snapshot.
ChunkAnswered ==
    /\ call.type = "chunk"
    /\ FollowerReceives(call)
    /\ IF call.offset < ChunkCount
       THEN call' = [call EXCEPT !.offset = @ + 1] /\ UNCHANGED <<next, match>>
       ELSE call' = NoTransfer /\ match' = Matched /\ next' = Matched + 1
    /\ UNCHANGED <<lead, delayed, again, failures>>

\* The call fails.  The request was lost, or handled, or is handled later.
CallFails ==
    /\ call # NoTransfer /\ failures < MaxLate
    /\ failures' = failures + 1 /\ call' = NoTransfer
    /\ \/ UNCHANGED <<delayed, foll, reasm, installed>>
       \/ delayed' = delayed \cup {call} /\ UNCHANGED <<foll, reasm, installed>>
       \/ FollowerReceives(call) /\ UNCHANGED delayed
    /\ UNCHANGED <<lead, next, match, again>>

LateArrives(c) ==
    /\ c \in delayed
    /\ delayed' = delayed \ {c}
    /\ FollowerReceives(c)
    /\ UNCHANGED <<lead, next, match, call, again, failures>>

LeaderStep == BeginAppend \/ BeginSnapshot \/ AppendAnswered \/ ChunkAnswered

TransferNext ==
    \/ ProposeNext
    \/ LeaderSnapshots
    \/ LeaderStep
    \/ CallFails
    \/ \E c \in delayed : LateArrives(c)

\* The leader replicates again at every heartbeat, and calls are answered.
TransferSpec ==
    TransferInit /\ [][TransferNext]_transferVars /\ WF_transferVars(LeaderStep)

-----------------------------------------------------------------------------
\* What the follower's state machine is restored from is one snapshot, whole and
\* in order, whatever chunks were lost, delayed or mixed with those of another
\* transfer; two snapshots taken at one index cannot be told apart.
InstalledWhole ==
    installed # <<>> /\ ~again =>
        \E i \in 1..MaxLast, v \in 1..MaxSnaps :
            installed = [k \in 1..ChunkCount |-> <<i, v, k - 1>>]

\* Beyond the leader's snapshot, all of which is committed, the leader takes the
\* follower to hold only entries the follower has: sendSnapshotTo counts chunks
\* the follower threw away as received.
MatchBeyondSnapshotHeld ==
    \A i \in (lead.snap + 1)..match : i \in foll.held \ foll.bad \/ i <= foll.commit

\* A follower that is behind the leader's snapshot does not stay behind it while
\* the leader has log entries: the snapshot reaches it.
BehindIsBrought ==
    ~<>[](lead.first <= lead.last /\ foll.commit < lead.snap)
=============================================================================
