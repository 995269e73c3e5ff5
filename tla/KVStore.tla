------------------------------- MODULE KVStore -------------------------------
(***************************************************************************)
(* The key-value state machine (pkg/fsm/kv.go, txn.go): what one replica   *)
(* does as commands are committed, and a second replica that applies the   *)
(* same commands later or receives a snapshot in their place.              *)
(*                                                                         *)
(* A command is a record; its client is NoClient when it carries no        *)
(* idempotency key and its stamp is the leader's clock, 0 when it has      *)
(* none.  A value is an integer of 0..MaxInt or NotInteger.  A time to     *)
(* live is one unit of the clock.                                          *)
(***************************************************************************)
EXTENDS Integers, Sequences, FiniteSets, SequencesExt, FiniteSetsExt, Functions

CONSTANTS
    Keys, KvClients, NoClient,
    Commands,        \* the commands clients and the tick loop propose
    MaxInt,          \* math.MaxInt64
    MaxRevision,     \* maxRevision
    MaxDedupEntries, \* maxDedupEntries
    HistorySize,     \* defaultHistorySize
    MaxCommands,     \* bound: commands committed
    MaxPending       \* bound: how far the second replica lags

NotInteger == -1
NoRecord == [val |-> NotInteger, create |-> 0, mod |-> 0, ver |-> 0, exp |-> 0]

VARIABLES
    kv,         \* the KVStore of the replica that applies first
    other,      \* the KVStore of the replica that follows
    unsent,     \* commands the second replica has not applied
    snap,       \* a snapshot of the first, with the commands applied since
    reply,      \* what the last Apply returned, and whether it mutated
    emitted,    \* history: every event emitted
    effect,     \* history: the result of each write that took effect, while
                \*   the client is among the last MaxDedupEntries to write
    recent,     \* history: the clients by their last write, latest first
    mortal,     \* history: the keys that ever had a time to live
    scan        \* a client that pages through the keys

kvHistory == <<emitted, effect, recent, mortal>>
kvVars == <<kv, other, unsent, snap, reply, kvHistory, scan>>

NoSnap == [taken |-> FALSE, state |-> << >>, since |-> << >>]
NoScan == [after |-> 0, got |-> << >>, stayed |-> {}, more |-> TRUE]
NoReply == [client |-> NoClient, seq |-> 0, ok |-> TRUE, rev |-> 0, mutated |-> FALSE]

\* NewKVStore.
NewKVStore ==
    [data |-> << >>, revision |-> 0, index |-> 0, clock |-> 0, dedup |-> << >>,
     history |-> << >>, historyPos |-> 0]

KvInit ==
    /\ kv = NewKVStore /\ other = NewKVStore
    /\ unsent = << >> /\ snap = NoSnap /\ reply = NoReply
    /\ emitted = << >> /\ effect = << >> /\ recent = << >> /\ mortal = {}
    /\ scan = NoScan

-----------------------------------------------------------------------------
(* Apply.  A branch yields the store, the events, and how it ended. *)

Present(s, k) == IF k \in DOMAIN s.data THEN s.data[k] ELSE NoRecord

\* isLive.
IsLive(s, r) == r # NoRecord /\ (r.exp = 0 \/ r.exp > s.clock)

Outcome(s, events, ok, mutated) ==
    [store |-> s, events |-> events, ok |-> ok, rev |-> s.revision, mutated |-> mutated]

Refused(s) == Outcome(s, << >>, FALSE, FALSE)
RevisionExhausted(s) == s.revision >= MaxRevision

PutEvent(k, r) == [type |-> "put", key |-> k, kv |-> r, rev |-> r.mod]
DeleteEvent(k, rev) == [type |-> "delete", key |-> k, kv |-> NoRecord, rev |-> rev]

\* The record a put stores at revision rev over what was there.
NextRecord(prev, val, exp, rev) ==
    [val |-> val, exp |-> exp, mod |-> rev,
     create |-> IF prev # NoRecord THEN prev.create ELSE rev,
     ver |-> prev.ver + 1]

\* applyPutLocked, and the event its callers emit.
ApplyPut(s, k, val, prev, exp) ==
    LET rev == s.revision + 1
        r   == NextRecord(prev, val, exp, rev)
    IN  Outcome([s EXCEPT !.revision = rev, !.data = (k :> r) @@ @],
                <<PutEvent(k, r)>>, TRUE, TRUE)

\* "set" and "put": what lies there counts as the previous record even when it
\* has expired.
ApplySetOrPut(s, c) ==
    IF RevisionExhausted(s) THEN Refused(s)
    ELSE ApplyPut(s, c.key, c.val, Present(s, c.key),
                  IF c.ttl THEN s.clock + 1 ELSE 0)

\* "delete".
ApplyDelete(s, c) ==
    IF ~IsLive(s, Present(s, c.key)) \/ RevisionExhausted(s) THEN Refused(s)
    ELSE LET rev == s.revision + 1
         IN  Outcome([s EXCEPT !.revision = rev, !.data = Restrict(@, DOMAIN @ \ {c.key})],
                     <<DeleteEvent(c.key, rev)>>, TRUE, TRUE)

\* "incr": an expired record is absent, and no longer the previous one.
ApplyIncr(s, c) ==
    LET at   == Present(s, c.key)
        prev == IF IsLive(s, at) THEN at ELSE NoRecord
        cur  == IF prev = NoRecord THEN 0 ELSE prev.val
    IN  IF \/ RevisionExhausted(s)
           \/ cur = NotInteger
           \/ cur + c.val > MaxInt
        THEN Refused(s)
        ELSE ApplyPut(s, c.key, cur + c.val, prev, 0)

\* Mutant of SweepExpired: the keys go and no event says so.
SweepSilently(s) ==
    LET expired == {k \in DOMAIN s.data : ~IsLive(s, s.data[k])}
    IN  IF expired = {} \/ RevisionExhausted(s) THEN Outcome(s, << >>, TRUE, FALSE)
        ELSE Outcome([s EXCEPT !.revision = @ + 1, !.data = Restrict(@, DOMAIN @ \ expired)],
                     << >>, TRUE, FALSE)

\* sweepExpiredLocked, on "tick": one revision for all the keys, in their order.
SweepExpired(s) ==
    LET expired == {k \in DOMAIN s.data : ~IsLive(s, s.data[k])}
        rev     == s.revision + 1
        order   == SetToSortSeq(expired, <)
    IN  IF expired = {} \/ RevisionExhausted(s) THEN Outcome(s, << >>, TRUE, FALSE)
        ELSE Outcome([s EXCEPT !.revision = rev, !.data = Restrict(@, DOMAIN @ \ expired)],
                     [i \in DOMAIN order |-> DeleteEvent(order[i], rev)], TRUE, FALSE)

\* evalCompare and compareInt64, for the targets a lock or a counter is built
\* from: the create revision is 0, or the value is one.
EvalCompare(s, cmp) ==
    LET r == IF IsLive(s, Present(s, cmp.key)) THEN Present(s, cmp.key) ELSE NoRecord
    IN  CASE cmp.target = "absent" -> r.create = 0
          [] cmp.target = "value"  -> r # NoRecord /\ r.val = cmp.val

\* One operation of a transaction, on the data and the events so far.
TxnStep(acc, op) ==
    LET prev == IF op.key \in DOMAIN acc.data THEN acc.data[op.key] ELSE NoRecord
        r    == NextRecord(prev, op.val, 0, acc.rev)
    IN  IF op.type = "put"
        THEN [acc EXCEPT !.data = (op.key :> r) @@ @, !.events = Append(@, PutEvent(op.key, r))]
        ELSE [acc EXCEPT !.data = Restrict(@, DOMAIN @ \ {op.key}),
                         !.events = Append(@, DeleteEvent(op.key, acc.rev))]

\* applyTxnLocked: compare, check every delete, then change all at one revision.
ApplyTxn(s, c) ==
    LET succeeded == \A i \in DOMAIN c.compare : EvalCompare(s, c.compare[i])
        ops == IF succeeded THEN c.success ELSE c.failure
        missing == \E i \in DOMAIN ops : ops[i].type = "delete" /\ ops[i].key \notin DOMAIN s.data
        start == [data |-> s.data, rev |-> s.revision + 1, events |-> << >>]
        done  == FoldLeft(TxnStep, start, ops)
    IN  CASE ops = << >> -> Outcome(s, << >>, succeeded, TRUE)
          [] ops # << >> /\ (RevisionExhausted(s) \/ missing) -> Outcome(s, << >>, FALSE, TRUE)
          [] OTHER -> Outcome([s EXCEPT !.data = done.data, !.revision = done.rev],
                              done.events, succeeded, TRUE)

\* "get", "get_v2", "list", "range": read through the log, nothing changes.
ApplyRead(s, c) == Outcome(s, << >>, IsLive(s, Present(s, c.key)), FALSE)

Branch(s, c) ==
    CASE c.op = "put"    -> ApplySetOrPut(s, c)
      [] c.op = "delete" -> ApplyDelete(s, c)
      [] c.op = "incr"   -> ApplyIncr(s, c)
      [] c.op = "tick"   -> SweepExpired(s)
      [] c.op = "txn"    -> ApplyTxn(s, c)
      [] c.op = "get"    -> ApplyRead(s, c)

\* emitEvents: the ring of the last HistorySize events.
Ring(s, ev) ==
    [s EXCEPT !.history = ((s.historyPos + 1) :> ev) @@ @,
              !.historyPos = (@ + 1) % HistorySize]

EmitEvents(s, events) == FoldLeft(Ring, s, events)

\* evictDedupIfNeeded: the client whose entry is oldest goes.
EvictDedup(d) ==
    IF Cardinality(DOMAIN d) <= MaxDedupEntries THEN d
    ELSE LET victim == CHOOSE c \in DOMAIN d : \A e \in DOMAIN d : d[c].order <= d[e].order
         IN  Restrict(d, DOMAIN d \ {victim})

\* Mutant of Clock: the leader's clock is taken as it is.
ClockOf(s, c) == IF c.stamp = 0 THEN s.clock ELSE c.stamp

\* applyTimeMs never regresses, whichever leader stamped the command.
Clock(s, c) == Max({s.clock, c.stamp})

\* Mutant of Duplicate: only the very same sequence number is a duplicate.
SameSeq(s, c) == c.client \in DOMAIN s.dedup /\ s.dedup[c.client].seq = c.seq

Duplicate(s, c) == c.client \in DOMAIN s.dedup /\ s.dedup[c.client].seq >= c.seq

\* The answer remembered for a client.
Cached(s, c) == [ok |-> s.dedup[c.client].ok, rev |-> s.dedup[c.client].rev]

\* Apply: count, advance the clock, answer a duplicate from the table, or run
\* the command, emit its events and remember the answer of a mutation.
Apply(s, c) ==
    LET at  == [s EXCEPT !.index = @ + 1, !.clock = Clock(s, c)]
        out == Branch(at, c)
        remember == out.mutated /\ c.client # NoClient
        entry == c.client :> [seq |-> c.seq, ok |-> out.ok, rev |-> out.rev, order |-> at.index]
    IN  IF Duplicate(s, c)
        THEN [store |-> at, events |-> << >>, mutated |-> FALSE] @@ Cached(s, c)
        ELSE [out EXCEPT !.store =
                LET emitting == EmitEvents(@, out.events)
                IN  IF remember THEN [emitting EXCEPT !.dedup = EvictDedup(entry @@ @)]
                    ELSE emitting]

-----------------------------------------------------------------------------
(* The replicas *)

\* A command is committed, and the first replica applies it.
ApplyCommand(c) ==
    LET res == Apply(kv, c)
        id  == <<c.client, c.seq>>
        wrote == res.mutated /\ c.client # NoClient
        writers == <<c.client>> \o SelectSeq(recent, LAMBDA d : d # c.client)
        remembered == {writers[i] : i \in 1 .. Min({Len(writers), MaxDedupEntries})}
        effects == (id :> [ok |-> res.ok, rev |-> res.rev]) @@ effect
    IN  /\ kv.index < MaxCommands /\ Len(unsent) < MaxPending
        /\ kv' = res.store
        /\ reply' = [client |-> c.client, seq |-> c.seq, ok |-> res.ok, rev |-> res.rev,
                     mutated |-> res.mutated]
        /\ unsent' = Append(unsent, c)
        /\ snap' = IF snap.taken THEN [snap EXCEPT !.since = Append(@, c)] ELSE snap
        /\ emitted' = emitted \o res.events
        /\ IF wrote
           THEN /\ recent' = writers
                /\ effect' = Restrict(effects, {e \in DOMAIN effects : e[1] \in remembered})
           ELSE UNCHANGED <<recent, effect>>
        /\ mortal' = IF c.op = "put" /\ c.ttl THEN mortal \cup {c.key} ELSE mortal
        /\ scan' = [scan EXCEPT !.stayed = @ \cap DOMAIN res.store.data]
        /\ UNCHANGED other

\* The second replica applies the next command.
ReplicaApplies ==
    /\ unsent # << >>
    /\ other' = Apply(other, Head(unsent)).store
    /\ unsent' = Tail(unsent)
    /\ UNCHANGED <<kv, snap, reply, kvHistory, scan>>

\* Snapshot: a copy of the replicated state, under the lock.
Snapshot ==
    /\ ~snap.taken
    /\ snap' = [taken |-> TRUE, since |-> << >>,
                state |-> [data |-> kv.data, revision |-> kv.revision, index |-> kv.index,
                           clock |-> kv.clock, dedup |-> kv.dedup]]
    /\ UNCHANGED <<kv, other, unsent, reply, kvHistory, scan>>

\* Mutant of Restored: the clock is left out, as in the first format.
RestoredWithoutClock(s) ==
    [data |-> s.data, revision |-> s.revision, index |-> s.index, clock |-> 0,
     dedup |-> s.dedup, history |-> << >>, historyPos |-> 0]

\* What writeSnapshotStream wrote, readSnapshotStream gives back; the history is
\* emptied.
Restored(s) ==
    [data |-> s.data, revision |-> s.revision, index |-> s.index, clock |-> s.clock,
     dedup |-> s.dedup, history |-> << >>, historyPos |-> 0]

\* Restore on the second replica, which was behind the snapshot.
Restore ==
    /\ snap.taken /\ other.index <= snap.state.index
    /\ other' = Restored(snap.state)
    /\ unsent' = snap.since
    /\ snap' = NoSnap
    /\ UNCHANGED <<kv, reply, kvHistory, scan>>

-----------------------------------------------------------------------------
(* Public reads *)

\* GetHistory: the ring from its oldest entry, filtered by revision.
GetHistory(s, since) ==
    LET n     == Cardinality(DOMAIN s.history)
        start == (s.historyPos - n + HistorySize) % HistorySize
        ring  == [i \in 1 .. n |-> s.history[((start + i - 1) % HistorySize) + 1]]
    IN  SelectSeq(ring, LAMBDA e : e.rev > since)

\* Mutant of RangePage: the cursor is inclusive.
RangePageFrom(s, after, limit) ==
    LET keys == SetToSortSeq({k \in DOMAIN s.data : k >= after}, <)
    IN  [page |-> SubSeq(keys, 1, Min({limit, Len(keys)})), more |-> Len(keys) > limit]

\* RangePage over all keys: at most limit after the cursor, and whether more remain.
RangePage(s, after, limit) ==
    LET keys == SetToSortSeq({k \in DOMAIN s.data : k > after}, <)
    IN  [page |-> SubSeq(keys, 1, Min({limit, Len(keys)})), more |-> Len(keys) > limit]

\* A client asks for the next page, passing the last key it was given.
NextPage(limit) ==
    LET r == RangePage(kv, scan.after, limit)
    IN  /\ scan.more
        /\ scan' = [after  |-> IF r.page = << >> THEN scan.after ELSE Last(r.page),
                    got    |-> scan.got \o r.page,
                    stayed |-> IF scan.got = << >> THEN DOMAIN kv.data ELSE scan.stayed,
                    more   |-> r.more]
        /\ UNCHANGED <<kv, other, unsent, snap, reply, kvHistory>>

-----------------------------------------------------------------------------
KvNext ==
    \/ \E c \in Commands : ApplyCommand(c)
    \/ ReplicaApplies
    \/ Snapshot
    \/ Restore
    \/ NextPage(1)

KvSpec == KvInit /\ [][KvNext]_kvVars

-----------------------------------------------------------------------------
Replicated(s) == [data |-> s.data, revision |-> s.revision, index |-> s.index,
                  clock |-> s.clock, dedup |-> s.dedup]

\* Two replicas that have applied the same commands hold the same data,
\* revision, index, clock and answers for retries, even when one of them
\* received a snapshot in place of some of the commands.
ReplicasAgree == unsent = << >> => Replicated(kv) = Replicated(other)

\* The events say everything: applying them in order to an empty store gives the
\* keys and records of this one (puts, deletes, transactions, expiry); and a key
\* that never had a time to live counts its puts since it was last deleted.
EventsRebuildStore ==
    LET last(k) == {i \in DOMAIN emitted : emitted[i].key = k}
        gone(k) == {i \in last(k) : emitted[i].type = "delete"}
        puts(k) == {i \in last(k) : \A j \in gone(k) : i > j}
    IN  /\ DOMAIN kv.data = {k \in Keys : puts(k) # {}}
        /\ \A k \in DOMAIN kv.data :
            /\ kv.data[k] = emitted[Max(last(k))].kv
            /\ k \notin mortal =>
                /\ kv.data[k].ver = Cardinality(puts(k))
                /\ kv.data[k].create = emitted[Min(puts(k))].rev

\* A watcher that resumes from a revision is given exactly the events after it,
\* in order, as long as they are among the last HistorySize.
HistoryResumes ==
    \A since \in 0 .. kv.revision :
        LET after == SelectSeq(emitted, LAMBDA e : e.rev > since)
            n == Len(after)
        IN  GetHistory(kv, since) = SubSeq(after, Max({1, n - HistorySize + 1}), n)

\* A client that pages through the keys, while they change, is given no key
\* twice, and in the end every key that was there all along.
PagesCoverKeys ==
    /\ IsInjective(scan.got)
    /\ ~scan.more => scan.stayed \subseteq ToSet(scan.got)

\* The events tell all that happens to the store, and the history hands them to a
\* watcher that comes back.
EventsTellAll == EventsRebuildStore /\ HistoryResumes

\* However often and however late a write is retried, it does not take effect
\* again, and a retry of the client's latest write is answered as the write was,
\* as long as the client stays among the last MaxDedupEntries clients to write.
ExactlyOnce ==
    [][ LET id == <<reply'.client, reply'.seq>>
        IN  (kv'.index # kv.index /\ id \in DOMAIN effect) =>
                /\ ~reply'.mutated
                /\ (\A e \in DOMAIN effect : e[1] = id[1] => e[2] <= id[2]) =>
                        effect[id] = [ok |-> reply'.ok, rev |-> reply'.rev] ]_kvVars

\* A key that has expired stays so until it is written: neither an old leader's
\* clock nor a snapshot brings it back.
ExpiredStaysExpired ==
    [][ \A s \in {<<kv, kv'>>, <<other, other'>>} :
            \A k \in DOMAIN s[1].data \cap DOMAIN s[2].data :
                s[2].data[k] = s[1].data[k] /\ ~IsLive(s[1], s[1].data[k])
                    => ~IsLive(s[2], s[2].data[k]) ]_kvVars
=============================================================================
