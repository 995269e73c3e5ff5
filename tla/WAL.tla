--------------------------------- MODULE WAL ---------------------------------
(***************************************************************************)
(* The segmented write-ahead log (pkg/storage/wal.go): appending with      *)
(* group commit, rotation, deletion of ranges, and what NewWAL recovers    *)
(* after the process or the machine dies at any point.                     *)
(*                                                                         *)
(* A segment file is a sequence of records; segmentSize counts records.    *)
(* A record that was not written in full has index 0: its term says        *)
(* whether it breaks off in the header (0) or after it (1).  The caller    *)
(* is raft.go: it appends at its own lastIndex + 1, deletes above what is  *)
(* committed, compacts below it, and stops appending after an error.       *)
(*                                                                         *)
(* File system: what a file holds is durable when the file was fsynced; a  *)
(* created or removed segment is when the call returns.  The code fsyncs   *)
(* the directory after each of those but one (the removal of an emptied    *)
(* current segment), which is taken to be ordered before later changes.    *)
(***************************************************************************)
EXTENDS Naturals, Sequences, FiniteSets, SequencesExt, FiniteSetsExt, Functions

CONSTANTS
    Appenders,      \* goroutines that call Append
    SegmentSize,    \* records a segment holds before it is rotated
    MaxWrites,      \* bound: batches written before a crash, one less after it
    MaxIndex,       \* bound: the last index written
    MaxWalTerm,     \* bound: the last term written
    MaxWalErrors,   \* bound: writes and fsyncs that fail
    MaxWalCrashes   \* bound: times the machine dies

VARIABLES
    status,         \* "up", "down", or "refused": NewWAL returned an error
    files,          \* the segment files by baseIndex, as the process sees them
    durable,        \* what of each file an fsync has covered
    index,          \* logIndex.indexes: the segment and position of an entry
    pc,             \* where each appender is in Append and groupSync
    mine,           \* the entry and write sequence number of its batch
    seg,            \* the segment it is about to fsync, and what that covers
    writeSeq, syncedSeq, syncing,
    lastIndex,      \* the caller's r.lastIndex
    compacted,      \* the caller's last snapshot
    halted,         \* the caller met an error
    acked,          \* entries whose Append returned nil and that were not deleted
    walErrors, walCrashes

NoBatch == [index |-> 0, term |-> 0, seq |-> 0]
NoSegment == [base |-> 0, target |-> 0]

memory == <<index, pc, mine, seg, writeSeq, syncedSeq, syncing, halted>>
caller == <<lastIndex, compacted, acked>>
walVars == <<status, files, durable, memory, caller, walErrors, walCrashes>>

TornHeader == [index |-> 0, term |-> 0]
TornBody   == [index |-> 0, term |-> 1]
IsTorn(r) == r.index = 0

\* currentSegment: the last of w.segments, which are in ascending order.
Current == Max(DOMAIN files)

\* w.lastIndex.
LastOf(ix) == Max(DOMAIN ix \cup {0})

WalInit ==
    /\ status = "up"
    /\ files = 0 :> << >> /\ durable = files
    /\ index = << >>
    /\ pc = [t \in Appenders |-> "idle"]
    /\ mine = [t \in Appenders |-> NoBatch]
    /\ seg = [t \in Appenders |-> NoSegment]
    /\ writeSeq = 0 /\ syncedSeq = 0 /\ syncing = FALSE
    /\ lastIndex = 0 /\ compacted = 0 /\ halted = FALSE
    /\ acked = << >>
    /\ walErrors = 0 /\ walCrashes = 0

-----------------------------------------------------------------------------
(* Append and groupSync *)

\* createNewSegment: an empty file, its directory entry fsynced.
NewSegment(base) == base :> << >>

\* Mutant of RotateSegment: the full segment is not fsynced.
RotateUnsynced(fs, base) ==
    /\ files' = fs @@ NewSegment(base)
    /\ durable' = durable @@ NewSegment(base)

\* rotateSegment: the full segment is fsynced first.
RotateSegment(fs, base) ==
    /\ files' = fs @@ NewSegment(base)
    /\ durable' = (Current :> fs[Current]) @@ durable @@ NewSegment(base)

\* logIndex.addEntry: the last entry of the current segment.
AddEntry(i, fs) == (i :> [base |-> Current, pos |-> Len(fs[Current])]) @@ index

\* appendEntry: the record goes behind whatever the file holds.
AppendEntry(i, t) ==
    LET fs == [files EXCEPT ![Current] = Append(@, [index |-> i, term |-> t])]
    IN  /\ index' = AddEntry(i, fs)
        /\ IF Len(fs[Current]) >= SegmentSize
           THEN RotateSegment(fs, i + 1)
           ELSE files' = fs /\ UNCHANGED durable

\* Append up to the release of w.mu: a batch of one entry.
Append1(t, k) ==
    /\ status = "up" /\ ~halted /\ pc[t] = "idle"
    /\ lastIndex < MaxIndex /\ writeSeq + walCrashes < MaxWrites
    /\ \A i \in DOMAIN acked : acked[i] <= k
    /\ AppendEntry(lastIndex + 1, k)
    /\ lastIndex' = lastIndex + 1
    /\ writeSeq' = writeSeq + 1
    /\ mine' = [mine EXCEPT ![t] = [index |-> lastIndex + 1, term |-> k, seq |-> writeSeq']]
    /\ pc' = [pc EXCEPT ![t] = "check"]
    /\ UNCHANGED <<status, seg, syncedSeq, syncing, compacted, halted, acked, walErrors,
                   walCrashes>>

\* writeRecordFull fails: part of the record is in the file, Append returns
\* the error.
AppendFails(t) ==
    /\ status = "up" /\ ~halted /\ pc[t] = "idle"
    /\ walErrors < MaxWalErrors
    /\ \E part \in {<< >>, <<TornHeader>>, <<TornBody>>} :
        files' = [files EXCEPT ![Current] = @ \o part]
    /\ halted' = TRUE
    /\ walErrors' = walErrors + 1
    /\ UNCHANGED <<status, durable, index, pc, mine, seg, writeSeq, syncedSeq, syncing,
                   caller, walCrashes>>

\* groupSync, its loop: the batch is covered, or an fsync is running and may
\* cover it, or this goroutine runs the next one.
GroupSync(t) ==
    /\ status = "up" /\ pc[t] = "check"
    /\ \/ /\ syncedSeq >= mine[t].seq
          /\ pc' = [pc EXCEPT ![t] = "idle"]
          /\ acked' = (mine[t].index :> mine[t].term) @@ acked
          /\ mine' = [mine EXCEPT ![t] = NoBatch]
          /\ UNCHANGED <<seg, syncing>>
       \/ /\ syncedSeq < mine[t].seq /\ syncing
          /\ pc' = [pc EXCEPT ![t] = "wait"]
          /\ UNCHANGED <<seg, syncing, acked, mine>>
       \/ /\ syncedSeq < mine[t].seq /\ ~syncing
          /\ syncing' = TRUE
          /\ seg' = [seg EXCEPT ![t].target = writeSeq]
          /\ pc' = [pc EXCEPT ![t] = "pick"]
          /\ UNCHANGED <<acked, mine>>
    /\ UNCHANGED <<status, files, durable, index, writeSeq, syncedSeq, halted,
                   lastIndex, compacted, walErrors, walCrashes>>

\* fsyncCurrent reads currentSegment under the read lock and lets go of it.
PickSegment(t) ==
    /\ status = "up" /\ pc[t] = "pick"
    /\ seg' = [seg EXCEPT ![t].base = Current]
    /\ pc' = [pc EXCEPT ![t] = "sync"]
    /\ UNCHANGED <<status, files, durable, index, mine, writeSeq, syncedSeq, syncing,
                   halted, caller, walErrors, walCrashes>>

\* Mutant of Woken: only a successful fsync wakes the others.
WokenBySuccess(t, ok) == [u \in Appenders |-> IF u = t THEN "idle"
                                              ELSE IF ok /\ pc[u] = "wait" THEN "check" ELSE pc[u]]

\* syncCond.Broadcast.
Woken(t, ok) == [u \in Appenders |-> IF u = t THEN "idle"
                                     ELSE IF pc[u] = "wait" THEN "check" ELSE pc[u]]

\* What the fsync covers: the batches written before it was begun.
Covered(t) == seg[t].target

\* groupSync after fsyncCurrent.  The fsync of a segment that was closed since
\* fails, as does one that meets an I/O error.
FinishSync(t) ==
    LET base == seg[t].base
    IN  /\ status = "up" /\ pc[t] = "sync"
        /\ \/ /\ base \in DOMAIN files
              /\ durable' = [durable EXCEPT ![base] = files[base]]
              /\ syncedSeq' = Max({syncedSeq, Covered(t)})
              /\ acked' = (mine[t].index :> mine[t].term) @@ acked
              /\ pc' = Woken(t, TRUE)
              /\ UNCHANGED <<halted, walErrors>>
           \/ /\ base \in DOMAIN files => walErrors < MaxWalErrors
              /\ walErrors' = IF base \in DOMAIN files THEN walErrors + 1 ELSE walErrors
              /\ halted' = TRUE
              /\ pc' = Woken(t, FALSE)
              /\ UNCHANGED <<durable, syncedSeq, acked>>
        /\ syncing' = FALSE
        /\ mine' = [mine EXCEPT ![t] = NoBatch]
        /\ seg' = [seg EXCEPT ![t] = NoSegment]
        /\ UNCHANGED <<status, files, index, writeSeq, lastIndex, compacted, walCrashes>>
-----------------------------------------------------------------------------
(* DeleteRange *)

Entries(base) == {i \in DOMAIN index : index[i].base = base}

\* segmentEntryCount, which counts the entries of later segments too.
EntryCount(base) == Cardinality({i \in DOMAIN index : i >= base})

\* The segments deleteRangeLocked looks at.
InRange(base, min, max) == base <= max /\ base + EntryCount(base) >= min

\* segmentIndexBounds: the files that hold no entry outside the range.
Removable(min, max) ==
    {b \in DOMAIN files \ {Current} : InRange(b, min, max) /\ Entries(b) \subseteq min .. max}

\* truncateCurrentSegmentAt, for a range that reaches the end of the log.
TruncateCurrent(min, max) ==
    LET cut == {index[i].pos : i \in {j \in Entries(Current) : j >= min}}
    IN  IF InRange(Current, min, max) /\ max >= LastOf(index) /\ cut # {}
        THEN [files EXCEPT ![Current] = SubSeq(@, 1, Min(cut) - 1)]
        ELSE files

\* The loop over the segments, from the last to the first, up to the removal of
\* those in gone.  Each removal is followed by an fsync of the directory.
RemoveSegments(min, max, gone) ==
    /\ files' = Restrict(TruncateCurrent(min, max), DOMAIN files \ gone)
    /\ durable' = Restrict(durable, DOMAIN files')

\* deleteRangeLocked.  A current segment left empty is removed; with no segment
\* left a new one is made.
DeleteRange(min, max) ==
    LET kept  == Restrict(index, DOMAIN index \ (min .. max))
        trunc == Restrict(TruncateCurrent(min, max), DOMAIN files \ Removable(min, max))
        left  == IF LastOf(kept) < Current
                 THEN Restrict(trunc, DOMAIN trunc \ {Current}) ELSE trunc
    IN  /\ index' = kept
        /\ files' = IF left = << >> THEN NewSegment(LastOf(kept) + 1) ELSE left
        /\ durable' = IF left = << >> THEN files' ELSE Restrict(durable, DOMAIN left)

\* truncateLog: entries above i, none of them committed, leave the log.  The
\* caller's lock keeps Append out.
Truncate(i) ==
    /\ status = "up" /\ \A t \in Appenders : pc[t] = "idle"
    /\ i >= compacted /\ i < lastIndex
    /\ DeleteRange(i + 1, lastIndex + 1)
    /\ lastIndex' = i
    /\ acked' = Restrict(acked, {j \in DOMAIN acked : j <= i})
    /\ UNCHANGED <<status, pc, mine, seg, writeSeq, syncedSeq, syncing, compacted, halted,
                   walErrors, walCrashes>>

\* Compact(i) after a snapshot at i: firstIndexLocked is the first base.  It
\* runs beside Append.
Compact(i) ==
    /\ status = "up"
    /\ i > compacted /\ i \in DOMAIN acked
    /\ IF i >= Min(DOMAIN files)
       THEN DeleteRange(Min(DOMAIN files), i)
       ELSE UNCHANGED <<files, durable, index>>
    /\ compacted' = i
    /\ UNCHANGED <<status, pc, mine, seg, writeSeq, syncedSeq, syncing, lastIndex, halted,
                   acked, walErrors, walCrashes>>

-----------------------------------------------------------------------------
(* Crash and NewWAL *)

Die ==
    /\ status' = "down"
    /\ index' = << >>
    /\ pc' = [t \in Appenders |-> "idle"]
    /\ mine' = [t \in Appenders |-> NoBatch]
    /\ seg' = [t \in Appenders |-> NoSegment]
    /\ writeSeq' = 0 /\ syncedSeq' = 0 /\ syncing' = FALSE /\ halted' = FALSE
    /\ walCrashes' = walCrashes + 1

WalCrash ==
    /\ status = "up" /\ walCrashes < MaxWalCrashes
    /\ Die
    /\ UNCHANGED <<files, durable, caller, walErrors>>

\* The machine dies inside a compaction, some of the segments removed: the
\* later ones go first.
CrashInCompact(i) ==
    /\ status = "up" /\ walCrashes < MaxWalCrashes
    /\ i > compacted /\ i \in DOMAIN acked /\ i >= Min(DOMAIN files)
    /\ \E b \in Removable(Min(DOMAIN files), i) :
        RemoveSegments(Min(DOMAIN files), i, {c \in Removable(Min(DOMAIN files), i) : c >= b})
    /\ compacted' = i
    /\ Die
    /\ UNCHANGED <<lastIndex, acked, walErrors>>

\* What a file can hold after the crash: what was fsynced, or any later content
\* on the way to what was written, the last record torn or not.
Survivors(b) ==
    LET now  == files[b]
        same == Cardinality({k \in 1 .. Min({Len(now), Len(durable[b])}) :
                              \A j \in 1 .. k : now[j] = durable[b][j]})
    IN  {durable[b]}
        \cup {SubSeq(now, 1, k) : k \in same .. Len(now)}
        \cup {Append(SubSeq(now, 1, k), torn) :
                 k \in same .. (Len(now) - 1), torn \in {TornHeader, TornBody}}

\* nextRecord until it fails: the records of a file before the first torn one.
Readable(f) == {p \in 1 .. Len(f) : \A q \in 1 .. p : ~IsTorn(f[q])}

\* nextRecord reports a file that ends inside a record header as its end.
Corrupt(f) ==
    \E p \in 1 .. Len(f) : IsTorn(f[p]) /\ ~(p = Len(f) /\ f[p] = TornHeader)

\* probeForwardHasValidRecord: a whole record behind the first torn one.
MidSegmentCorruption(f) ==
    \E p \in 1 .. Len(f) : ~IsTorn(f[p]) /\ p \notin Readable(f)

\* rebuildIndex cuts the torn tail of the last segment.
Repaired(fs) ==
    [fs EXCEPT ![Max(DOMAIN fs)] = IF Corrupt(@) THEN SubSeq(@, 1, Cardinality(Readable(@))) ELSE @]

\* rebuildIndex over the segments in order: a later record replaces an earlier.
Rebuild(fs) ==
    LET at(i) == {<<b, p>> \in UNION {{b} \X Readable(fs[b]) : b \in DOMAIN fs} : fs[b][p].index = i}
        last(i) == LET b == Max({x[1] : x \in at(i)})
                   IN  [base |-> b, pos |-> Max({x[2] : x \in {y \in at(i) : y[1] = b}})]
    IN  [i \in {j \in 1 .. MaxIndex : at(j) # {}} |-> last(i)]

\* segmentByBaseIndex, upperBoundForSegment: i lies between the base of a segment
\* and the next one's.
Owns(fs, b, i) == b \in DOMAIN fs /\ b <= i /\ \A c \in DOMAIN fs : c > b => i < c

\* getEntry: the segment the index names must own i.
Found(ix, fs, i) == i \in DOMAIN ix /\ Owns(fs, ix[i].base, i)

\* NewWAL, openSegments.  The caller's lastIndex is the WAL's or its snapshot's.
NewWAL(fs) ==
    LET refused == \/ \E b \in DOMAIN fs \ {Max(DOMAIN fs)} : Corrupt(fs[b])
                   \/ Corrupt(fs[Max(DOMAIN fs)]) /\ MidSegmentCorruption(fs[Max(DOMAIN fs)])
        ix == Rebuild(fs)
    IN  IF refused \/ (ix # << >> /\ ~Found(ix, fs, LastOf(ix)))
        THEN /\ status' = "refused"
             /\ files' = fs /\ index' = << >>
             /\ UNCHANGED lastIndex
        ELSE /\ status' = "up"
             /\ files' = Repaired(fs)
             /\ index' = ix
             /\ lastIndex' = Max({LastOf(ix), compacted})

WalRestart ==
    /\ status = "down"
    /\ \E fs \in {f \in [DOMAIN files -> UNION {Survivors(b) : b \in DOMAIN files}] :
                  \A b \in DOMAIN files : f[b] \in Survivors(b)} :
        NewWAL(fs) /\ durable' = fs
    /\ UNCHANGED <<pc, mine, seg, writeSeq, syncedSeq, syncing, halted, compacted, acked,
                   walErrors, walCrashes>>

WalNext ==
    \/ \E t \in Appenders :
        \/ \E k \in 1 .. MaxWalTerm : Append1(t, k)
        \/ AppendFails(t)
        \/ GroupSync(t)
        \/ PickSegment(t)
        \/ FinishSync(t)
    \/ \E i \in 0 .. MaxIndex : Truncate(i) \/ Compact(i) \/ CrashInCompact(i)
    \/ WalCrash
    \/ WalRestart

\* The goroutines inside Append keep running.
WalFairness ==
    \A t \in Appenders : WF_walVars(GroupSync(t) \/ PickSegment(t) \/ FinishSync(t))

WalSpec == WalInit /\ [][WalNext]_walVars /\ WalFairness

-----------------------------------------------------------------------------
\* An entry whose Append returned nil, and that was neither truncated nor
\* compacted since, is served by Get with the term it was appended with, now and
\* after every crash from which NewWAL recovers: group commit acknowledges no
\* batch its fsync does not cover, rotation leaves no unsynced segment behind,
\* and deletions and repairs take no live entry with them.
AckedServed ==
    status = "up" =>
        \A i \in DOMAIN acked : i > compacted =>
            /\ Found(index, files, i)
            /\ index[i].pos <= Len(files[index[i].base])
            /\ files[index[i].base][index[i].pos] = [index |-> i, term |-> acked[i]]

\* Every Append returns: a goroutine that waits for another's fsync is woken
\* whether that fsync succeeds or fails.
AppendReturns == \A t \in Appenders : pc[t] # "idle" ~> pc[t] = "idle"
=============================================================================
