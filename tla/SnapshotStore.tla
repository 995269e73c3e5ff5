---------------------------- MODULE SnapshotStore ----------------------------
(***************************************************************************)
(* FileSnapshotStore (pkg/storage/snapshot.go): snapshots written through  *)
(* a sink, made visible by two renames, listed newest first and pruned to  *)
(* retainCount; the process may die between any two steps.                 *)
(*                                                                         *)
(* A snapshot is known by its log index.  Two goroutines write snapshots:  *)
(* "run" takes them of the local state machine, "rpc" writes those a       *)
(* leader sends.  Directory changes that were not fsynced survive a crash  *)
(* up to some point of their order.                                        *)
(***************************************************************************)
EXTENDS Naturals, Sequences, FiniteSets, SequencesExt, FiniteSetsExt

CONSTANTS
    RetainCount,
    MaxSnapIndex,   \* bound: the last index a snapshot is taken at
    MaxCreates,     \* bound: snapshots begun
    MaxFailures,    \* bound: sinks that meet an I/O error
    MaxSnapCrashes  \* bound: crashes

Writers == {"run", "rpc"}
Id == 1 .. MaxSnapIndex

VARIABLES
    snaps, metas,   \* the ids with a .snap and with a .meta file
    torn,           \* the .snap files whose data never reached the disk
    revealed,       \* the directories a crash can leave behind
    sink,           \* per writer: the snapshot it writes and how far it is
    list,           \* s.snapshots
    storeOpen,  \* whether the store is open
    closed,         \* history: the snapshots whose Close returned nil, in order
    taken,          \* history: the index of each writer's last snapshot
    again,          \* history: a snapshot was taken again at an index listed already
    creates, failures, snapCrashes

snapVars == <<snaps, metas, torn, revealed, sink, list, storeOpen, closed, taken, again,
              creates, failures, snapCrashes>>

Idle == [id |-> 0, at |-> "none"]

SnapInit ==
    /\ snaps = {} /\ metas = {} /\ torn = {}
    /\ revealed = {[snaps |-> {}, metas |-> {}]}
    /\ sink = [w \in Writers |-> Idle]
    /\ list = << >> /\ storeOpen = TRUE
    /\ closed = << >> /\ taken = [w \in Writers |-> 0] /\ again = FALSE
    /\ creates = 0 /\ failures = 0 /\ snapCrashes = 0

\* A change of the directory that no fsync has covered yet.
Directory(s, m) ==
    /\ snaps' = s /\ metas' = m
    /\ revealed' = revealed \cup {[snaps |-> s, metas |-> m]}

At(w, step) == storeOpen /\ sink[w].at = step
To(w, step) == sink' = [sink EXCEPT ![w].at = step]

\* Create.  The run goroutine snapshots at the applyIndex, which grows; a
\* leader's snapshot is taken only when it lies above that, and becomes it.
Create(w, i) ==
    /\ At(w, "none") /\ creates < MaxCreates
    /\ IF w = "run"
       THEN /\ i >= taken["run"]
            /\ IF sink["rpc"].at = "none" THEN i >= taken["rpc"] ELSE i < sink["rpc"].id
       ELSE \A v \in Writers : i > taken[v]
    /\ sink' = [sink EXCEPT ![w] = [id |-> i, at |-> "writing"]]
    /\ taken' = [taken EXCEPT !["run"] = IF w = "run" THEN i ELSE @]
    /\ again' = (again \/ i \in ToSet(list))
    /\ creates' = creates + 1
    /\ UNCHANGED <<snaps, metas, torn, revealed, list, storeOpen, closed, failures, snapCrashes>>

\* Write or Persist failed: Cancel removes the temporary file.
Cancel(w) ==
    /\ At(w, "writing") /\ failures < MaxFailures
    /\ sink' = [sink EXCEPT ![w] = Idle]
    /\ failures' = failures + 1
    /\ UNCHANGED <<snaps, metas, torn, revealed, list, storeOpen, closed, taken, again, creates,
                   snapCrashes>>

\* A step of Close fails and Close returns the error; what was done stays.
CloseFails(w) ==
    /\ storeOpen /\ sink[w].at \in {"synced", "described", "visible"} /\ failures < MaxFailures
    /\ sink' = [sink EXCEPT ![w] = Idle]
    /\ failures' = failures + 1
    /\ UNCHANGED <<snaps, metas, torn, revealed, list, storeOpen, closed, taken, again, creates,
                   snapCrashes>>

\* Close: the footer is written and the temporary file fsynced.
SyncData(w) ==
    /\ At(w, "writing")
    /\ To(w, "synced")
    /\ torn' = torn \ {sink[w].id}
    /\ UNCHANGED <<snaps, metas, revealed, list, storeOpen, closed, taken, again, creates,
                   failures, snapCrashes>>

\* Close: the sidecar is written, fsynced and renamed into place.
RenameMeta(w) ==
    /\ At(w, "synced")
    /\ Directory(snaps, metas \cup {sink[w].id})
    /\ To(w, "described")
    /\ UNCHANGED <<torn, list, storeOpen, closed, taken, again, creates, failures, snapCrashes>>

\* Close: the data file is renamed into place.
RenameData(w) ==
    /\ At(w, "described")
    /\ Directory(snaps \cup {sink[w].id}, metas)
    /\ To(w, "visible")
    /\ UNCHANGED <<torn, list, storeOpen, closed, taken, again, creates, failures, snapCrashes>>

\* Close: fsyncDir.
SyncDirectory(w) ==
    /\ At(w, "visible")
    /\ revealed' = {[snaps |-> snaps, metas |-> metas]}
    /\ To(w, "durable")
    /\ UNCHANGED <<snaps, metas, torn, list, storeOpen, closed, taken, again, creates, failures,
                   snapCrashes>>

\* Mutant of Sorted: the new snapshot stays at the end, as it was appended.
Appended(l) == l

\* sort.Slice: newest first.
Sorted(l) == SortSeq(l, LAMBDA a, b : a > b)

\* Close under the store's lock: the list, sorted, and pruned from its tail by
\* deleteLocked, which drops the first entry with the id and both its files.
ListAndPrune(w) ==
    LET all  == Sorted(Append(list, sink[w].id))
        kept == IF Len(all) > RetainCount THEN SubSeq(all, 1, RetainCount) ELSE all
        gone == ToSet(SubSeq(all, Len(kept) + 1, Len(all)))
    IN  /\ At(w, "durable")
        /\ list' = kept
        /\ IF gone = {} THEN UNCHANGED <<snaps, metas, revealed>>
           ELSE Directory(snaps \ gone, metas \ gone)
        /\ closed' = Append(closed, sink[w].id)
        /\ sink' = [sink EXCEPT ![w] = Idle]
        /\ taken' = [taken EXCEPT ![w] = sink[w].id]
        /\ UNCHANGED <<torn, storeOpen, again, creates, failures, snapCrashes>>

\* The process dies; the directory is any of those not fsynced away.
SnapCrash ==
    /\ storeOpen /\ snapCrashes < MaxSnapCrashes
    /\ \E d \in revealed : snaps' = d.snaps /\ metas' = d.metas /\ revealed' = {d}
    /\ storeOpen' = FALSE /\ list' = << >>
    /\ sink' = [w \in Writers |-> Idle]
    /\ snapCrashes' = snapCrashes + 1
    /\ UNCHANGED <<torn, closed, taken, again, creates, failures>>

\* NewFileSnapshotStore, loadSnapshots: every .snap is listed, by its sidecar
\* or, without one, by its name.  loadSnapshotState makes the newest the
\* applyIndex.
OpenStore ==
    /\ ~storeOpen
    /\ storeOpen' = TRUE
    /\ list' = Sorted(SetToSeq(snaps))
    /\ taken' = [w \in Writers |-> Max(snaps \cup {taken[w]})]
    /\ UNCHANGED <<snaps, metas, torn, revealed, sink, closed, again, creates, failures,
                   snapCrashes>>

SnapNext ==
    \/ \E w \in Writers :
        \/ \E i \in Id : Create(w, i)
        \/ Cancel(w)
        \/ CloseFails(w)
        \/ SyncData(w)
        \/ RenameMeta(w)
        \/ RenameData(w)
        \/ SyncDirectory(w)
        \/ ListAndPrune(w)
    \/ SnapCrash
    \/ OpenStore

SnapSpec == SnapInit /\ [][SnapNext]_snapVars

-----------------------------------------------------------------------------
\* A snapshot can be opened: its data is whole and its sidecar, which says so
\* and holds the configuration, is there.
Usable(i) == i \in snaps /\ i \in metas /\ i \notin torn

\* Whatever directory a crash leaves, a visible snapshot has its sidecar and all
\* its data: Close makes them durable before it renames the data file, and
\* deletion takes the data file away first.  (Unless a snapshot is written again
\* while the pruning of its first copy takes the new sidecar away.)
VisibleIsComplete == ~again => \A d \in revealed : d.snaps \subseteq d.metas \ torn

\* Once a Close has returned nil, the newest snapshot closed is usable, and
\* listed while the store is open, whatever the other writer does and whenever
\* the process dies, unless a snapshot was taken twice at one index.
NewestKept ==
    LET newest == Max(ToSet(closed))
    IN  closed # << >> /\ ~again =>
            Usable(newest) /\ (storeOpen => newest \in ToSet(list))

\* Whatever the two writers do and whenever the process dies, the newest snapshot
\* that was closed is there and loads, and nothing that is half written shows.
SnapshotsSurvive == NewestKept /\ VisibleIsComplete
=============================================================================
