-------------------------------- MODULE Shards --------------------------------
(***************************************************************************)
(* pkg/multiraft: key ranges, each with a Raft group of its own, the       *)
(* router that finds a key's group, the scan that asks every group a       *)
(* prefix may touch, and how the groups are built, started and stopped.  A *)
(* group is the set of keys its store holds and what it keeps open.        *)
(***************************************************************************)
EXTENDS Naturals, Sequences, FiniteSets, FiniteSetsExt, SequencesExt, Functions, ByteStrings

CONSTANTS
    ShardConfigs,   \* configurations: sequences of [start, end], the id is the position
    ShardKeys,      \* the keys clients use
    ScanPrefixes    \* the prefixes clients scan

VARIABLES
    cfgs,       \* the configuration
    router,     \* RangeRouter.entries; << >> when the configuration is refused
    phase,      \* per group: "none", "new", "running", "stopped"
    open,       \* per group: what newGroupState opened and nobody closed
    starting,   \* New and Start: "building", "refused", "before", "during", "up",
                \* "failed", "stopped"
    shard,      \* per group: the keys in its store
    scan,       \* the Range call in progress, or the last one
    touched     \* history: the keys written since that call began

shardVars == <<cfgs, router, phase, open, starting, shard, scan, touched>>

NoScanYet == [at |-> "none", prefix |-> <<>>, ask |-> {}, merged |-> <<>>, held |-> {}]

-----------------------------------------------------------------------------
(* The router                                                              *)

Entries(c) == {[start |-> c[g].start, end |-> c[g].end, id |-> g] : g \in DOMAIN c}

\* The orders sort.Slice may leave the entries in: equal starts come in any order.
SortedEntries(c) ==
    {e \in SetToSeqs(Entries(c)) : \A i \in 1..(Len(e) - 1) : ~Less(e[i + 1].start, e[i].start)}

\* The validation of NewRangeRouter, between neighbours.
Accepted(e) == \A i \in 1..(Len(e) - 1) : e[i].end # <<>> /\ ~Less(e[i + 1].start, e[i].end)

\* GroupIDFor: the last entry that starts at the key or before, if the key is below its
\* end; 0 when there is none.
GroupIDFor(e, key) ==
    LET starts == {i \in DOMAIN e : ~Less(key, e[i].start)}
        last   == e[Max(starts)]
    IN  IF starts = {} THEN 0
        ELSE IF last.end # <<>> /\ ~Less(key, last.end) THEN 0 ELSE last.id

\* Mutant of GroupsForPrefix: a group that starts inside the prefix is left out.
GroupsFromPrefix(e, prefix) ==
    {x.id : x \in {y \in Range(e) : /\ y.end = <<>> \/ Less(prefix, y.end)
                                    /\ ~Less(prefix, y.start)}}

\* GroupsForPrefix.
GroupsForPrefix(e, prefix) ==
    {x.id : x \in {y \in Range(e) : /\ y.end = <<>> \/ Less(prefix, y.end)
                                    /\ ~Less(prefix, y.start) \/ IsPrefix(prefix, y.start)}}

\* New: the router is built first, and nothing else is when it refuses.
ShardInit ==
    /\ cfgs \in ShardConfigs
    /\ \E e \in SortedEntries(cfgs) : router = IF Accepted(e) THEN e ELSE <<>>
    /\ phase = [g \in DOMAIN cfgs |-> "none"]
    /\ open = [g \in DOMAIN cfgs |-> {}]
    /\ starting = IF router = <<>> THEN "refused" ELSE "building"
    /\ shard = [g \in DOMAIN cfgs |-> {}]
    /\ scan = NoScanYet /\ touched = {}

-----------------------------------------------------------------------------
(* Building, starting and stopping the groups                              *)

\* The next group New builds.
IsNext(g) == starting = "building" /\ g = Min({h \in DOMAIN cfgs : phase[h] = "none"})

\* newGroupState: the stores are opened, the transport listens.
NewGroupState(g) ==
    /\ IsNext(g)
    /\ phase' = [phase EXCEPT ![g] = "new"]
    /\ open' = [open EXCEPT ![g] = {"wal", "stable", "transport"}]
    /\ starting' = IF g = Len(cfgs) THEN "before" ELSE "building"
    /\ UNCHANGED <<cfgs, router, shard, scan, touched>>

\* What is left open when newGroupState fails: every step closes what the ones before it
\* opened, but not the search of the local node among the members.
LeftOpen(step) == IF step = "members" THEN {"wal", "stable"} ELSE {}

\* Mutant of StoppedGroups: New cleans up nothing.
StoppedNone(gs) == open

\* GroupState.Stop of some groups: it closes the transport.
StoppedGroups(gs) == [g \in DOMAIN cfgs |-> IF g \in gs THEN open[g] \ {"transport"} ELSE open[g]]

\* New gives up, and stops the groups it has built.
NewGroupFails(g) ==
    /\ IsNext(g)
    /\ \E step \in {"wal", "stable", "snapshots", "members", "transport", "raft"} :
           open' = [StoppedGroups({h \in DOMAIN cfgs : phase[h] = "new"}) EXCEPT ![g] = LeftOpen(step)]
    /\ phase' = [h \in DOMAIN cfgs |-> IF phase[h] = "new" THEN "stopped" ELSE phase[h]]
    /\ starting' = "refused"
    /\ UNCHANGED <<cfgs, router, shard, scan, touched>>

\* Start takes the groups in the order of a Go map.
StartGroup(g) ==
    /\ starting \in {"before", "during"} /\ phase[g] = "new"
    /\ phase' = [phase EXCEPT ![g] = "running"]
    /\ starting' = IF \E h \in DOMAIN cfgs \ {g} : phase[h] = "new" THEN "during" ELSE "up"
    /\ UNCHANGED <<cfgs, router, open, shard, scan, touched>>

\* A group does not start: those started before it are stopped, the others left as they are.
StartFails(g) ==
    /\ starting \in {"before", "during"} /\ phase[g] = "new"
    /\ open' = StoppedGroups({h \in DOMAIN cfgs : phase[h] = "running"})
    /\ phase' = [h \in DOMAIN cfgs |-> IF phase[h] = "running" THEN "stopped" ELSE phase[h]]
    /\ starting' = "failed"
    /\ UNCHANGED <<cfgs, router, shard, scan, touched>>

\* Stop, of every group at once.
StopAll ==
    /\ starting \in {"up", "failed"}
    /\ open' = StoppedGroups(DOMAIN cfgs)
    /\ phase' = [g \in DOMAIN cfgs |-> "stopped"]
    /\ starting' = "stopped"
    /\ UNCHANGED <<cfgs, router, shard, scan, touched>>

-----------------------------------------------------------------------------
(* Requests                                                                *)

\* Apply: a put or a delete goes to the group of its key; Raft takes it while it runs.
ApplyTo(key) ==
    LET g == GroupIDFor(router, key)
    IN  /\ g # 0 /\ phase[g] = "running"
        /\ shard' = [shard EXCEPT ![g] = IF key \in @ THEN @ \ {key} ELSE @ \union {key}]
        /\ touched' = touched \union {key}
        /\ UNCHANGED <<cfgs, router, phase, open, starting, scan>>

\* Range asks the groups of the prefix.
BeginScan(prefix) ==
    /\ starting \notin {"building", "refused"} /\ scan.at # "asking"
    /\ scan' = [at |-> "asking", prefix |-> prefix, ask |-> GroupsForPrefix(router, prefix),
                merged |-> <<>>, held |-> UNION Range(shard)]
    /\ touched' = {}
    /\ UNCHANGED <<cfgs, router, phase, open, starting, shard>>

\* One group's goroutine scans its store; results are merged as they come.
ShardAnswers(g) ==
    /\ scan.at = "asking" /\ g \in scan.ask
    /\ scan' = [scan EXCEPT !.ask = @ \ {g},
                   !.merged = @ \o SetToSeq({k \in shard[g] : IsPrefix(scan.prefix, k)})]
    /\ UNCHANGED <<cfgs, router, phase, open, starting, shard, touched>>

\* The merged keys are sorted.
EndScan ==
    /\ scan.at = "asking" /\ scan.ask = {}
    /\ scan' = [scan EXCEPT !.at = "done", !.merged = SortSeq(@, Less)]
    /\ UNCHANGED <<cfgs, router, phase, open, starting, shard, touched>>

ShardNext ==
    \/ \E g \in DOMAIN cfgs : \/ NewGroupState(g) \/ NewGroupFails(g)
                             \/ StartGroup(g) \/ StartFails(g)
                             \/ ShardAnswers(g)
    \/ StopAll
    \/ \E k \in ShardKeys : ApplyTo(k)
    \/ \E p \in ScanPrefixes : BeginScan(p)
    \/ EndScan

ShardSpec == ShardInit /\ [][ShardNext]_shardVars

-----------------------------------------------------------------------------
(* Properties                                                              *)

Within(c, k) == ~Less(k, c.start) /\ (c.end = <<>> \/ Less(k, c.end))

\* In a configuration the router accepts, the group of a key is the one whose range
\* holds it, and no two ranges hold the same key.
RoutedToOwner ==
    router # <<>> =>
        \A k \in ShardKeys :
            {g \in DOMAIN cfgs : Within(cfgs[g], k)} = {GroupIDFor(router, k)} \ {0}

\* A scan returns in order, and once, every key with the prefix that was there all the
\* time, and none that was not there at any time, although no group waits for another.
ScanIsComplete ==
    scan.at = "done" =>
        LET got  == Range(scan.merged)
            want == {k \in scan.held : IsPrefix(scan.prefix, k)}
        IN  /\ want \ touched \subseteq got
            /\ got \subseteq want \union touched
            /\ \A i \in 1..(Len(scan.merged) - 1) : Less(scan.merged[i], scan.merged[i + 1])

\* A New that fails, and a Stop, leave no transport listening, whichever group failed and
\* at which step.
NothingListens ==
    starting \in {"refused", "stopped"} => \A g \in DOMAIN cfgs : "transport" \notin open[g]

\* Every key has one owner, the group its writes go to, and a scan over the groups
\* that may hold a prefix misses none of its keys and repeats none.
ShardsCoverKeys == RoutedToOwner /\ ScanIsComplete
=============================================================================
