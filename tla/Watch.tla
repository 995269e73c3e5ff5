-------------------------------- MODULE Watch --------------------------------
(***************************************************************************)
(* Watches from the state machine to the client: the events each node      *)
(* emits (emitEvents, Restore of pkg/fsm/kv.go), the WatchManager that     *)
(* fans them out (pkg/fsm/watch.go), the event stream of one watcher       *)
(* (handleV1Watch of cmd/raftd/main.go) and the client's loop that         *)
(* reconnects from the last revision it saw (pkg/client/client.go).        *)
(*                                                                         *)
(* Every event matches the watcher.  Batches[r] is the number of events    *)
(* of revision r, more than one when a transaction made them; an event is  *)
(* <<revision, position>>.  A node applies revisions at its own pace.      *)
(***************************************************************************)
EXTENDS Naturals, Sequences, FiniteSets, SequencesExt, FiniteSetsExt

CONSTANTS
    WatchNodes,
    Batches,         \* the number of events of each revision
    HistoryEvents,   \* defaultHistorySize
    EventChanSize,   \* defaultEventChanSize
    WatchChanSize,   \* the buffer of a watcher's channel
    MaxDisconnects,  \* bound: streams that break
    MaxInstalls      \* bound: snapshots installed on a node

VARIABLES
    applied,     \* per node: the revision its state machine has reached
    ring,        \* per node: the buffered events, oldest first
    eventCh,     \* per node: the batches emitted and not received
    hand,        \* per node: the batch the dispatch goroutine has received
    stream,      \* the watcher: its node, startRev, channel and replay
    lastRevision, received,  \* the client
    excuse,      \* history: what happened that the manager does not make up for
    disconnects, installs

serverVars == <<applied, ring, eventCh, hand>>
clientVars == <<lastRevision, received, disconnects>>
watchVars == <<serverVars, stream, clientVars, excuse, installs>>

Revisions == DOMAIN Batches
EventsOf(r) == [i \in 1 .. Batches[r] |-> <<r, i>>]
AllEvents == UNION {ToSet(EventsOf(r)) : r \in Revisions}
Rev(e) == e[1]

Closed == [node |-> 0, startRev |-> 0, ch |-> << >>, replay |-> "none", since |-> 0, past |-> << >>]
IsOpen == stream.node # 0

WatchInit ==
    /\ applied = [n \in WatchNodes |-> 0]
    /\ ring = [n \in WatchNodes |-> << >>]
    /\ eventCh = [n \in WatchNodes |-> << >>]
    /\ hand = [n \in WatchNodes |-> << >>]
    /\ stream = Closed
    /\ lastRevision = 0 /\ received = << >>
    /\ excuse = {} /\ disconnects = 0 /\ installs = 0

Excuse(what, when) == excuse' = IF when THEN excuse \cup {what} ELSE excuse

-----------------------------------------------------------------------------
(* The state machine of a node *)

\* Apply and emitEvents: the events go to the ring, and to the channel unless it
\* is full.
Emit(n) ==
    LET r     == applied[n] + 1
        batch == EventsOf(r)
        all   == ring[n] \o batch
        full  == Len(eventCh[n]) = EventChanSize
    IN  /\ r \in Revisions
        /\ applied' = [applied EXCEPT ![n] = r]
        /\ ring' = [ring EXCEPT ![n] = SubSeq(all, Max({1, Len(all) - HistoryEvents + 1}), Len(all))]
        /\ eventCh' = [eventCh EXCEPT ![n] = IF full THEN @ ELSE Append(@, batch)]
        /\ Excuse("dropped", full)
        /\ UNCHANGED <<hand, stream, clientVars, installs>>

\* Restore: the node jumps to a later revision; the ring and the channel are
\* emptied.
Install(n) ==
    /\ installs < MaxInstalls
    /\ \E r \in Revisions :
        /\ r > applied[n] + 1
        /\ applied' = [applied EXCEPT ![n] = r]
    /\ ring' = [ring EXCEPT ![n] = << >>]
    /\ eventCh' = [eventCh EXCEPT ![n] = << >>]
    /\ Excuse("installed", TRUE)
    /\ installs' = installs + 1
    /\ UNCHANGED <<hand, stream, clientVars>>

-----------------------------------------------------------------------------
(* The WatchManager *)

\* Start: the goroutine takes a batch off the channel,
Receive(n) ==
    /\ hand[n] = << >> /\ eventCh[n] # << >>
    /\ hand' = [hand EXCEPT ![n] = Head(eventCh[n])]
    /\ eventCh' = [eventCh EXCEPT ![n] = Tail(@)]
    /\ UNCHANGED <<applied, ring, stream, clientVars, excuse, installs>>

\* The events of the batch that are newer than the registration.
Live(n) == SelectSeq(hand[n], LAMBDA e : Rev(e) > stream.startRev)

\* and dispatch offers it to the watchers; one that is full loses it.
Dispatch(n) ==
    LET batch == Live(n)
        offer == stream.node = n /\ batch # << >>
        full  == Len(stream.ch) = WatchChanSize
    IN  /\ hand[n] # << >>
        /\ hand' = [hand EXCEPT ![n] = << >>]
        /\ stream' = IF offer /\ ~full THEN [stream EXCEPT !.ch = Append(@, batch)] ELSE stream
        /\ excuse' = excuse \cup (IF offer /\ full THEN {"dropped"} ELSE {})
                            \cup (IF offer /\ stream.replay # "none" THEN {"overtaken"} ELSE {})
        /\ UNCHANGED <<applied, ring, eventCh, clientVars, installs>>

\* Mutant of Subscribe: the revision is read before the watcher is registered,
\* and events dispatched between the two are missed.
SubscribeLate(n) ==
    /\ ~IsOpen
    /\ \E seen \in {Max({0, applied[n] - 1}), applied[n]} :
        stream' = [node |-> n, startRev |-> applied[n], ch |-> << >>,
                   replay |-> IF seen > lastRevision THEN "reading" ELSE "none",
                   since |-> lastRevision, past |-> << >>]
    /\ Excuse("behind", lastRevision > applied[n])
    /\ UNCHANGED <<serverVars, clientVars, installs>>

\* Mutant of Subscribe: the client's loop ends when a stream breaks.
SubscribeOnce(n) ==
    /\ ~IsOpen /\ disconnects = 0
    /\ stream' = [node |-> n, startRev |-> applied[n], ch |-> << >>,
                  replay |-> IF applied[n] > lastRevision THEN "reading" ELSE "none",
                  since |-> lastRevision, past |-> << >>]
    /\ Excuse("behind", lastRevision > applied[n])
    /\ UNCHANGED <<serverVars, clientVars, installs>>

\* handleV1Watch and subscribe: the client's last revision is the Last-Event-ID;
\* the node's revision is read and the watcher registered under one lock, and a
\* goroutine replays what lies between the two.
Subscribe(n) ==
    /\ ~IsOpen
    /\ stream' = [node |-> n, startRev |-> applied[n], ch |-> << >>,
                  replay |-> IF applied[n] > lastRevision THEN "reading" ELSE "none",
                  since |-> lastRevision, past |-> << >>]
    /\ Excuse("behind", lastRevision > applied[n])
    /\ UNCHANGED <<serverVars, clientVars, installs>>

\* GetHistory, and the events replayHistory will send.
Past == SelectSeq(ring[stream.node], LAMBDA e : Rev(e) > stream.since /\ Rev(e) <= stream.startRev)

\* What the history should hold for the replay to be complete.
Wanted == {e \in AllEvents : Rev(e) > stream.since /\ Rev(e) <= stream.startRev}

\* replayHistory reads the history,
ReplayRead ==
    /\ stream.replay = "reading"
    /\ stream' = [stream EXCEPT !.past = Past, !.replay = IF Past = << >> THEN "none" ELSE "sending"]
    /\ Excuse("overflowed", ~(Wanted \subseteq ToSet(ring[stream.node])))
    /\ UNCHANGED <<serverVars, clientVars, installs>>

\* and sends the events one by one, waiting for the channel.
ReplaySend ==
    /\ stream.replay = "sending" /\ Len(stream.ch) < WatchChanSize
    /\ stream' = [stream EXCEPT !.ch = Append(@, <<Head(stream.past)>>), !.past = Tail(@),
                                !.replay = IF Len(stream.past) = 1 THEN "none" ELSE "sending"]
    /\ UNCHANGED <<serverVars, clientVars, excuse, installs>>

-----------------------------------------------------------------------------
(* The stream and the client *)

\* The handler writes the next batch, and streamSSE passes it on.
Deliver ==
    /\ IsOpen /\ stream.ch # << >>
    /\ LET batch == Head(stream.ch)
       IN  /\ received' = received \o batch
           /\ lastRevision' = Max({lastRevision, Rev(Last(batch))})
    /\ stream' = [stream EXCEPT !.ch = Tail(@)]
    /\ UNCHANGED <<serverVars, excuse, disconnects, installs>>

\* The stream breaks, idles out or is shut down: Cancel removes the watcher and
\* ends its replay, and what is in its channel is lost.  The client reconnects.
Disconnect ==
    /\ IsOpen /\ disconnects < MaxDisconnects
    /\ stream' = Closed
    /\ disconnects' = disconnects + 1
    /\ Excuse("split", \E b \in ToSet(stream.ch) \cup {stream.past} :
                            \E i \in DOMAIN b : Rev(b[i]) = lastRevision)
    /\ UNCHANGED <<serverVars, lastRevision, received, installs>>

ServerStep(n) == Receive(n) \/ Dispatch(n)
StreamStep == ReplayRead \/ ReplaySend \/ Deliver

WatchNext ==
    \/ \E n \in WatchNodes : Emit(n) \/ Install(n) \/ ServerStep(n) \/ Subscribe(n)
    \/ StreamStep
    \/ Disconnect

\* The goroutines of the manager, of the stream and of the client keep running,
\* and a client that lost its stream connects again.
WatchFairness ==
    /\ \A n \in WatchNodes : WF_watchVars(Emit(n)) /\ WF_watchVars(ServerStep(n))
    /\ WF_watchVars(StreamStep)
    /\ WF_watchVars(\E n \in WatchNodes : Subscribe(n))

WatchSpec == WatchInit /\ [][WatchNext]_watchVars /\ WatchFairness

-----------------------------------------------------------------------------
\* The application is given no event twice, by replay and live or across streams,
\* unless it reconnects to a node that is behind what it has seen.
NoDuplicate == "behind" \notin excuse => IsInjective(received)

\* Unless an event was dropped at a full channel, had left the history or was
\* skipped by a snapshot, or a stream broke inside a transaction or overtook its
\* replay: everything up to the last revision the client saw was delivered, in
\* revision order.
NoGap ==
    excuse \subseteq {"behind"} =>
        /\ \A e \in AllEvents : Rev(e) < lastRevision => e \in ToSet(received)
        /\ "behind" \notin excuse =>
            \A i, j \in DOMAIN received : i < j => Rev(received[i]) <= Rev(received[j])

\* Every event a node emits reaches the client in the end, whichever streams
\* break, unless one of those was met.
EventuallySeen ==
    \A e \in AllEvents : (\E n \in WatchNodes : applied[n] >= Rev(e))
                            ~> (e \in ToSet(received) \/ excuse # {})

\* The application is given each event of the nodes' state machines once and in
\* revision order, through replay, live dispatch and streams that break, as far as
\* the manager makes up for what happens.
EachEventOnce == NoDuplicate /\ NoGap
=============================================================================
