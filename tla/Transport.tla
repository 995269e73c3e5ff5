------------------------------ MODULE Transport ------------------------------
(***************************************************************************)
(* The TCP transport of pkg/transport/tcp.go: the RPCs a node sends to one *)
(* peer, each on a connection of its own taken from the peer's pool or     *)
(* dialled, the negotiation of the framing on a new connection, and the    *)
(* loops that serve a connection at the other end.  Binary frames carry no *)
(* request number, so an answer belongs to its request only because        *)
(* connections are used one call at a time and thrown away after an error. *)
(***************************************************************************)
EXTENDS Naturals, Sequences, FiniteSets, SequencesExt

CONSTANTS
    Callers,        \* goroutines that make calls
    RpcPlans,       \* the RPCs made: a set of sequences of them
    MaxPeerConns,   \* maxPeerConns
    MaxPeers,       \* bound: times the peer is added
    MaxConns        \* bound: connections dialled

VARIABLES
    binaryTransport,    \* whether new connections are negotiated
    pool,               \* the peer structs made by AddPeer
    target,             \* the one t.peers holds, or 0
    conns,              \* the connections dialled so far
    caller,             \* per goroutine: the call it is making
    todo,               \* the RPCs still to be made
    returned            \* history: the requests answered, with the answer's

transportVars == <<binaryTransport, pool, target, conns, caller, todo, returned>>

Magic == [frame |-> "magic", kind |-> "none", nr |-> 0]

\* A request or the answer to it: message in JSON, WriteBinaryFrame in binary, which
\* drops the number.  The model keeps it to tell answers apart.
WireMessage(binary, kind, nr) == [frame |-> IF binary THEN "binary" ELSE "json", kind |-> kind, nr |-> nr]

NewPeer == [closed |-> FALSE, idle |-> <<>>, useBinary |-> FALSE]
NoCall == [at |-> "none", kind |-> "none", nr |-> 0, peer |-> 0, conn |-> 0, binary |-> FALSE]

\* A transport that prefers binary frames, or does not, and its peer.
TransportInit ==
    /\ binaryTransport \in BOOLEAN
    /\ pool = <<NewPeer>> /\ target = 1 /\ conns = <<>>
    /\ caller = [t \in Callers |-> NoCall]
    /\ todo \in RpcPlans /\ returned = {}

-----------------------------------------------------------------------------
(* The RPCs                                                                *)

\* getPeer; the request gets a number of its own (nextRequestID).
GetPeer(t, kind) ==
    /\ caller[t].at = "none" /\ todo # <<>> /\ Head(todo) = kind
    /\ todo' = Tail(todo)
    /\ caller' = IF target = 0 THEN caller
                 ELSE [caller EXCEPT ![t] = [NoCall EXCEPT !.at = "checkout", !.kind = kind,
                                                           !.nr = Len(todo), !.peer = target]]
    /\ UNCHANGED <<binaryTransport, pool, target, conns, returned>>

AppendEntries(t)   == GetPeer(t, "AppendEntries")
RequestVote(t)     == GetPeer(t, "RequestVote")
InstallSnapshot(t) == GetPeer(t, "InstallSnapshot")
SendTimeoutNow(t)      == GetPeer(t, "TimeoutNow")

-----------------------------------------------------------------------------
(* The pool                                                                *)

\* checkoutConn: the connection released last, or a new one.
Checkout(t) ==
    LET p == pool[caller[t].peer]
    IN  /\ caller[t].at = "checkout"
        /\ IF p.closed THEN caller' = [caller EXCEPT ![t] = NoCall] /\ UNCHANGED pool
           ELSE IF p.idle # <<>>
           THEN /\ caller' = [caller EXCEPT ![t].at = "ready", ![t].conn = Last(p.idle)]
                /\ pool' = [pool EXCEPT ![caller[t].peer].idle = Front(@)]
           ELSE caller' = [caller EXCEPT ![t].at = "dialling"] /\ UNCHANGED pool
        /\ UNCHANGED <<binaryTransport, target, conns, todo, returned>>

\* dialPeer succeeds, and negotiateBinary sends its probe.
DialPeer(t) ==
    /\ caller[t].at = "dialling" /\ Len(conns) < MaxConns
    /\ conns' = Append(conns, [open |-> TRUE, serves |-> "probe", down |-> <<>>,
                               up |-> IF binaryTransport THEN <<Magic>> ELSE <<>>])
    /\ caller' = [caller EXCEPT ![t].conn = Len(conns) + 1,
                                ![t].at = IF binaryTransport THEN "negotiating" ELSE "ready"]
    /\ UNCHANGED <<binaryTransport, pool, target, todo, returned>>

\* It fails, or its dialContext ends.
DialFails(t) ==
    /\ caller[t].at = "dialling"
    /\ caller' = [caller EXCEPT ![t] = NoCall]
    /\ UNCHANGED <<binaryTransport, pool, target, conns, todo, returned>>

Closed(cs, c) == [cs EXCEPT ![c].open = FALSE]

\* Mutant of ReleaseConn: a removed peer keeps the connection.
ReleaseKept(p, c, used) ==
    IF Len(pool[p].idle) >= MaxPeerConns
    THEN conns' = Closed(used, c) /\ UNCHANGED pool
    ELSE conns' = used /\ pool' = [pool EXCEPT ![p].idle = Append(@, c)]

\* Mutant of DiscardConn: the connection of a failed exchange goes back to the pool.
DiscardReused(p, c, used) ==
    IF pool[p].closed \/ Len(pool[p].idle) >= MaxPeerConns
    THEN conns' = Closed(used, c) /\ UNCHANGED pool
    ELSE conns' = used /\ pool' = [pool EXCEPT ![p].idle = Append(@, c)]

\* releaseConn, with the connections as the exchange left them.
ReleaseConn(p, c, used) ==
    IF pool[p].closed \/ Len(pool[p].idle) >= MaxPeerConns
    THEN conns' = Closed(used, c) /\ UNCHANGED pool
    ELSE conns' = used /\ pool' = [pool EXCEPT ![p].idle = Append(@, c)]

DiscardConn(p, c, used) == conns' = Closed(used, c) /\ UNCHANGED pool

\* The peer is closed, and so are the connections it holds.
ClosePeer(p) ==
    /\ pool' = [pool EXCEPT ![p].closed = TRUE, ![p].idle = <<>>]
    /\ conns' = [c \in DOMAIN conns |-> [conns[c] EXCEPT !.open = @ /\ c \notin Range(pool[p].idle)]]

RemovePeer ==
    /\ target # 0
    /\ target' = 0
    /\ ClosePeer(target)
    /\ UNCHANGED <<binaryTransport, caller, todo, returned>>

\* Close, whose peers stay in the map.
CloseTransport ==
    /\ target # 0 /\ ~pool[target].closed
    /\ ClosePeer(target)
    /\ UNCHANGED <<binaryTransport, target, caller, todo, returned>>

AddPeer ==
    /\ target = 0 /\ Len(pool) < MaxPeers
    /\ pool' = Append(pool, NewPeer)
    /\ target' = Len(pool')
    /\ UNCHANGED <<binaryTransport, conns, caller, todo, returned>>

-----------------------------------------------------------------------------
(* An exchange                                                             *)

\* negotiateBinary ends with the echo or, in time, without it; the answer is noted for
\* the peer, not for the connection.
Negotiated(t, binary) ==
    /\ pool' = [pool EXCEPT ![caller[t].peer].useBinary = binary]
    /\ caller' = [caller EXCEPT ![t].at = "ready"]
    /\ UNCHANGED <<binaryTransport, target, todo, returned>>

NegotiateBinary(t) ==
    LET c == caller[t].conn
    IN  /\ caller[t].at = "negotiating"
        /\ \/ /\ conns[c].down # <<>>
              /\ conns' = [conns EXCEPT ![c].down = Tail(@)]
              /\ Negotiated(t, Head(conns[c].down) = Magic)
           \/ UNCHANGED conns /\ Negotiated(t, FALSE)

\* sendRequest up to the write, in the framing the peer has now.
SendRequest(t) ==
    LET binary == pool[caller[t].peer].useBinary
    IN  /\ caller[t].at = "ready"
        /\ conns' = [conns EXCEPT ![caller[t].conn].up =
                         Append(@, WireMessage(binary, caller[t].kind, caller[t].nr))]
        /\ caller' = [caller EXCEPT ![t].at = "reading", ![t].binary = binary]
        /\ UNCHANGED <<binaryTransport, pool, target, todo, returned>>

\* What a JSON read takes for the answer: the number and the type must match.
AcceptsJSON(call, m) == m.frame = "json" /\ m.nr = call.nr /\ m.kind = call.kind

\* decodeBinaryResponseToJSON: the frame is decoded as an answer to what was asked; its
\* tag is not looked at, and the payload of a TimeoutNow answer neither.
AcceptsBinary(call, m) == m.frame = "binary" /\ (m.kind = call.kind \/ call.kind = "TimeoutNow")

\* The answer is read and the connection released.
ReadResponse(t) ==
    LET c == caller[t].conn
        m == Head(conns[c].down)
    IN  /\ caller[t].at = "reading" /\ conns[c].down # <<>>
        /\ IF caller[t].binary THEN AcceptsBinary(caller[t], m) ELSE AcceptsJSON(caller[t], m)
        /\ ReleaseConn(caller[t].peer, c, [conns EXCEPT ![c].down = Tail(@)])
        /\ returned' = returned \union {[asked |-> caller[t].nr, got |-> m.nr]}
        /\ caller' = [caller EXCEPT ![t] = NoCall]
        /\ UNCHANGED <<binaryTransport, target, todo>>

\* Something else is read, the write or the read fails, or exchangeDeadline passes: the
\* connection is discarded and the call returns the error.
ExchangeFails(t) ==
    LET c == caller[t].conn
    IN  /\ \/ caller[t].at = "reading"
           \/ caller[t].at = "ready" /\ conns[c].serves = "closed"
        /\ \E read \in 0..Len(conns[c].down) :
               DiscardConn(caller[t].peer, c, [conns EXCEPT ![c].down = SubSeq(@, read + 1, Len(@))])
        /\ caller' = [caller EXCEPT ![t] = NoCall]
        /\ UNCHANGED <<binaryTransport, target, todo, returned>>

-----------------------------------------------------------------------------
(* The server's end of a connection                                        *)

\* handleConn: the first bytes settle the framing, and the probe is echoed.
HandleConn(c) ==
    LET binary == Head(conns[c].up).frame # "json"
    IN  /\ conns[c].serves = "probe" /\ conns[c].up # <<>>
        /\ conns' = [conns EXCEPT ![c].serves = IF binary THEN "binary" ELSE "json",
                                  ![c].up = IF binary THEN Tail(@) ELSE @,
                                  ![c].down = IF binary THEN Append(@, Magic) ELSE @]
        /\ UNCHANGED <<binaryTransport, pool, target, caller, todo, returned>>

\* dispatchJSON, dispatchBinary: the handler's answer, of the type that goes with the request.
DispatchJSON(m)   == WireMessage(FALSE, m.kind, m.nr)
DispatchBinary(m) == WireMessage(TRUE, m.kind, m.nr)

\* A frame that does not parse ends the connection.
Served(c, framing, answer) ==
    LET m == Head(conns[c].up)
    IN  /\ conns[c].serves = framing /\ conns[c].up # <<>>
        /\ conns' = [conns EXCEPT ![c].up = Tail(@),
                                  ![c].down = IF m.frame = framing THEN Append(@, answer) ELSE @,
                                  ![c].serves = IF m.frame = framing THEN @ ELSE "closed"]
        /\ UNCHANGED <<binaryTransport, pool, target, caller, todo, returned>>

HandleConnJSON(c)   == Served(c, "json", DispatchJSON(Head(conns[c].up)))
HandleConnBinary(c) == Served(c, "binary", DispatchBinary(Head(conns[c].up)))

\* The connection's goroutine ends: idleReadTimeout, a failed write, a stopped server.
ServerDrops(c) ==
    /\ conns[c].serves # "closed"
    /\ conns' = [conns EXCEPT ![c].serves = "closed"]
    /\ UNCHANGED <<binaryTransport, pool, target, caller, todo, returned>>

CallStep(t) ==
    \/ AppendEntries(t) \/ RequestVote(t) \/ InstallSnapshot(t) \/ SendTimeoutNow(t)
    \/ Checkout(t) \/ DialPeer(t) \/ DialFails(t) \/ NegotiateBinary(t)
    \/ SendRequest(t) \/ ReadResponse(t) \/ ExchangeFails(t)

ConnStep(c) == HandleConn(c) \/ HandleConnJSON(c) \/ HandleConnBinary(c) \/ ServerDrops(c)

TransportNext ==
    \/ \E t \in Callers : CallStep(t)
    \/ \E c \in DOMAIN conns : ConnStep(c)
    \/ AddPeer
    \/ RemovePeer
    \/ CloseTransport

TransportSpec == TransportInit /\ [][TransportNext]_transportVars

-----------------------------------------------------------------------------
(* Properties                                                              *)

\* sendRequest hands Raft the answer to the request it sent, never one left on the
\* connection by an earlier call, although binary frames are not numbered and one
\* connection's negotiation changes the framing of the others.
AnswersOwnRequest == \A r \in returned : r.got = r.asked

\* An open connection has one owner, a slot of a pool or a call, and a closed one none; a
\* peer that was removed or closed keeps none open, whatever its calls were doing then,
\* and whether or not it was added again since.
NoConnectionLeaks ==
    \A c \in DOMAIN conns :
        LET users == {t \in Callers : caller[t].conn = c}
            slots == {<<p, i>> \in (DOMAIN pool) \X (1..MaxPeerConns) :
                         i <= Len(pool[p].idle) /\ pool[p].idle[i] = c}
        IN  /\ Cardinality(users) + Cardinality(slots) = IF conns[c].open THEN 1 ELSE 0
            /\ \A s \in slots : ~pool[s[1]].closed
=============================================================================
