------------------------------ MODULE WritePath ------------------------------
(***************************************************************************)
(* A write from pkg/client through the HTTP handlers of cmd/raftd to the   *)
(* replicated log and back.  The client numbers its writes, tries its      *)
(* addresses in turn for several rounds, and gives up on an attempt whose  *)
(* handler or log entry may still be alive.  A server refuses while it     *)
(* drains, forwards to the leader it knows of, or proposes.  The log is    *)
(* what module Raft guarantees of it: a leader's log has every committed   *)
(* entry.  The state machine drops a command whose number is not above the *)
(* last one of that client (module KVStore).                               *)
(***************************************************************************)
EXTENDS Naturals, Sequences, FiniteSets, SequencesExt, FiniteSetsExt

CONSTANTS
    Addrs,          \* Client.addrs: the servers' addresses, in order
    Plans,          \* the calls a client makes: sequences of [kind, rejected], kind one
                    \* of "put", "incr", "delete", "txn", "command", and rejected when the
                    \* state machine answers the command with an error
    RetryMax,       \* v2RetryMax: rounds over the addresses
    MaxUpsets,      \* bound: elections, lost leaders and shutdowns together
    MaxAlive        \* bound: requests alive in the servers at a time

VARIABLES
    slog,       \* per server: its log, entries [op, seq]; seq is 0 for none
    scommit,    \* how much of the log is committed
    chief,      \* the server last elected
    believed,   \* per server: raftNode.Leader()
    serving,    \* per server: "yes", "draining" or "stopped"
    attempts,   \* HTTP requests that are somewhere in the servers
    client,     \* the call in progress
    told,       \* history: writes the client was told succeeded, with whose result
    effects,    \* history: entries that were applied, in order
    upsets      \* how many elections, lost leaders and shutdowns there were

cluster == <<slog, scommit, chief, believed, serving, effects, upsets>>
writeVars == <<cluster, attempts, client, told>>

Servers == Range(Addrs)
NoServer == "none"

-----------------------------------------------------------------------------
WriteInit ==
    /\ slog = [s \in Servers |-> <<>>] /\ scommit = 0
    /\ chief = Addrs[1]
    /\ believed = [s \in Servers |-> Addrs[1]]
    /\ serving = [s \in Servers |-> "yes"]
    /\ attempts = {}
    /\ \E plan \in Plans :
           client = [plan |-> plan, op |-> 0, phase |-> "idle", todo |-> <<>>, round |-> 0,
                     sent |-> 0, current |-> NoServer]
    /\ told = {} /\ effects = <<>>
    /\ upsets = 0

-----------------------------------------------------------------------------
(* The client                                                              *)

\* writeAddrs: the last-known leader first.
WriteAddrs ==
    IF client.current = NoServer THEN Addrs
    ELSE <<client.current>> \o SelectSeq(Addrs, LAMBDA a : a # client.current)

\* The addresses of a round; a command tries the last-known one twice.
RoundAddrs(kind, current) ==
    IF kind = "command" THEN <<current>> \o Addrs ELSE WriteAddrs

\* nextSeqNum: one number for all attempts of a write.
SeqNum(c) == c.op

BeginWrite(kind, current) ==
    /\ client.phase = "idle" /\ client.op < Len(client.plan)
    /\ client.plan[client.op + 1].kind = kind
    /\ client' = [client EXCEPT !.op = @ + 1, !.phase = "ready", !.round = 1, !.sent = 0,
                                !.todo = RoundAddrs(kind, current), !.current = current]
    /\ UNCHANGED <<cluster, attempts, told>>

PutWithTTL == BeginWrite("put", client.current)
Increment == BeginWrite("incr", client.current)
DeleteKV == BeginWrite("delete", client.current)
ClientTxn == BeginWrite("txn", client.current)

\* A server that answers GetClusterInfo becomes the preferred one, and is to know
\* a leader.
SubmitCommand ==
    \E s \in Servers :
        /\ serving[s] # "stopped" /\ believed[s] # NoServer
        /\ BeginWrite("command", s)

\* The next attempt of the round.
SendAttempt ==
    /\ client.phase = "ready" /\ client.todo # <<>> /\ Cardinality(attempts) < MaxAlive
    /\ client' = [client EXCEPT !.phase = "waiting", !.todo = Tail(@), !.sent = @ + 1]
    /\ attempts' = attempts \cup
          {[op |-> client.op, kind |-> client.plan[client.op].kind, nr |-> client.sent + 1,
            seq |-> SeqNum(client), at |-> Head(client.todo), hint |-> NoServer,
            stage |-> "arriving", pos |-> 0, result |-> 0]}
    /\ UNCHANGED <<cluster, told>>

\* doWithRetry: another round, or the error of the last one.
EndRound ==
    /\ client.phase = "ready" /\ client.todo = <<>>
    /\ client' = IF client.round < RetryMax
                 THEN [client EXCEPT !.round = @ + 1,
                          !.todo = RoundAddrs(client.plan[client.op].kind, client.current)]
                 ELSE [client EXCEPT !.phase = "idle"]
    /\ UNCHANGED <<cluster, attempts, told>>

Awaited(a) == client.phase = "waiting" /\ a.op = client.op /\ a.nr = client.sent

\* The client's context ends, or a proxy's does; the request may never have
\* reached a server.
TimeOut ==
    /\ client.phase = "waiting"
    /\ client' = [client EXCEPT !.phase = "ready"]
    /\ \E lost \in SUBSET {a \in attempts : Awaited(a) /\ a.stage = "arriving"} :
           attempts' = attempts \ lost
    /\ UNCHANGED <<cluster, told>>

\* noteLeaderFromResponse.
NoteLeader(a) == IF a.hint = NoServer THEN client.current ELSE a.hint

\* The client after the requests of gone were answered with an error: it goes on
\* with the next address.
AfterError(gone) ==
    LET mine == {a \in gone : Awaited(a)}
    IN  IF mine = {} THEN client
        ELSE [client EXCEPT !.phase = "ready",
                            !.current = NoteLeader(CHOOSE a \in mine : TRUE)]

\* What the client makes of the result of a command that was applied.  An increment
\* that was rejected (400) ends the call, a rejected delete (404) is retried.
Taken(a) == [client EXCEPT !.phase = "idle", !.current = NoteLeader(a)]
Rejected(a) == client.plan[a.op].rejected
DoPutKV(a) == Taken(a)
DoIncr(a) == Taken(a)
DoDeleteKV(a) == IF Rejected(a) THEN AfterError({a}) ELSE Taken(a)
DoPost(a) == Taken(a)
SendCommandIdem(a) == [client EXCEPT !.phase = "idle"]

AfterResult(a) ==
    CASE a.kind = "put" -> DoPutKV(a)
      [] a.kind = "incr" -> DoIncr(a)
      [] a.kind = "delete" -> DoDeleteKV(a)
      [] a.kind = "txn" -> DoPost(a)
      [] a.kind = "command" -> SendCommandIdem(a)

-----------------------------------------------------------------------------
(* The servers                                                             *)

\* A 503 while draining (writeDrainingResponse) or without a leader.
RefuseWrite(a) ==
    /\ serving[a.at] = "draining" \/ believed[a.at] = NoServer
    /\ attempts' = attempts \ {a} /\ client' = AfterError({a})
    /\ UNCHANGED slog

\* Only the v1 handlers name the leader in their answer.
LeaderHint(a, s) == IF a.kind = "command" THEN NoServer ELSE s

ForwardToLeader(a) ==
    LET to == believed[a.at]
    IN  /\ serving[a.at] = "yes" /\ to \notin {NoServer, a.at}
        /\ attempts' = (attempts \ {a}) \cup
                          {[a EXCEPT !.at = to, !.hint = LeaderHint(a, to)]}
        /\ UNCHANGED <<client, slog>>

\* Apply at the node that takes itself for the leader (ensureLeader returns nil).
ProposeWrite(a, seq) ==
    /\ serving[a.at] = "yes" /\ believed[a.at] = a.at
    /\ slog' = [slog EXCEPT ![a.at] = Append(@, [op |-> a.op, seq |-> seq])]
    /\ attempts' = (attempts \ {a}) \cup
          {[a EXCEPT !.stage = "proposed", !.pos = Len(slog[a.at]) + 1, !.hint = LeaderHint(a, a.at)]}
    /\ UNCHANGED client

HandleWrite(a, seq) ==
    /\ a.stage = "arriving" /\ serving[a.at] # "stopped"
    /\ RefuseWrite(a) \/ ForwardToLeader(a) \/ ProposeWrite(a, seq)
    /\ UNCHANGED <<scommit, chief, believed, serving, told, effects, upsets>>

\* The handlers of /v1/kv put the request's number into the command, those of
\* /v1/txn and /command do not read it.
HandleV1Put(a) == a.kind = "put" /\ HandleWrite(a, a.seq)
HandleV1Incr(a) == a.kind = "incr" /\ HandleWrite(a, a.seq)
HandleV1Delete(a) == a.kind = "delete" /\ HandleWrite(a, a.seq)
HandleV1Txn(a) == a.kind = "txn" /\ HandleWrite(a, 0)
HandleCommand(a) == a.kind = "command" /\ HandleWrite(a, 0)

\* Apply's context ends before its future is answered; the entry stays in the log.
HandlerTimesOut(a) ==
    /\ a.stage = "proposed"
    /\ attempts' = attempts \ {a} /\ client' = AfterError({a})
    /\ UNCHANGED <<cluster, told>>

Numbered == SelectSeq(effects, LAMBDA e : e.seq # 0)

\* Mutant of DuplicateWrite: only the number applied last is one.
DuplicateOfLast(e) == Numbered # <<>> /\ e.seq # 0 /\ Last(Numbered).seq = e.seq

\* KVStore.Apply: a number not above the client's last one.
DuplicateWrite(e) == Numbered # <<>> /\ e.seq # 0 /\ Last(Numbered).seq >= e.seq

Leads(s) == chief = s /\ believed[s] = s /\ serving[s] # "stopped"

\* The leader commits and applies its next entry and answers the waiting future,
\* a duplicate with the client's cached result.
CommitWrite ==
    LET e == slog[chief][scommit + 1]
    IN  /\ Leads(chief) /\ scommit < Len(slog[chief])
        /\ scommit' = scommit + 1
        /\ effects' = IF DuplicateWrite(e) THEN effects ELSE Append(effects, e)
        /\ attempts' = {IF a.stage = "proposed" /\ a.at = chief /\ a.pos = scommit + 1
                        THEN [a EXCEPT !.stage = "applied",
                                 !.result = IF DuplicateWrite(e) THEN Last(Numbered).op ELSE e.op]
                        ELSE a : a \in attempts}
        /\ UNCHANGED <<slog, chief, believed, serving, client, told, upsets>>

\* Mutant of Answerable: a proposal is answered once it is in the leader's log.
AnswerableInLog(a) == a.stage \in {"proposed", "applied"}

Answerable(a) == a.stage = "applied"

\* The handler writes the result, and the client takes it if it still waits.
AnswerWrite(a) ==
    /\ Answerable(a)
    /\ attempts' = attempts \ {a}
    /\ client' = IF Awaited(a) THEN AfterResult(a) ELSE client
    /\ told' = IF Awaited(a) /\ ~Rejected(a) THEN told \cup {[op |-> a.op, result |-> a.result]}
               ELSE told
    /\ UNCHANGED cluster

-----------------------------------------------------------------------------
(* The cluster, as the handlers see it                                     *)

ElectServer(s) ==
    /\ upsets < MaxUpsets /\ serving[s] # "stopped"
    /\ IsPrefix(SubSeq(slog[chief], 1, scommit), slog[s])
    /\ chief' = s
    /\ believed' = [believed EXCEPT ![s] = s]
    /\ upsets' = upsets + 1
    /\ UNCHANGED <<slog, scommit, serving, attempts, client, told, effects>>

Futures(s) == {a \in attempts : a.at = s /\ a.stage = "proposed"}

\* A server takes the leader's log; a deposed leader fails its futures.
FollowChief(s) ==
    /\ s # chief /\ Leads(chief) /\ serving[s] # "stopped"
    /\ slog' = [slog EXCEPT ![s] = slog[chief]]
    /\ believed' = [believed EXCEPT ![s] = chief]
    /\ attempts' = attempts \ Futures(s) /\ client' = AfterError(Futures(s))
    /\ UNCHANGED <<scommit, chief, serving, told, effects, upsets>>

\* A higher term, an election timeout or a lost quorum: no leader is known.
LoseLeader(s) ==
    /\ believed[s] # NoServer /\ upsets < MaxUpsets
    /\ believed' = [believed EXCEPT ![s] = NoServer]
    /\ attempts' = attempts \ Futures(s) /\ client' = AfterError(Futures(s))
    /\ upsets' = upsets + 1
    /\ UNCHANGED <<slog, scommit, chief, serving, told, effects>>

\* Server.Shutdown: refuse writes, then stop with whatever is still in progress.
BeginShutdown(s) ==
    /\ serving[s] = "yes" /\ upsets < MaxUpsets
    /\ serving' = [serving EXCEPT ![s] = "draining"]
    /\ upsets' = upsets + 1
    /\ UNCHANGED <<slog, scommit, chief, believed, attempts, client, told, effects>>

StopServer(s) ==
    LET gone == {a \in attempts : a.at = s}
    IN  /\ serving[s] = "draining"
        /\ serving' = [serving EXCEPT ![s] = "stopped"]
        /\ attempts' = attempts \ gone /\ client' = AfterError(gone)
        /\ UNCHANGED <<slog, scommit, chief, believed, told, effects, upsets>>

Handler(a) ==
    \/ HandleV1Put(a) \/ HandleV1Incr(a) \/ HandleV1Delete(a) \/ HandleV1Txn(a)
    \/ HandleCommand(a)

WriteNext ==
    \/ PutWithTTL \/ Increment \/ DeleteKV \/ ClientTxn \/ SubmitCommand
    \/ SendAttempt \/ EndRound \/ TimeOut \/ CommitWrite
    \/ \E a \in attempts : Handler(a) \/ HandlerTimesOut(a) \/ AnswerWrite(a)
    \/ \E s \in Servers : ElectServer(s) \/ FollowChief(s) \/ LoseLeader(s)
                          \/ BeginShutdown(s) \/ StopServer(s)

WriteSpec == WriteInit /\ [][WriteNext]_writeVars

-----------------------------------------------------------------------------
\* Whatever was retried, forwarded, failed or left behind in a log, the writes of
\* a client that carry a number take effect at most once each and in the order it
\* made them: a late entry of an earlier write never undoes a later one.
EffectsOnceInOrder ==
    \A i, j \in DOMAIN Numbered : i < j => Numbered[i].op < Numbered[j].op

\* A write the client was told succeeded took effect, and the result it was given
\* is that write's and not one cached for another.
AckedTookEffect ==
    \A p \in told : p.result = p.op /\ \E i \in DOMAIN effects : effects[i].op = p.op
=============================================================================
