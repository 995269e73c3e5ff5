-------------------------------- MODULE EtcdKV --------------------------------
(***************************************************************************)
(* The etcd v3 KV service of pkg/etcdcompat on one node: Range, Put,       *)
(* DeleteRange and Txn, each made of commands that travel through the log  *)
(* and of reads of the local store, while other clients write.  Keys are   *)
(* byte sequences, because etcd encodes "one key", "every key with this    *)
(* prefix" and "every key from here on" in the bytes of range_end.         *)
(***************************************************************************)
EXTENDS Naturals, Sequences, FiniteSets, FiniteSetsExt, SequencesExt, Functions, TLC, ByteStrings

CONSTANTS
    EtcdKeys,       \* the keys: sequences of bytes
    EtcdRequests,   \* the calls clients make
    MaxEtcdLog      \* bound: entries in the log

VARIABLES
    stores,         \* the store before the first log entry and after each
    upto,           \* this node has applied the entries that lead to stores[upto]
    rpc,            \* the call being handled
    response        \* the answer to the last call

etcdVars == <<stores, upto, rpc, response>>

NoRpc == [at |-> "none"]
NoAnswer == [op |-> "none"]

EtcdInit ==
    /\ stores = <<[rev |-> 0, data |-> <<>>]>>
    /\ upto = 1 /\ rpc = NoRpc /\ response = NoAnswer

Latest == Last(stores)
Local == stores[upto]

-----------------------------------------------------------------------------
(* What range_end means                                                    *)

IsPrefixEnd(key, end) == end = Append(key, 0)

\* isRangeEndPrefix.
IsRangeEndPrefix(key, end) == end = <<0>> \/ IsPrefixEnd(key, end)

\* rangePrefix: the prefix the local store is scanned with.
RangePrefix(key, end) == IF IsPrefixEnd(key, end) THEN key ELSE <<>>

\* Mutant of InKeyRange: the end of an interval belongs to it.
InKeyRangeClosed(k, start, end) ==
    CASE end = <<>>              -> k = start
      [] end = <<0>>             -> ~Less(k, start)
      [] IsPrefixEnd(start, end) -> IsPrefix(start, k)
      [] OTHER                   -> ~Less(k, start) /\ ~Less(end, k)

\* inRange.
InKeyRange(k, start, end) ==
    CASE end = <<>>              -> k = start
      [] end = <<0>>             -> ~Less(k, start)
      [] IsPrefixEnd(start, end) -> IsPrefix(start, k)
      [] OTHER                   -> ~Less(k, start) /\ Less(k, end)

\* KVStore.Range, and the filters and order of filterAndSortRange and sortKVs.
Scan(store, prefix) == {k \in DOMAIN store.data : IsPrefix(prefix, k)}

FilterAndSort(store, ks, req) ==
    LET mod(k)    == store.data[k].mod
        before(a, b) == CASE req.order = "key"  -> Less(a, b)
                          [] req.order = "mod"  -> mod(a) < mod(b)
                          [] req.order = "last" -> mod(a) > mod(b)
    IN  SetToSortSeq({k \in ks : InKeyRange(k, req.key, req.end) /\ mod(k) >= req.minMod}, before)

-----------------------------------------------------------------------------
(* What the commands do to the store                                       *)

\* One put or delete on the data, at revision rev.
PutAt(data, k, rev) ==
    (k :> [mod |-> rev, create |-> IF k \in DOMAIN data THEN data[k].create ELSE rev]) @@ data

DeleteAt(data, k) == [j \in DOMAIN data \ {k} |-> data[j]]

\* The "put" and "delete" commands; the delete of a missing key is refused.
PutIn(store, k) == [rev |-> store.rev + 1, data |-> PutAt(store.data, k, store.rev + 1)]

DeleteFrom(store, k) ==
    IF k \notin DOMAIN store.data THEN store
    ELSE [rev |-> store.rev + 1, data |-> DeleteAt(store.data, k)]

\* evalCompare, for the modification revision of one key.
Holds(store, cmp) ==
    (IF cmp.key \in DOMAIN store.data THEN store.data[cmp.key].mod ELSE 0) = cmp.mod

\* applyTxnLocked: one revision for all operations; the delete of a key that is missing
\* beforehand stops the whole transaction.
TxnOn(store, req) ==
    LET held    == Holds(store, req.cmp)
        ops     == IF held THEN req.success ELSE req.failure
        found   == [i \in DOMAIN ops |->
                       ops[i].type = "delete" => ops[i].key \in DOMAIN store.data]
        aborted == \E i \in DOMAIN ops : ~found[i]
        rev     == store.rev + 1
        Do(data, op) == IF op.type = "put" THEN PutAt(data, op.key, rev)
                        ELSE DeleteAt(data, op.key)
    IN  [store     |-> IF ops = <<>> \/ aborted THEN store
                       ELSE [rev |-> rev, data |-> FoldLeft(Do, store.data, ops)],
         succeeded |-> held /\ ~aborted,
         ran       |-> IF aborted THEN "neither" ELSE IF held THEN "success" ELSE "failure",
         results   |-> found]

-----------------------------------------------------------------------------
(* The log and the other clients                                           *)

\* A command of this node enters the log; the call waits for its own entry.
Proposed(store, call) ==
    /\ Len(stores) <= MaxEtcdLog
    /\ stores' = Append(stores, store)
    /\ rpc' = [call EXCEPT !.pos = Len(stores) + 1]

\* Other clients put and delete, through this node or another.
OtherWrites ==
    /\ Len(stores) <= MaxEtcdLog
    /\ \E k \in EtcdKeys :
           \/ stores' = Append(stores, PutIn(Latest, k))
           \/ k \in DOMAIN Latest.data /\ stores' = Append(stores, DeleteFrom(Latest, k))
    /\ UNCHANGED <<upto, rpc, response>>

\* This node applies the next entry.
ApplyNext ==
    /\ upto < Len(stores)
    /\ upto' = upto + 1
    /\ UNCHANGED <<stores, rpc, response>>

\* Apply returns an error, before or after the entry is in the log; mapRaftErr gives the
\* client a status, and a range delete stops where it is.
ApplyFails ==
    /\ rpc.at \in {"proposed", "deleting"} /\ (rpc.at = "deleting" => rpc.todo # <<>>)
    /\ rpc' = NoRpc
    /\ response' = NoAnswer
    /\ UNCHANGED <<stores, upto>>

-----------------------------------------------------------------------------
(* The calls                                                               *)

\* since, began: what was in the log and what this node had applied at the beginning.
NewRpc(req) == [at |-> "proposed", req |-> req, since |-> Len(stores), began |-> upto,
                pos |-> 0, store |-> Local,
                todo |-> <<>>, deleted |-> 0, prev |-> <<>>, txn |-> NoAnswer]

Begin(req) == rpc.at = "none" /\ req \in EtcdRequests /\ UNCHANGED upto /\ response' = NoAnswer

\* Range: linearizableGet and linearizableRange read through the log, staleRange reads
\* the local store.
RangeRPC(req) ==
    /\ Begin(req) /\ req.op = "range"
    /\ IF req.serializable
       THEN rpc' = [NewRpc(req) EXCEPT !.at = "answering"] /\ UNCHANGED stores
       ELSE Proposed(Latest, NewRpc(req))

\* The keys each of them finds: the first filters nothing, the second has the whole store
\* sent through the log.
LinearizableGet(store, r)   == IF r.key \in DOMAIN store.data THEN <<r.key>> ELSE <<>>
LinearizableRange(store, r) == FilterAndSort(store, Scan(store, <<>>), r)
StaleRange(store, r)        == FilterAndSort(store, Scan(store, RangePrefix(r.key, r.end)), r)

\* The answer to a Range: the count is taken before the limit.
RangeResponse(store, keys, limit) ==
    [keys  |-> IF limit > 0 THEN SubSeq(keys, 1, Min({limit, Len(keys)})) ELSE keys,
     count |-> Len(keys),
     more  |-> limit > 0 /\ Len(keys) > limit,
     mods  |-> {store.data[k].mod : k \in Range(keys)}]

\* Put, with prev_kv.
PutRPC(req) ==
    /\ Begin(req) /\ req.op = "put"
    /\ Proposed(PutIn(Latest, req.key), NewRpc(req))

\* deletePrefixRange scans the local store for the keys.
DeletePrefixRange(req) ==
    SetToSortSeq({k \in Scan(Local, RangePrefix(req.key, req.end)) : InKeyRange(k, req.key, req.end)},
                 Less)

\* deleteSingleKey, whatever the range_end.
DeleteSingleKey(req) == <<req.key>>

\* DeleteRange.
DeleteRangeRPC(req) ==
    /\ Begin(req) /\ req.op = "delete"
    /\ rpc' = [NewRpc(req) EXCEPT !.at = "deleting",
                  !.todo = IF IsRangeEndPrefix(req.key, req.end) THEN DeletePrefixRange(req)
                           ELSE DeleteSingleKey(req)]
    /\ UNCHANGED stores

\* One command per key, each waited for before the next.
DeleteNext ==
    /\ rpc.at = "deleting" /\ rpc.todo # <<>>
    /\ Proposed(DeleteFrom(Latest, Head(rpc.todo)), [rpc EXCEPT !.at = "proposed"])
    /\ UNCHANGED <<upto, response>>

\* Txn.
TxnRPC(req) ==
    LET txn == TxnOn(Latest, req)
    IN  /\ Begin(req) /\ req.op = "txn"
        /\ Proposed(txn.store, [NewRpc(req) EXCEPT !.txn = txn])

\* Mutant of PrevOf: prev_kv is what the local store held when the call began.
PrevOfLocal(call) == call.store

\* prev_kv is what the command found when it was applied.
PrevOf(call) == stores[call.pos - 1]

\* Apply returns the result of the call's entry.
ApplyReturns ==
    LET key   == IF rpc.req.op = "delete" THEN Head(rpc.todo) ELSE rpc.req.key
        found == key \in DOMAIN PrevOf(rpc).data
        prev  == IF found THEN <<PrevOf(rpc).data[key]>> ELSE <<>>
    IN  /\ rpc.at = "proposed" /\ upto >= rpc.pos
        /\ rpc' = CASE rpc.req.op = "delete" ->
                          [rpc EXCEPT !.at = "deleting", !.todo = Tail(@), !.prev = @ \o prev,
                                      !.deleted = IF found THEN @ + 1 ELSE @]
                    [] rpc.req.op = "put"    -> [rpc EXCEPT !.at = "answering", !.prev = prev]
                    [] OTHER -> [rpc EXCEPT !.at = "answering", !.store = stores[rpc.pos]]
        /\ UNCHANGED <<stores, upto, response>>

\* header: the revision of the local store now.
Header == Local.rev

\* The branch whose operations shape the answer to a transaction.
AnsweredBranch(call) == IF call.txn.succeeded THEN call.req.success ELSE call.req.failure

\* buildResponseOp, for each result: its kind comes from the branch.
ResponseOps(call) ==
    [i \in DOMAIN call.txn.results |->
        IF i \in DOMAIN AnsweredBranch(call) THEN AnsweredBranch(call)[i].type ELSE "empty"]

\* The answer is put together and sent.
SendAnswer ==
    LET req  == rpc.req
        keys == IF req.serializable THEN StaleRange(rpc.store, req)
                ELSE IF req.end = <<>> THEN LinearizableGet(rpc.store, req)
                ELSE LinearizableRange(rpc.store, req)
        body == CASE req.op = "range" -> RangeResponse(rpc.store, keys, req.limit)
                  [] req.op = "txn"   -> [succeeded |-> rpc.txn.succeeded, ran |-> rpc.txn.ran,
                                          kinds |-> ResponseOps(rpc)]
                  [] OTHER            -> [prev |-> rpc.prev, deleted |-> rpc.deleted]
    IN  /\ rpc.at = "answering" \/ (rpc.at = "deleting" /\ rpc.todo = <<>>)
        /\ response' = [op |-> req.op, call |-> rpc, header |-> Header, body |-> body]
        /\ rpc' = NoRpc
        /\ UNCHANGED <<stores, upto>>

EtcdNext ==
    \/ OtherWrites
    \/ ApplyNext
    \/ ApplyFails
    \/ \E req \in EtcdRequests : RangeRPC(req) \/ PutRPC(req) \/ DeleteRangeRPC(req) \/ TxnRPC(req)
    \/ DeleteNext
    \/ ApplyReturns
    \/ SendAnswer

EtcdSpec == EtcdInit /\ [][EtcdNext]_etcdVars

-----------------------------------------------------------------------------
(* Properties                                                              *)

\* What the client meant by the key and range_end of its request.
Means(req, k) ==
    CASE req.intent = "one"      -> k = req.key
      [] req.intent = "prefix"   -> IsPrefix(req.key, k)
      [] req.intent = "from"     -> ~Less(k, req.key)
      [] req.intent = "interval" -> ~Less(k, req.key) /\ Less(k, req.end)

KeysMeant(store, req) == {k \in DOMAIN store.data : Means(req, k) /\ store.data[k].mod >= req.minMod}

\* A Range answers with exactly the keys its request means, cut at the limit, of one
\* store: for a linearizable read one no older than the log was when the call began.
\* The header is not behind what is shown: a client that watches from it on misses nothing.
RangeIsExact ==
    response.op = "range" =>
        LET r == response.call.req
            b == response.body
        IN  \E i \in DOMAIN stores :
                /\ ~r.serializable => i >= response.call.since
                /\ b.count = Cardinality(KeysMeant(stores[i], r))
                /\ Range(b.keys) \subseteq KeysMeant(stores[i], r)
                /\ Cardinality(Range(b.keys)) = Len(b.keys)
                /\ b.more <=> Len(b.keys) < b.count
                /\ \A m \in b.mods : m <= response.header

\* A Put or DeleteRange with prev_kv returns the records its own commands replaced or
\* removed, and counts those, whatever was written between the scan and the deletes.
PrevIsReplaced ==
    response.op \in {"put", "delete"} =>
        LET c    == response.call
            gone == {i \in 2..Len(stores) : \E k \in EtcdKeys :
                        /\ k \in DOMAIN stores[i - 1].data
                        /\ k \notin DOMAIN stores[i].data \/ stores[i].data[k] # stores[i - 1].data[k]}
        IN  /\ c.req.op = "delete" => c.deleted = Len(c.prev)
            /\ \A j \in DOMAIN c.prev : \E i \in gone :
                   i > c.since /\ \E k \in DOMAIN stores[i - 1].data :
                       /\ stores[i - 1].data[k] = c.prev[j]
                       /\ k \notin DOMAIN stores[i].data \/ stores[i].data[k] # c.prev[j]
            /\ c.req.op = "put" /\ c.prev = <<>> => c.req.key \notin DOMAIN stores[c.pos - 1].data

\* A DeleteRange of one key, of a prefix or of every key from one on leaves no record of
\* the range that this node held when the call began.
DeleteRangeClears ==
    response.op = "delete" /\ response.call.req.intent # "interval" =>
        LET held == stores[response.call.began].data
        IN  \A k \in DOMAIN held :
                Means(response.call.req, k) => k \notin DOMAIN Latest.data \/ Latest.data[k] # held[k]

\* Unless the delete of a missing key stopped it, a transaction's answer has one result
\* per operation of the branch that ran, of that operation's kind.
TxnAnswersItsBranch ==
    response.op = "txn" /\ response.body.ran # "neither" =>
        LET b   == response.body
            ops == IF b.ran = "success" THEN response.call.req.success
                   ELSE response.call.req.failure
        IN  b.kinds = [i \in DOMAIN ops |-> ops[i].type]

\* A Put, a DeleteRange and a Txn do what the request means and answer with what their
\* own commands did, although the node's store lags the log they are proposed to.
WriteAnswersTrue == PrevIsReplaced /\ DeleteRangeClears /\ TxnAnswersItsBranch
=============================================================================
