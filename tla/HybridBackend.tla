--------------------------- MODULE HybridBackend ---------------------------
(***************************************************************************)
(* LMCHybridBackend (storage_backend/hybrid_backend.py): an LMCLocalBackend*)
(* in front of an LMCRemoteBackend (remote_backend.py), which speaks to    *)
(* the cache server over one connection.  The main thread prefetches when  *)
(* it starts, then stores chunks that contains() does not find, as the     *)
(* cache engine does, and reads them one by one or in batches.  A peer     *)
(* instance writes to the same server and may die at any point.            *)
(*                                                                         *)
(* HybridSpec has blocking puts only.  QueuedSpec also has puts with       *)
(* blocking=False, which LMCRemoteBackend.put_worker sends on the same     *)
(* connection while the main thread goes on.                               *)
(***************************************************************************)
EXTENDS LocalBackend, CacheServer

CONSTANTS
    Self, Peer,      \* the connections of this instance and of the other one
    Mine,            \* keys of this model, worker and world size
    PeerKeys,        \* keys that the other instance puts
    Batches,         \* the key lists of batched_get
    LocalDevice,     \* local_device, where the local pool is: "cpu" or "cuda"
    MaxPeerPuts      \* bound: puts of the peer

ASSUME HybridAssumption ==
    /\ Conns = {Self, Peer} /\ Self # Peer
    /\ Mine \subseteq Keys /\ PeerKeys \subseteq Keys /\ Batches \subseteq Seq(Mine)
    /\ MaxPeerPuts \in Nat /\ NoData \notin Keys
    /\ LocalDevice \in {"cpu", "cuda"}

VARIABLES
    call,          \* what the main thread executes
    peer,          \* the key whose PUT header the peer sent last, or none
    npeer,         \* puts of the peer so far
    remote_queue,  \* LMCRemoteBackend.put_queue
    sender         \* the chunk put_worker is sending, or none

hybridVars == <<localVars, serverVars, call, peer, npeer, remote_queue, sender>>
workerVars == <<remote_queue, sender>>
peerVars == <<peer, npeer>>

Nothing == [k \in {} |-> k]
IdleCall == [op |-> "none", pc |-> "idle"]

(* keys: the argument; todo: the keys that the loop has not come to yet;   *)
(* remote_queries: what the local store does not have; checks: how often   *)
(* contains() is still called before get(); got: the results so far;       *)
(* value: the chunk that goes to the local store.                          *)
Call(op, pc, keys) ==
    [op |-> op, pc |-> pc, keys |-> keys, todo |-> keys, remote_queries |-> <<>>,
     checks |-> 1, got |-> Nothing, value |-> NoData]

HybridInit ==
    /\ LocalInit /\ ServerInit
    /\ call = Call("prefetch", "list", <<>>)
    /\ peer = NoData /\ npeer = 0
    /\ remote_queue = <<>> /\ sender = NoData

(* kv_obj.data.to(dst_device), dst_device being the model's GPU: a copy of *)
(* a chunk of the CPU pool, but for a chunk of the GPU pool, which is on   *)
(* that device already, a view of it.  A view shows what the pool chunk    *)
(* holds when it is read, the chunk of another key if it was reused.  What *)
(* the server sent is a tensor of its own.                                 *)
OnDevice(slot) ==
    IF LocalDevice = "cpu" THEN [data |-> mem_pool[slot]] ELSE [view |-> slot]
Seen(tensor) == IF "view" \in DOMAIN tensor THEN mem_pool[tensor.view] ELSE tensor.data

Key == Head(call.todo)
At(pc) == call.pc = pc /\ job["main"] = IdleJob
To(pc) == call' = [call EXCEPT !.pc = pc]

(* The answer to this key is known; the next one follows.  Faulty variant: *)
(* a missing key is asked for again.                                       *)
SkipNever == call' = [call EXCEPT !.pc = "query"]
Skip == call' = [call EXCEPT !.pc = "query", !.todo = Tail(@)]

Request(kind, what, pc) ==
    /\ SendAll(Self, Frame(kind, what))
    /\ To(pc)
    /\ UNCHANGED <<localVars, replies, lost, handler, storeState, peerVars, workerVars>>

-----------------------------------------------------------------------------
(* _prefetch: every matching key that the server lists goes to the local   *)
(* store.                                                                  *)
PrefetchList == At("list") /\ Request("list", NoData, "list_meta")

ReceiveListMeta ==
    /\ At("list_meta") /\ replies[Self] # <<>>
    /\ Recv(Self) /\ To("list_data")
    /\ UNCHANGED <<localVars, requests, lost, handler, storeState, peerVars, workerVars>>

ReceiveList ==
    /\ At("list_data") /\ replies[Self] # <<>>
    /\ Recv(Self)
    /\ call' = [call EXCEPT !.pc = "query", !.todo = Head(replies[Self]).what]
    /\ UNCHANGED <<localVars, requests, lost, handler, storeState, peerVars, workerVars>>

SkipForeign ==
    /\ At("query") /\ call.todo # <<>> /\ Key \notin Mine
    /\ Skip
    /\ UNCHANGED <<localVars, serverVars, peerVars, workerVars>>

-----------------------------------------------------------------------------
Begin(op, pc, keys) ==
    /\ At("idle") /\ ~closed /\ nops < MaxOps
    /\ nops' = nops + 1
    /\ call' = Call(op, pc, keys)
    /\ UNCHANGED <<storeVars, update_lock, put_queue, job, closed, serverVars, peerVars, workerVars>>

CallPut(k) == Begin("put", "contains", <<k>>)
CallGet(k) == Begin("get", "local", <<k>>)
CallBatchedGet(b) == Begin("batch", IF b = <<>> THEN "query" ELSE "local", b)
CallQueuedPut(k) == Begin("queued", "contains", <<k>>)

(* local_store.get for every key of the call; then the misses are asked    *)
(* for at the server.  Faulty variant: they are not.                       *)
LocalLookupOnly ==
    /\ At("local")
    /\ Touch(Key)
    /\ call' = [call EXCEPT !.pc = IF Tail(call.todo) = <<>> THEN "query" ELSE "local",
                            !.todo = Tail(@),
                            !.got = IF Key \in DOMAIN dict
                                    THEN Assoc(@, Key, OnDevice(dict[Key])) ELSE @]
    /\ UNCHANGED <<dict, free_pool, mem_pool, current_cache_size, update_lock, put_queue,
                   job, closed, nops, serverVars, peerVars, workerVars>>
LocalLookup ==
    /\ At("local")
    /\ Touch(Key)
    /\ LET left == Tail(call.todo)
           missed == IF Key \in DOMAIN dict THEN call.remote_queries
                     ELSE Append(call.remote_queries, Key)
       IN  call' = [call EXCEPT !.got = IF Key \in DOMAIN dict
                                        THEN Assoc(@, Key, OnDevice(dict[Key])) ELSE @,
                                !.remote_queries = missed,
                                !.pc = IF left = <<>> THEN "query" ELSE "local",
                                !.todo = IF left = <<>> THEN missed ELSE left]
    /\ UNCHANGED <<dict, free_pool, mem_pool, current_cache_size, update_lock, put_queue,
                   job, closed, nops, serverVars, peerVars, workerVars>>

(* remote_store.contains of the next key.  The default batched_get calls   *)
(* contains before get, which calls it again.                              *)
Query ==
    /\ At("query") /\ call.todo # <<>> /\ Key \in Mine
    /\ SendAll(Self, Frame("exist", Key))
    /\ call' = [call EXCEPT !.pc = "exist_meta", !.checks = IF call.op = "batch" THEN 2 ELSE 1]
    /\ UNCHANGED <<localVars, replies, lost, handler, storeState, peerVars, workerVars>>

(* contains of the hybrid store, before a put: locally, then remotely.     *)
ContainsLocal ==
    /\ At("contains")
    /\ IF Key \in DOMAIN dict
       THEN To("return") /\ UNCHANGED requests
       ELSE To("exist_meta") /\ SendAll(Self, Frame("exist", Key))
    /\ UNCHANGED <<localVars, replies, lost, handler, storeState, peerVars, workerVars>>

Exists == Head(replies[Self]).what = "SUCCESS"
IsPut == call.op \in {"put", "queued"}

(* The answer of a read: ask again, fetch the chunk, or go on.             *)
ReceiveExist ==
    /\ At("exist_meta") /\ replies[Self] # <<>> /\ ~IsPut
    /\ Recv(Self)
    /\ \/ /\ ~Exists
          /\ Skip /\ UNCHANGED requests
       \/ /\ Exists /\ call.checks > 1
          /\ SendAll(Self, Frame("exist", Key))
          /\ call' = [call EXCEPT !.checks = @ - 1]
       \/ /\ Exists /\ call.checks = 1
          /\ SendAll(Self, Frame("get", Key))
          /\ To("get_meta")
    /\ UNCHANGED <<localVars, lost, handler, storeState, peerVars, workerVars>>

(* The answer of a put: nothing is done for a chunk that exists; else it   *)
(* is put into the local store, always blocking.                           *)
SkipExisting ==
    /\ At("exist_meta") /\ replies[Self] # <<>> /\ IsPut /\ Exists
    /\ Recv(Self) /\ To("return")
    /\ UNCHANGED <<localVars, requests, lost, handler, storeState, peerVars, workerVars>>

PutLocal ==
    /\ At("exist_meta") /\ replies[Self] # <<>> /\ IsPut /\ ~Exists
    /\ Recv(Self)
    /\ StartBlocking(Key, Key)
    /\ To("remote_put")
    /\ UNCHANGED <<requests, lost, handler, storeState, peerVars, workerVars>>

ReceiveGetMeta ==
    /\ At("get_meta") /\ replies[Self] # <<>>
    /\ Recv(Self)
    /\ IF Exists THEN To("get_data") ELSE Skip
    /\ UNCHANGED <<localVars, requests, lost, handler, storeState, peerVars, workerVars>>

(* A chunk that was read goes through the local store.                     *)
ReceiveGet ==
    /\ At("get_data") /\ replies[Self] # <<>>
    /\ Recv(Self)
    /\ StartBlocking(Key, Head(replies[Self]).what)
    /\ call' = [call EXCEPT !.pc = "fill", !.value = Head(replies[Self]).what]
    /\ UNCHANGED <<requests, lost, handler, storeState, peerVars, workerVars>>

LocalStep ==
    /\ ContinuePut("main")
    /\ UNCHANGED <<serverVars, call, peerVars, workerVars>>

Filled ==
    /\ At("fill")
    /\ call' = [call EXCEPT !.pc = "query", !.todo = Tail(@), !.got = Assoc(@, Key, [data |-> call.value])]
    /\ UNCHANGED <<localVars, serverVars, peerVars, workerVars>>

(* connector.set: two calls of send_all.  Faulty variant: the chunk is     *)
(* kept locally only (write-back).                                         *)
SendPutSkipped ==
    /\ At("remote_put") /\ call.op = "put" /\ To("return")
    /\ UNCHANGED <<localVars, serverVars, peerVars, workerVars>>
SendPut == At("remote_put") /\ call.op = "put" /\ Request("put", Key, "put_payload")

SendPayload == At("put_payload") /\ Request("data", Key, "return")

Return ==
    /\ At("return") \/ (At("query") /\ call.todo = <<>>)
    /\ call' = IdleCall
    /\ UNCHANGED <<localVars, serverVars, peerVars, workerVars>>

(* close: the local worker is joined, then the socket is closed.           *)
CloseLocal ==
    /\ At("idle") /\ (Close \/ StopWorker)
    /\ UNCHANGED <<serverVars, call, peerVars, workerVars>>

CloseConnection ==
    /\ job["worker"].pc = "stopped"
    /\ Disconnect(Self)
    /\ UNCHANGED <<localVars, call, peerVars, workerVars>>

Main ==
    \/ PrefetchList \/ ReceiveListMeta \/ ReceiveList \/ SkipForeign
    \/ LocalLookup \/ Query \/ ContainsLocal \/ ReceiveExist \/ SkipExisting \/ PutLocal
    \/ ReceiveGetMeta \/ ReceiveGet \/ LocalStep \/ Filled
    \/ SendPut \/ SendPayload \/ Return

-----------------------------------------------------------------------------
(* The peer puts chunks of its own, and may be lost between two frames.    *)
PeerSend(f) ==
    /\ Peer \notin lost
    /\ SendAll(Peer, f)
    /\ UNCHANGED <<localVars, replies, lost, handler, storeState, call, workerVars>>

PeerHeader(k) ==
    /\ peer = NoData /\ npeer < MaxPeerPuts
    /\ PeerSend(Frame("put", k))
    /\ peer' = k /\ npeer' = npeer + 1

PeerPayload ==
    /\ peer # NoData
    /\ PeerSend(Frame("data", peer))
    /\ peer' = NoData /\ UNCHANGED npeer

PeerLost == Disconnect(Peer) /\ UNCHANGED <<localVars, call, peerVars, workerVars>>

Server(c) == HandleClient(c) /\ UNCHANGED <<localVars, call, peerVars, workerVars>>

(* Nothing is left to do: the instance is closed, or waits for a lock that *)
(* will not be released.                                                   *)
HybridStopped == (Self \in lost \/ Wedged) /\ UNCHANGED hybridVars

HybridNext ==
    \/ \E k \in Mine : CallPut(k) \/ CallGet(k)
    \/ \E b \in Batches : CallBatchedGet(b)
    \/ Main
    \/ CloseLocal \/ CloseConnection \/ HybridStopped
    \/ \E k \in PeerKeys : PeerHeader(k)
    \/ PeerPayload \/ PeerLost
    \/ \E c \in Conns : Server(c)

(* The main thread and the handlers go on while they can; the peer, and    *)
(* the callers of the main thread, may stop at any point.                  *)
HybridFairness == WF_hybridVars(Main) /\ \A c \in Conns : WF_hybridVars(Server(c))
HybridSpec == HybridInit /\ [][HybridNext]_hybridVars /\ HybridFairness

-----------------------------------------------------------------------------
(* put(blocking=False): the remote part is queued, and put_worker sends it *)
(* over the connection that the main thread uses.                          *)
QueueRemotePut ==
    /\ At("remote_put") /\ call.op = "queued"
    /\ remote_queue' = Append(remote_queue, Key)
    /\ To("return")
    /\ UNCHANGED <<localVars, serverVars, peerVars, sender>>

WorkerHeader ==
    /\ sender = NoData /\ remote_queue # <<>>
    /\ SendAll(Self, Frame("put", Head(remote_queue)))
    /\ sender' = Head(remote_queue) /\ remote_queue' = Tail(remote_queue)
    /\ UNCHANGED <<localVars, replies, lost, handler, storeState, call, peerVars>>

WorkerPayload ==
    /\ sender # NoData
    /\ SendAll(Self, Frame("data", sender))
    /\ sender' = NoData
    /\ UNCHANGED <<localVars, replies, lost, handler, storeState, call, peerVars, remote_queue>>

QueuedNext ==
    \/ \E k \in Mine : CallQueuedPut(k) \/ CallGet(k)
    \/ Main
    \/ QueueRemotePut \/ WorkerHeader \/ WorkerPayload
    \/ Server(Self)

QueuedSpec == HybridInit /\ [][QueuedNext]_hybridVars

-----------------------------------------------------------------------------
(* What is cached here, stored at the server or returned for a key is the  *)
(* data of that key: a chunk never ends up under another one's key, and no *)
(* header is taken for a chunk, whatever the two instances send and        *)
(* wherever the peer is lost.  What was returned holds with the CPU pool:  *)
(* a view of a GPU pool may change when a later chunk of the same batch    *)
(* goes through the local store.                                           *)
NeverLies ==
    /\ \A k \in DOMAIN dict : mem_pool[dict[k]] = k
    /\ \A k \in DOMAIN stored : stored[k] = k
    /\ call.pc # "idle" => \A k \in DOMAIN call.got : Seen(call.got[k]) = k

(* The PUTs on their way to the server: in the stream of the connection or *)
(* received by its handler.                                                *)
InTransit(k) ==
    \/ \E i \in DOMAIN requests[Self] : requests[Self][i] = Frame("data", k)
    \/ handler[Self].pc = "store" /\ handler[Self].key = k

(* "It implements write-through and read-through caching": a chunk in the  *)
(* local store is at the server, or on its way there, or the call that put *)
(* it has not returned yet.                                                *)
WriteThrough ==
    \A k \in DOMAIN dict :
        \/ k \in DOMAIN stored
        \/ InTransit(k)
        \/ call.pc \in {"remote_put", "put_payload"} /\ Key = k

(* The connector and the server agree on what comes next: a PUT is not     *)
(* answered, everything else is answered with a code, and then with the    *)
(* bytes if there are any.  The reply the main thread waits for is the one *)
(* it gets, and nothing is left over between two requests.                 *)
Awaited ==
    CASE call.pc \in {"list_meta", "exist_meta", "get_meta"} -> {"meta"}
      [] call.pc \in {"list_data", "get_data"} -> {"data"}
      [] OTHER -> {}
RepliesFit ==
    job["main"] = IdleJob =>
        /\ replies[Self] # <<>> => Head(replies[Self]).kind \in Awaited
        /\ Awaited = {"data"} => replies[Self] # <<>>

(* Every call returns, however slow the peer is: the server waits for a    *)
(* chunk before it takes the lock.  Only a peer that is lost between a PUT *)
(* header and its bytes can stop the others.                               *)
EveryCallReturns == call.pc # "idle" ~> (call.pc = "idle" \/ Wedged)

(* A put is never acknowledged, but the server receives it, even if the    *)
(* instance closes right after the put.                                    *)
PutsArrive ==
    \A k \in Mine : k \in DOMAIN dict ~> (k \in DOMAIN stored \/ Wedged)
=============================================================================
