---------------------------- MODULE CacheServer ----------------------------
(***************************************************************************)
(* LMCacheServer (server/__main__.py) with the memory store                *)
(* LMSLocalBackend and the connector's protocol (lm_connector.py,          *)
(* protocol.py).  A client writes frames to the byte stream of its         *)
(* connection: one header per request, and a header followed by the bytes  *)
(* of the chunk for a PUT, which the server does not acknowledge.  The     *)
(* server runs one handler thread per connection; they share the store and *)
(* its update_lock.  list_keys takes no lock.  DummyEvictor evicts nothing.*)
(*                                                                         *)
(* Nothing marks where a frame begins: a handler that expects the bytes of *)
(* a chunk takes whatever comes next.                                      *)
(***************************************************************************)
EXTENDS Dicts, LRUEvictor

CONSTANT Conns      \* the connections of the server, one client each

Garbage == "garbage"      \* bytes of another frame, read as a chunk
NoData == "none"          \* Python's None

VARIABLES
    requests, replies,    \* for each connection, the frames on their way
    lost,                 \* connections that the client closed or lost
    handler,              \* for each connection, the thread of handle_client
    stored, stored_keys,  \* self.dict: key -> data, and its keys in order
    store_lock            \* "free" or the connection whose handler holds it

storeState == <<stored, stored_keys, store_lock>>
serverVars == <<requests, replies, lost, handler, storeState>>

Frame(kind, what) == [kind |-> kind, what |-> what]

AtHeader == [pc |-> "header"]
ServerInit ==
    /\ requests = [c \in Conns |-> <<>>] /\ replies = [c \in Conns |-> <<>>]
    /\ lost = {}
    /\ handler = [c \in Conns |-> AtHeader]
    /\ stored = [k \in {} |-> k] /\ stored_keys = <<>>
    /\ store_lock = "free"

-----------------------------------------------------------------------------
(* The connector: send_all holds socket_lock for one frame only.           *)
SendAll(c, f) == requests' = [requests EXCEPT ![c] = Append(@, f)]
Recv(c) == replies' = [replies EXCEPT ![c] = Tail(@)]

(* The client closes its socket or dies; what it sent is still delivered.  *)
Disconnect(c) ==
    /\ c \notin lost
    /\ lost' = lost \cup {c}
    /\ UNCHANGED <<requests, replies, handler, storeState>>

-----------------------------------------------------------------------------
(* The bytes of a chunk are no header: decoding the key in them raises and *)
(* the connection is closed.                                               *)
NextPc(kind) == IF kind = "data" THEN "closed" ELSE kind

ReceiveHeader(c) ==
    /\ handler[c].pc = "header" /\ requests[c] # <<>>
    /\ LET f == Head(requests[c])
       IN  handler' = [handler EXCEPT ![c] = [pc |-> NextPc(f.kind), key |-> f.what]]
    /\ requests' = [requests EXCEPT ![c] = Tail(@)]
    /\ UNCHANGED <<replies, lost, storeState>>

(* receive_all returns None when the client is gone: between two requests  *)
(* the thread ends.  Faulty variant: it does not read what is left.        *)
EndOfStreamEarly(c) ==
    /\ handler[c].pc = "header" /\ c \in lost
    /\ handler' = [handler EXCEPT ![c].pc = "closed"]
    /\ UNCHANGED <<requests, replies, lost, storeState>>
EndOfStream(c) ==
    /\ handler[c].pc = "header" /\ requests[c] = <<>> /\ c \in lost
    /\ handler' = [handler EXCEPT ![c].pc = "closed"]
    /\ UNCHANGED <<requests, replies, lost, storeState>>

(* CLIENT_PUT: all of the chunk is received before the lock is taken.  A   *)
(* header in front of it is taken for its first bytes, and as many of its  *)
(* last bytes for the next header (chunks are longer than headers).        *)
Received(c, data) ==
    handler' = [handler EXCEPT ![c] = [pc |-> "store", key |-> handler[c].key, data |-> data]]

Chunks(c) == {i \in DOMAIN requests[c] : requests[c][i].kind = "data"}

ReceivePayload(c) ==
    /\ handler[c].pc = "put" /\ Chunks(c) # {}
    /\ LET i == CHOOSE i \in Chunks(c) : \A j \in Chunks(c) : i <= j
           rest == SubSeq(requests[c], i + 1, Len(requests[c]))
       IN  IF i = 1
           THEN /\ Received(c, requests[c][1].what)
                /\ requests' = [requests EXCEPT ![c] = rest]
           ELSE /\ Received(c, Garbage)
                /\ requests' = [requests EXCEPT ![c] = <<Frame("data", Garbage)>> \o rest]
    /\ UNCHANGED <<replies, lost, storeState>>

(* The client is gone before the chunk is complete.  Faulty variant: the   *)
(* part that arrived is kept.                                              *)
LosePayloadPartial(c) ==
    /\ handler[c].pc = "put" /\ Chunks(c) = {} /\ c \in lost
    /\ Received(c, Garbage)
    /\ UNCHANGED <<requests, replies, lost, storeState>>
LosePayload(c) ==
    /\ handler[c].pc = "put" /\ Chunks(c) = {} /\ c \in lost
    /\ Received(c, NoData)
    /\ UNCHANGED <<requests, replies, lost, storeState>>

(* data_store.put.  Faulty variant: the PUT is acknowledged, which the     *)
(* client does not expect.                                                 *)
Insert(k, data) ==
    /\ stored' = Assoc(stored, k, data)
    /\ stored_keys' = Inserted(stored_keys, k)
StoreAcknowledged(c) ==
    /\ handler[c].pc = "store" /\ handler[c].data # NoData /\ store_lock = "free"
    /\ Insert(handler[c].key, handler[c].data)
    /\ handler' = [handler EXCEPT ![c] = AtHeader]
    /\ replies' = [replies EXCEPT ![c] = Append(@, Frame("meta", "SUCCESS"))]
    /\ UNCHANGED <<requests, lost, store_lock>>
Store(c) ==
    /\ handler[c].pc = "store" /\ handler[c].data # NoData /\ store_lock = "free"
    /\ Insert(handler[c].key, handler[c].data)
    /\ handler' = [handler EXCEPT ![c] = AtHeader]
    /\ UNCHANGED <<requests, replies, lost, store_lock>>

(* put(key, None): get_size raises, and nothing releases the lock.         *)
StoreNone(c) ==
    /\ handler[c].pc = "store" /\ handler[c].data = NoData /\ store_lock = "free"
    /\ store_lock' = c
    /\ handler' = [handler EXCEPT ![c].pc = "raised"]
    /\ UNCHANGED <<requests, replies, lost, stored, stored_keys>>

Reply(c, frames) ==
    /\ replies' = [replies EXCEPT ![c] = @ \o frames]
    /\ handler' = [handler EXCEPT ![c] = AtHeader]
    /\ UNCHANGED <<requests, lost, storeState>>

(* CLIENT_GET: one reply for a miss, the bytes of the chunk after it for   *)
(* a hit.                                                                  *)
HandleGet(c) ==
    /\ handler[c].pc = "get" /\ store_lock = "free"
    /\ LET k == handler[c].key
       IN  Reply(c, IF k \in DOMAIN stored
                    THEN <<Frame("meta", "SUCCESS"), Frame("data", stored[k])>>
                    ELSE <<Frame("meta", "FAIL")>>)

(* CLIENT_EXIST reads the keys without the lock.                           *)
HandleExist(c) ==
    /\ handler[c].pc = "exist"
    /\ Reply(c, <<Frame("meta", IF handler[c].key \in DOMAIN stored
                                THEN "SUCCESS" ELSE "FAIL")>>)

HandleList(c) ==
    /\ handler[c].pc = "list"
    /\ Reply(c, <<Frame("meta", "SUCCESS"), Frame("data", stored_keys)>>)

HandleClient(c) ==
    \/ ReceiveHeader(c) \/ EndOfStream(c)
    \/ ReceivePayload(c) \/ LosePayload(c) \/ Store(c) \/ StoreNone(c)
    \/ HandleGet(c) \/ HandleExist(c) \/ HandleList(c)

-----------------------------------------------------------------------------
(* A handler died in put and kept the lock of the store.                   *)
Wedged == \E c \in Conns : handler[c].pc = "raised"
=============================================================================
