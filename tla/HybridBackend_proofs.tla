------------------------ MODULE HybridBackend_proofs ------------------------
(***************************************************************************)
(* Proofs about HybridBackend with blocking puts: the framing of the two   *)
(* connections, the conversation of the main thread with the server, and   *)
(* what is known to be cached.                                             *)
(***************************************************************************)
EXTENDS MCHybridBackend, LocalBackend_proofs

(***************************************************************************)
(* The inductive invariant.  First the types of what is sent, of the       *)
(* handlers and of the call.                                               *)
(***************************************************************************)
Frames == [kind : {"put", "data", "exist", "get"}, what : Keys] \cup {Frame("list", NoData)}

Handlers ==
    {AtHeader, [pc |-> "closed"], [pc |-> "list", key |-> NoData]}
    \cup [pc : {"put", "exist", "get"}, key : Keys]
    \cup [pc : {"store", "raised"}, key : Keys, data : Keys \cup {NoData}]

(* The results of a call: each key with its own data, or, if the pool is   *)
(* on the GPU, with a view of a pool chunk.                                *)
TensorsOf(k) == {[data |-> k]} \cup (IF LocalDevice = "cpu" THEN {} ELSE [view : PoolChunks])
Results ==
    UNION {{f \in [S -> UNION {TensorsOf(k) : k \in Keys}] : \A k \in S : f[k] \in TensorsOf(k)}
           : S \in SUBSET Keys}

ListPcs == {"list", "list_meta", "list_data"}
ReadPcs == ListPcs \cup {"local", "query", "exist_meta", "get_meta", "get_data", "fill"}
WritePcs == {"contains", "exist_meta", "remote_put", "put_payload", "return"}
KeyPcs == (ReadPcs \cup WritePcs) \ (ListPcs \cup {"query"})

Calls ==
    [op : {"prefetch", "put", "get", "batch"}, pc : ReadPcs \cup WritePcs, keys : Seq(Keys),
     todo : Seq(Keys), remote_queries : Seq(Keys), checks : {1, 2}, got : Results,
     value : Keys \cup {NoData}]

CallShape ==
    /\ call.pc \in IF IsPut THEN WritePcs ELSE ReadPcs
    /\ call.pc \in KeyPcs => call.todo # <<>>
    /\ IsPut => Range(call.keys) = {Key}
    /\ Range(call.keys) \subseteq Mine
    /\ call.pc \in ListPcs => call.op = "prefetch"
    /\ call.pc = "fill" => call.value = Key
CallInv == call = IdleCall \/ (call \in Calls /\ CallShape)

(* The local store is used by the main thread alone.                       *)
JobInv ==
    /\ put_queue = <<>>
    /\ job["worker"].pc \in {"idle", "stopped"} /\ job["main"].pc # "stopped"
    /\ Putting("main") => call.pc \in {"remote_put", "fill"} /\ job["main"].key = Key
    /\ job["worker"].pc = "stopped" => closed
    /\ closed => call = IdleCall
    /\ Self \in lost => closed

(***************************************************************************)
(* Framing.  What a handler has not finished with: the header of a PUT     *)
(* whose bytes it expects, and what is behind it.  The bytes of a chunk    *)
(* follow the header of their key, and only the last header may still be   *)
(* without, if the client has not sent them yet (k).                       *)
(***************************************************************************)
Stream(h, r) == IF h.pc = "put" THEN <<Frame("put", h.key)>> \o r ELSE r

WellFramed(s, k) ==
    \A i \in DOMAIN s :
        /\ s[i].kind = "data" => i - 1 \in DOMAIN s /\ s[i - 1] = Frame("put", s[i].what)
        /\ s[i].kind = "put" => IF i = Len(s) THEN s[i].what = k ELSE s[i + 1].kind = "data"
EndsOpen(s, k) == s # <<>> /\ s[Len(s)] = Frame("put", k)

(* The key whose bytes the client of c is about to send.                   *)
Open(c) == IF c = Peer THEN peer ELSE IF call.pc = "put_payload" THEN Key ELSE NoData

FrameOK(c) ==
    /\ requests[c] \in Seq(Frames) /\ handler[c] \in Handlers
    /\ WellFramed(Stream(handler[c], requests[c]), Open(c))
    /\ Open(c) # NoData /\ c \notin lost => EndsOpen(Stream(handler[c], requests[c]), Open(c))
    /\ handler[c].pc = "store" =>
          handler[c].data = handler[c].key \/ (handler[c].data = NoData /\ c = Peer)

ServerInv ==
    /\ DOMAIN requests = Conns /\ DOMAIN replies = Conns /\ DOMAIN handler = Conns
    /\ DOMAIN stored \subseteq Keys /\ \A k \in DOMAIN stored : stored[k] = k
    /\ stored_keys \in Seq(Keys)
    /\ peer \in Keys \cup {NoData}
    /\ \A c \in Conns : FrameOK(c)

(***************************************************************************)
(* The conversation.  A question is the last thing that was sent; or the   *)
(* handler has it; or it is answered, and the connection is quiet.         *)
(***************************************************************************)
PutFrames(s) == \A i \in DOMAIN s : s[i].kind \in {"put", "data"}
Quiet == requests[Self] = <<>> /\ handler[Self] = AtHeader
Yes == Frame("meta", "SUCCESS")
No == Frame("meta", "FAIL")

Waits == call.pc \in {"list_meta", "exist_meta", "get_meta"}
Question ==
    CASE call.pc = "list_meta" -> Frame("list", NoData)
      [] call.pc = "exist_meta" -> Frame("exist", Key)
      [] OTHER -> Frame("get", Key)

Asked ==
    /\ replies[Self] = <<>> /\ handler[Self].pc \in {"header", "put", "store"}
    /\ \E s \in Seq(Frames) : PutFrames(s) /\ requests[Self] = Append(s, Question)
Taken ==
    /\ replies[Self] = <<>> /\ requests[Self] = <<>>
    /\ handler[Self] = [pc |-> Question.kind, key |-> Question.what]
Answered ==
    /\ Quiet
    /\ \/ /\ call.pc = "list_meta"
          /\ \E l \in Seq(Keys) : replies[Self] = <<Yes, Frame("data", l)>>
       \/ /\ call.pc \in {"exist_meta", "get_meta"} /\ Key \notin known
          /\ replies[Self] = <<No>>
       \/ call.pc = "exist_meta" /\ Key \in DOMAIN stored /\ replies[Self] = <<Yes>>
       \/ /\ call.pc = "get_meta" /\ Key \in DOMAIN stored
          /\ replies[Self] = <<Yes, Frame("data", Key)>>

Silent ==
    /\ replies[Self] = <<>> /\ PutFrames(requests[Self])
    /\ handler[Self].pc \in {"header", "put", "store", "closed"}

TalkInv ==
    /\ handler[Self].pc = "closed" => Self \in lost
    /\ Waits => Asked \/ Taken \/ Answered
    /\ call.pc = "list_data" => Quiet /\ \E l \in Seq(Keys) : replies[Self] = <<Frame("data", l)>>
    /\ call.pc = "get_data" => Quiet /\ replies[Self] = <<Frame("data", Key)>>
    /\ ~Waits /\ call.pc \notin {"list_data", "get_data"} => Silent

(***************************************************************************)
(* What the server has or will have.  It never loses a key, so what a      *)
(* caller knows of is safe; and a read still has to come to every known    *)
(* key of its list that it has not got.                                    *)
(***************************************************************************)
Safe(k) == k \in DOMAIN stored \/ InTransit(k)

Covered ==
    call.op \in {"get", "batch"} =>
        IF call.pc = "local"
        THEN Range(call.keys) \subseteq
                DOMAIN call.got \cup Range(call.remote_queries) \cup Range(call.todo)
        ELSE known \cap Range(call.keys) \subseteq DOMAIN call.got \cup Range(call.todo)

SafeInv ==
    /\ WriteThrough
    /\ \A k \in known : Safe(k)
    /\ call # IdleCall => \A k \in DOMAIN call.got : Safe(k)
    /\ call.pc \in {"get_data", "fill"} => Key \in DOMAIN stored
    /\ call.pc = "return" => Safe(Key)
    /\ Covered

HybridInv == StoreInv /\ CallInv /\ JobInv /\ ServerInv /\ TalkInv /\ SafeInv
-----------------------------------------------------------------------------
(***************************************************************************)
(* Frames and streams.                                                     *)
(***************************************************************************)
(* The fields of a frame.                                                  *)
LEMMA FrameFields ==
    ASSUME NEW kind, NEW what
    PROVE  Frame(kind, what).kind = kind /\ Frame(kind, what).what = what
BY DEF Frame

(* The frames that clients send.                                           *)
LEMMA FrameTypes ==
    /\ \A kind \in {"put", "data", "exist", "get"}, k \in Keys : Frame(kind, k) \in Frames
    /\ Frame("list", NoData) \in Frames
    /\ \A f \in Frames : /\ f = Frame(f.kind, f.what)
                         /\ f.kind \in {"put", "data", "exist", "get", "list"}
                         /\ f.kind = "list" => f.what = NoData
                         /\ f.kind # "list" => f.what \in Keys
BY DEF Frames, Frame

(* A question behind a stream that is complete.                            *)
LEMMA FramedQuestion ==
    ASSUME NEW s \in Seq(Frames), WellFramed(s, NoData), NEW f \in Frames, f.kind \notin {"put", "data"}
    PROVE  WellFramed(Append(s, f), NoData)
<1>1. PICK n \in Nat : n = Len(s) /\ DOMAIN s = 1 .. n
  OBVIOUS
<1>a. Append(s, f) \in Seq(Frames)
  OBVIOUS
<1>2. PICK t \in Seq(Frames) : t = Append(s, f)
  BY <1>a
<1>3. DOMAIN t = 1 .. n + 1 /\ Len(t) = n + 1 /\ t[n + 1] = f /\ \A i \in 1 .. n : t[i] = s[i]
  BY <1>1, <1>2
<1>4. \A i \in 1 .. n : s[i].kind = "put" => i # n
  BY <1>1, FrameTypes, HybridAssumption DEF WellFramed
<1>5. ASSUME NEW i \in 1 .. n
      PROVE  /\ t[i].kind = "data" => i - 1 \in DOMAIN t /\ t[i - 1] = Frame("put", t[i].what)
             /\ t[i].kind = "put" => i # n + 1 /\ t[i + 1].kind = "data"
  BY <1>1, <1>3, <1>4 DEF WellFramed
<1> QED
  BY <1>2, <1>3, <1>5 DEF WellFramed

(* The header of a PUT behind a stream that is complete.                   *)
LEMMA FramedHeader ==
    ASSUME NEW s \in Seq(Frames), WellFramed(s, NoData), NEW k \in Keys
    PROVE  /\ WellFramed(Append(s, Frame("put", k)), k)
           /\ EndsOpen(Append(s, Frame("put", k)), k)
<1>1. PICK n \in Nat : n = Len(s) /\ DOMAIN s = 1 .. n
  OBVIOUS
<1>0. PICK f \in Frames : f = Frame("put", k) /\ f.kind = "put" /\ f.what = k
  BY FrameTypes, FrameFields
<1>a. Append(s, f) \in Seq(Frames)
  OBVIOUS
<1>2. PICK t \in Seq(Frames) : t = Append(s, f)
  BY <1>a
<1>3. DOMAIN t = 1 .. n + 1 /\ Len(t) = n + 1 /\ t[n + 1] = f /\ \A i \in 1 .. n : t[i] = s[i]
  BY <1>1, <1>2
<1>4. \A i \in 1 .. n : s[i].kind = "put" => i # n
  BY <1>1, FrameTypes, HybridAssumption DEF WellFramed
<1>5. ASSUME NEW i \in 1 .. n
      PROVE  /\ t[i].kind = "data" => i - 1 \in DOMAIN t /\ t[i - 1] = Frame("put", t[i].what)
             /\ t[i].kind = "put" => i # n + 1 /\ t[i + 1].kind = "data"
  BY <1>1, <1>3, <1>4 DEF WellFramed
<1>6. WellFramed(t, k)
  BY <1>0, <1>3, <1>5 DEF WellFramed
<1> QED
  BY <1>0, <1>2, <1>3, <1>6 DEF EndsOpen

(* The bytes behind their header.                                          *)
LEMMA FramedBytes ==
    ASSUME NEW s \in Seq(Frames), NEW k \in Keys, WellFramed(s, k), EndsOpen(s, k)
    PROVE  WellFramed(Append(s, Frame("data", k)), NoData)
<1>1. PICK n \in Nat : n = Len(s) /\ DOMAIN s = 1 .. n /\ n > 0
  BY EmptySeq DEF EndsOpen
<1>0. PICK f \in Frames : f = Frame("data", k) /\ f.kind = "data" /\ f.what = k
  BY FrameTypes, FrameFields
<1>a. Append(s, f) \in Seq(Frames)
  OBVIOUS
<1>2. PICK t \in Seq(Frames) : t = Append(s, f)
  BY <1>a
<1>3. DOMAIN t = 1 .. n + 1 /\ Len(t) = n + 1 /\ t[n + 1] = f /\ \A i \in 1 .. n : t[i] = s[i]
  BY <1>1, <1>2
<1>4. s[n] = Frame("put", k)
  BY <1>1 DEF EndsOpen
<1>5. ASSUME NEW i \in 1 .. n
      PROVE  /\ t[i].kind = "data" => i - 1 \in DOMAIN t /\ t[i - 1] = Frame("put", t[i].what)
             /\ t[i].kind = "put" => i # n + 1 /\ t[i + 1].kind = "data"
  BY <1>0, <1>1, <1>3 DEF WellFramed
<1>6. n + 1 - 1 \in DOMAIN t /\ t[n + 1 - 1] = Frame("put", f.what)
  BY <1>0, <1>1, <1>3, <1>4
<1>7. WellFramed(t, NoData)
  BY <1>0, <1>3, <1>5, <1>6 DEF WellFramed
<1> QED
  BY <1>0, <1>2, <1>7

(* A stream never begins with the bytes of a chunk.                        *)
LEMMA FramedFirst ==
    ASSUME NEW s \in Seq(Frames), s # <<>>, NEW k, WellFramed(s, k)
    PROVE  s[1].kind # "data"
BY EmptySeq DEF WellFramed

(* A question at the head is taken.                                        *)
LEMMA FramedRest ==
    ASSUME NEW s \in Seq(Frames), s # <<>>, NEW k, WellFramed(s, k), s[1].kind # "put"
    PROVE  /\ WellFramed(Tail(s), k)
           /\ EndsOpen(s, k) => EndsOpen(Tail(s), k)
<1>1. PICK n \in Nat : n = Len(s) /\ DOMAIN s = 1 .. n /\ n > 0
  BY EmptySeq
<1>a. Tail(s) \in Seq(Frames)
  OBVIOUS
<1>2. PICK t \in Seq(Frames) : t = Tail(s)
  BY <1>a
<1>3. DOMAIN t = 1 .. n - 1 /\ Len(t) = n - 1 /\ \A i \in 1 .. n - 1 : t[i] = s[i + 1]
  BY <1>1, <1>2
<1>4. ASSUME NEW i \in 1 .. n - 1
      PROVE  /\ t[i].kind = "data" => i - 1 \in DOMAIN t /\ t[i - 1] = Frame("put", t[i].what)
             /\ t[i].kind = "put" => IF i = n - 1 THEN t[i].what = k ELSE t[i + 1].kind = "data"
  <2>1. i + 1 \in 1 .. n /\ t[i] = s[i + 1]
    BY <1>3
  <2>2. s[1].kind # "put" /\ Frame("put", s[i + 1].what).kind = "put"
    BY FrameFields
  <2>3. ASSUME t[i].kind = "data" PROVE i - 1 \in DOMAIN t /\ t[i - 1] = Frame("put", t[i].what)
    <3>1. s[i] = Frame("put", s[i + 1].what)
      BY <1>1, <2>1, <2>3 DEF WellFramed
    <3>2. i # 1
      BY <2>2, <3>1
    <3> QED
      BY <1>3, <2>1, <3>1, <3>2
  <2>4. ASSUME t[i].kind = "put" PROVE IF i = n - 1 THEN t[i].what = k ELSE t[i + 1].kind = "data"
    <3>1. PICK j \in DOMAIN s : j = i + 1 /\ s[j] = t[i]
      BY <1>1, <2>1
    <3>2. IF j = n THEN s[j].what = k ELSE s[j + 1].kind = "data"
      BY <1>1, <2>4, <3>1 DEF WellFramed
    <3>3. CASE i = n - 1
      BY <3>1, <3>2, <3>3
    <3>4. CASE i # n - 1
      <4>1. j # n /\ i + 1 \in 1 .. n - 1
        BY <3>1, <3>4
      <4>2. t[i + 1] = s[j + 1]
        BY <1>3, <3>1, <4>1
      <4> QED
        BY <3>2, <3>4, <4>1, <4>2
    <3> QED
      BY <3>3, <3>4
  <2> QED
    BY <2>3, <2>4
<1>5. WellFramed(t, k)
  BY <1>3, <1>4 DEF WellFramed
<1>6. ASSUME EndsOpen(s, k) PROVE EndsOpen(t, k)
  <2>1. s[n] = Frame("put", k) /\ Frame("put", k).kind = "put"
    BY <1>1, <1>6, FrameFields DEF EndsOpen
  <2>2. n # 1
    BY <2>1
  <2> QED
    BY <1>1, <1>3, <2>1, <2>2 DEF EndsOpen
<1> QED
  BY <1>2, <1>5, <1>6

(* A PUT at the head: its bytes are next, if they were sent.               *)
LEMMA FramedPut ==
    ASSUME NEW s \in Seq(Frames), s # <<>>, NEW k, WellFramed(s, k), s[1].kind = "put"
    PROVE  IF Len(s) = 1 THEN s[1].what = k
           ELSE /\ s[2] = Frame("data", s[1].what)
                /\ WellFramed(Tail(Tail(s)), k)
                /\ EndsOpen(s, k) => EndsOpen(Tail(Tail(s)), k)
<1>1. PICK n \in Nat : n = Len(s) /\ DOMAIN s = 1 .. n /\ n > 0
  BY EmptySeq
<1>2. CASE n = 1
  BY <1>1, <1>2 DEF WellFramed
<1>3. CASE n # 1
  <2>a. Tail(s) \in Seq(Frames)
    OBVIOUS
  <2>b. PICK u \in Seq(Frames) : u = Tail(s)
    BY <2>a
  <2>c. Len(u) = n - 1 /\ u # <<>> /\ \A i \in 1 .. n - 1 : u[i] = s[i + 1]
    <3>1. Len(u) = n - 1 /\ \A i \in 1 .. n - 1 : u[i] = s[i + 1]
      BY <1>1, <2>b
    <3>2. Len(u) # 0
      BY <1>1, <1>3, <3>1
    <3> QED
      BY <3>1, <3>2
  <2>d. Tail(u) \in Seq(Frames)
    BY <2>c
  <2>1. PICK t \in Seq(Frames) : t = Tail(u)
    BY <2>d
  <2>2. DOMAIN t = 1 .. n - 2 /\ Len(t) = n - 2 /\ \A i \in 1 .. n - 2 : t[i] = s[i + 2]
    BY <1>1, <1>3, <2>1, <2>c
  <2>3. s[2].kind = "data" /\ s[2] \in Frames
    BY <1>1, <1>3 DEF WellFramed
  <2>4. s[1] = Frame("put", s[2].what)
    <3>1. 2 \in DOMAIN s /\ 2 - 1 = 1
      BY <1>1, <1>3
    <3>2. s[2 - 1] = Frame("put", s[2].what)
      BY <2>3, <3>1 DEF WellFramed
    <3> QED
      BY <3>1, <3>2
  <2>5. s[2] = Frame("data", s[1].what)
    BY <2>3, <2>4, FrameTypes, FrameFields
  <2>6. ASSUME NEW i \in 1 .. n - 2
        PROVE  /\ t[i].kind = "data" => i - 1 \in DOMAIN t /\ t[i - 1] = Frame("put", t[i].what)
               /\ t[i].kind = "put" => IF i = n - 2 THEN t[i].what = k ELSE t[i + 1].kind = "data"
    <3>1. i + 2 \in 1 .. n /\ t[i] = s[i + 2]
      BY <2>2
    <3>a. PICK j \in DOMAIN s : j = i + 2
      BY <1>1, <3>1
    <3>b. j - 1 = i + 1 /\ j + 1 = i + 3
      BY <3>a
    <3>c. /\ s[j].kind = "data" => s[j - 1] = Frame("put", s[j].what)
          /\ s[j].kind = "put" => IF j = n THEN s[j].what = k ELSE s[j + 1].kind = "data"
      BY <1>1 DEF WellFramed
    <3>2. ASSUME t[i].kind = "data" PROVE i - 1 \in DOMAIN t /\ t[i - 1] = Frame("put", t[i].what)
      <4>1. s[i + 1] = Frame("put", s[i + 2].what) /\ s[i + 1].kind = "put"
        BY <3>1, <3>a, <3>b, <3>c, <3>2, FrameFields
      <4>2. i # 1
        BY <2>3, <4>1
      <4> QED
        BY <2>2, <3>1, <4>1, <4>2
    <3>3. ASSUME t[i].kind = "put" PROVE IF i = n - 2 THEN t[i].what = k ELSE t[i + 1].kind = "data"
      <4>1. CASE i = n - 2
        BY <3>1, <3>a, <3>c, <3>3, <4>1
      <4>2. CASE i # n - 2
        <5>1. i + 1 \in 1 .. n - 2 /\ j # n
          BY <3>a, <4>2
        <5>2. t[i + 1] = s[j + 1]
          <6>1. t[i + 1] = s[i + 1 + 2] /\ i + 1 + 2 = j + 1
            BY <2>2, <3>a, <5>1
          <6> QED
            BY <6>1
        <5>3. s[j].kind = "put"
          BY <3>1, <3>a, <3>3
        <5>4. s[j + 1].kind = "data"
          BY <3>c, <5>1, <5>3
        <5> QED
          BY <4>2, <5>2, <5>4
      <4> QED
        BY <4>1, <4>2
    <3> QED
      BY <3>2, <3>3
  <2>7. WellFramed(t, k)
    <3>1. \A i \in DOMAIN t :
             /\ t[i].kind = "data" => i - 1 \in DOMAIN t /\ t[i - 1] = Frame("put", t[i].what)
             /\ t[i].kind = "put" => IF i = Len(t) THEN t[i].what = k ELSE t[i + 1].kind = "data"
      BY <2>2, <2>6
    <3> QED
      BY <3>1 DEF WellFramed
  <2>8. ASSUME EndsOpen(s, k) PROVE EndsOpen(t, k)
    <3>1. s[n] = Frame("put", k) /\ Frame("put", k).kind = "put"
      BY <1>1, <2>8, FrameFields DEF EndsOpen
    <3>2. n # 2 /\ n > 2
      BY <1>1, <1>3, <2>3, <3>1
    <3> QED
      BY <1>1, <2>2, <3>1, <3>2 DEF EndsOpen
  <2> QED
    BY <1>1, <1>3, <2>1, <2>b, <2>5, <2>7, <2>8
<1> QED
  BY <1>2, <1>3

(* A frame in front of others.                                             *)
LEMMA InFront ==
    ASSUME NEW f \in Frames, NEW r \in Seq(Frames), NEW s, s = <<f>> \o r
    PROVE  /\ s \in Seq(Frames) /\ s # <<>> /\ s[1] = f /\ Tail(s) = r /\ Len(s) = Len(r) + 1
           /\ r # <<>> => s[2] = Head(r) /\ r[1] = Head(r) /\ Len(s) # 1
           /\ \A x \in Frames : Append(s, x) = <<f>> \o Append(r, x)
<1>0. <<f>> \in Seq(Frames)
  OBVIOUS
<1>1. PICK one \in Seq(Frames) : one = <<f>>
  BY <1>0
<1>2. Len(one) = 1 /\ one[1] = f
  BY <1>1
<1>3. one \o r \in Seq(Frames)
  OBVIOUS
<1>4. PICK n \in Nat : n = Len(r) /\ DOMAIN r = 1 .. n
  OBVIOUS
<1>5. s \in Seq(Frames) /\ Len(s) = n + 1 /\ s[1] = f /\ \A i \in 1 .. n : s[i + 1] = r[i]
  BY <1>1, <1>2, <1>3, <1>4
<1>6. s # <<>>
  BY <1>5
<1>7. Tail(s) = r
  <2>1. PICK t : t = Tail(s)
    OBVIOUS
  <2>2. t \in Seq(Frames) /\ Len(t) = n /\ \A i \in 1 .. n : t[i] = r[i]
    BY <1>5, <1>6, <2>1
  <2> QED
    BY <1>4, <2>1, <2>2, SeqEqual
<1>8. ASSUME r # <<>> PROVE s[2] = Head(r) /\ r[1] = Head(r) /\ Len(s) # 1
  <2>1. n > 0 /\ Head(r) = r[1]
    BY <1>4, <1>8, EmptySeq
  <2>2. s[1 + 1] = r[1]
    BY <1>5, <2>1
  <2> QED
    BY <1>5, <2>1, <2>2
<1>9. ASSUME NEW x \in Frames PROVE Append(s, x) = <<f>> \o Append(r, x)
  <2>1. PICK a1 : a1 = Append(s, x)
    OBVIOUS
  <2>0. Append(r, x) \in Seq(Frames)
    OBVIOUS
  <2>2. PICK b1 \in Seq(Frames) : b1 = Append(r, x)
    BY <2>0
  <2>3. PICK c1 : c1 = one \o b1
    OBVIOUS
  <2>4. b1 \in Seq(Frames) /\ Len(b1) = n + 1 /\ b1[n + 1] = x /\ \A i \in 1 .. n : b1[i] = r[i]
    BY <1>4, <2>2
  <2>5. a1 \in Seq(Frames) /\ Len(a1) = n + 2 /\ a1[n + 2] = x /\ \A i \in 1 .. n + 1 : a1[i] = s[i]
    BY <1>4, <1>5, <2>1
  <2>6. c1 \in Seq(Frames) /\ Len(c1) = n + 2 /\ c1[1] = f /\ \A i \in 1 .. n + 1 : c1[i + 1] = b1[i]
    <3>1. PICK m \in Nat : m = n + 1
      OBVIOUS
    <3>2. Len(b1) = m /\ b1 \in Seq(Frames)
      BY <2>4, <3>1
    <3>3. c1 \in Seq(Frames) /\ Len(c1) = m + 1 /\ c1[1] = f /\ \A i \in 1 .. m : c1[i + 1] = b1[i]
      <4>0. /\ one \o b1 \in Seq(Frames) /\ Len(one \o b1) = Len(one) + Len(b1)
            /\ \A i \in 1 .. Len(one) + Len(b1) :
                  (one \o b1)[i] = IF i <= Len(one) THEN one[i] ELSE b1[i - Len(one)]
        BY ConcatProperties
      <4>1. /\ c1 \in Seq(Frames) /\ Len(c1) = 1 + m
            /\ \A i \in 1 .. 1 + m : c1[i] = IF i <= 1 THEN one[i] ELSE b1[i - 1]
        BY <1>2, <2>3, <3>2, <4>0
      <4>2. \A i \in 1 .. m : i + 1 \in 1 .. 1 + m /\ ~(i + 1 <= 1) /\ (i + 1) - 1 = i
        OBVIOUS
      <4>3. 1 \in 1 .. 1 + m /\ 1 <= 1
        OBVIOUS
      <4> QED
        BY <1>2, <4>1, <4>2, <4>3
    <3> QED
      BY <3>1, <3>3
  <2>7. ASSUME NEW i \in 1 .. n + 2 PROVE a1[i] = c1[i]
    <3>1. CASE i = 1
      BY <1>5, <2>5, <2>6, <3>1
    <3>2. CASE i # 1
      <4>1. PICK j \in 1 .. n + 1 : i = j + 1
        <5>1. i - 1 \in 1 .. n + 1 /\ i = (i - 1) + 1
          BY <3>2
        <5> QED
          BY <5>1
      <4>2. CASE j = n + 1
        BY <2>4, <2>5, <2>6, <4>1, <4>2
      <4>3. CASE j # n + 1
        <5>1. j \in 1 .. n /\ j + 1 \in 1 .. n + 1
          BY <4>3
        <5> QED
          <6>1. c1[j + 1] = b1[j] /\ b1[j] = r[j] /\ s[j + 1] = r[j]
            BY <1>5, <2>4, <2>6, <5>1
          <6>2. a1[j + 1] = s[j + 1]
            BY <2>5, <5>1
          <6> QED
            BY <4>1, <6>1, <6>2
      <4> QED
        BY <4>2, <4>3
    <3> QED
      BY <3>1, <3>2
  <2>8. a1 = c1
    BY <2>5, <2>6, <2>7, SeqEqual
  <2> QED
    BY <1>1, <2>1, <2>2, <2>3, <2>8
<1> QED
  BY <1>4, <1>5, <1>6, <1>7, <1>8, <1>9
-----------------------------------------------------------------------------
(***************************************************************************)
(* What the steps of a handler do.                                         *)
(***************************************************************************)
(* The states of a handler and their fields.                               *)
LEMMA HandlerTypes ==
    ASSUME NEW h \in Handlers
    PROVE  /\ h.pc \in {"header", "closed", "list", "put", "exist", "get", "store", "raised"}
           /\ h.pc = "header" => h = AtHeader
           /\ h.pc = "list" => h = [pc |-> "list", key |-> NoData] /\ h.key = NoData
           /\ h.pc \in {"put", "exist", "get"} => h = [pc |-> h.pc, key |-> h.key] /\ h.key \in Keys
           /\ h.pc = "store" =>
                 /\ h \in [pc : {"store"}, key : Keys, data : Keys \cup {NoData}]
                 /\ h.key \in Keys /\ h.data \in Keys \cup {NoData}
BY DEF Handlers, AtHeader

(* The states that a handler goes to.                                      *)
LEMMA HandlersOf ==
    /\ AtHeader \in Handlers /\ AtHeader.pc = "header"
    /\ [pc |-> "closed"] \in Handlers
    /\ [pc |-> "list", key |-> NoData] \in Handlers
    /\ \A pc \in {"put", "exist", "get"}, k \in Keys :
          LET h == [pc |-> pc, key |-> k] IN h \in Handlers /\ h.pc = pc /\ h.key = k
    /\ \A pc \in {"store", "raised"}, k \in Keys, d \in Keys \cup {NoData} :
          LET h == [pc |-> pc, key |-> k, data |-> d]
          IN  h \in Handlers /\ h.pc = pc /\ h.key = k /\ h.data = d
BY DEF Handlers, AtHeader

StoreSame == UNCHANGED <<stored, stored_keys>>

(* The steps by what they do to the connection.                            *)
TakesHeader(c) ==
    /\ handler[c] = AtHeader /\ requests[c] # <<>>
    /\ Head(requests[c]) \in Frames /\ Head(requests[c]).kind # "data"
    /\ handler'[c] = [pc |-> Head(requests[c]).kind, key |-> Head(requests[c]).what]
    /\ requests'[c] = Tail(requests[c]) /\ replies'[c] = replies[c] /\ StoreSame
Ends(c) ==
    /\ handler[c] = AtHeader /\ requests[c] = <<>> /\ c \in lost
    /\ handler'[c] = [pc |-> "closed"]
    /\ requests'[c] = requests[c] /\ replies'[c] = replies[c] /\ StoreSame
TakesBytes(c) ==
    /\ handler[c].pc = "put" /\ handler[c].key \in Keys
    /\ requests[c] # <<>> /\ Head(requests[c]) = Frame("data", handler[c].key)
    /\ handler'[c] = [pc |-> "store", key |-> handler[c].key, data |-> handler[c].key]
    /\ requests'[c] = Tail(requests[c]) /\ replies'[c] = replies[c] /\ StoreSame
LosesBytes(c) ==
    /\ c = Peer /\ c \in lost /\ handler[c].pc = "put" /\ handler[c].key \in Keys
    /\ requests[c] = <<>>
    /\ handler'[c] = [pc |-> "store", key |-> handler[c].key, data |-> NoData]
    /\ requests'[c] = requests[c] /\ replies'[c] = replies[c] /\ StoreSame
Stores(c) ==
    /\ handler[c].pc = "store" /\ handler[c].key \in Keys
    /\ stored' = Assoc(stored, handler[c].key, handler[c].key)
    /\ stored_keys' = Inserted(stored_keys, handler[c].key)
    /\ handler'[c] = AtHeader
    /\ requests'[c] = requests[c] /\ replies'[c] = replies[c]
Dies(c) ==
    /\ c = Peer /\ handler[c].pc = "store" /\ handler[c].key \in Keys
    /\ handler'[c] = [pc |-> "raised", key |-> handler[c].key, data |-> NoData]
    /\ requests'[c] = requests[c] /\ replies'[c] = replies[c] /\ StoreSame
Replies(c, frames) ==
    /\ handler'[c] = AtHeader
    /\ requests'[c] = requests[c] /\ replies'[c] = replies[c] \o frames /\ StoreSame
Answers(c) ==
    \/ /\ handler[c].pc = "get" /\ handler[c].key \in DOMAIN stored
       /\ Replies(c, <<Yes, Frame("data", handler[c].key)>>)
    \/ /\ handler[c].pc = "exist" /\ handler[c].key \in DOMAIN stored
       /\ Replies(c, <<Yes>>)
    \/ /\ handler[c].pc \in {"get", "exist"} /\ handler[c].key \notin DOMAIN stored
       /\ Replies(c, <<No>>)
    \/ /\ handler[c].pc = "list"
       /\ Replies(c, <<Yes, Frame("data", stored_keys)>>)

(* The other connection is left alone.                                     *)
Elsewhere(c) ==
    \A d \in Conns \ {c} :
        requests'[d] = requests[d] /\ replies'[d] = replies[d] /\ handler'[d] = handler[d]

(* The bytes that a handler waits for are the next in its stream.          *)
LEMMA BytesAreNext ==
    ASSUME ServerInv, JobInv, NEW c \in Conns, handler[c].pc = "put"
    PROVE  /\ handler[c].key \in Keys
           /\ IF requests[c] = <<>> THEN Open(c) = handler[c].key
              ELSE /\ Head(requests[c]) = Frame("data", handler[c].key)
                   /\ requests[c][1] = Head(requests[c])
                   /\ WellFramed(Tail(requests[c]), Open(c))
                   /\ EndsOpen(Stream(handler[c], requests[c]), Open(c))
                        => EndsOpen(Tail(requests[c]), Open(c))
<1>1. requests[c] \in Seq(Frames) /\ handler[c] \in Handlers
      /\ WellFramed(Stream(handler[c], requests[c]), Open(c))
  BY DEF ServerInv, FrameOK
<1>2. handler[c].key \in Keys
  BY <1>1, HandlerTypes
<1>3. PICK f \in Frames : f = Frame("put", handler[c].key) /\ f.kind = "put" /\ f.what = handler[c].key
  BY <1>2, FrameTypes, FrameFields
<1>4. PICK s : s = <<f>> \o requests[c]
  OBVIOUS
<1>5. s = Stream(handler[c], requests[c])
  BY <1>3, <1>4 DEF Stream
<1>6. /\ s \in Seq(Frames) /\ s # <<>> /\ s[1] = f /\ Tail(s) = requests[c]
      /\ Len(s) = Len(requests[c]) + 1
      /\ requests[c] # <<>> =>
            s[2] = Head(requests[c]) /\ requests[c][1] = Head(requests[c]) /\ Len(s) # 1
  BY <1>1, <1>4, InFront
<1>7. IF Len(s) = 1 THEN s[1].what = Open(c)
      ELSE /\ s[2] = Frame("data", s[1].what)
           /\ WellFramed(Tail(Tail(s)), Open(c))
           /\ EndsOpen(s, Open(c)) => EndsOpen(Tail(Tail(s)), Open(c))
  BY <1>1, <1>3, <1>5, <1>6, FramedPut
<1>8. CASE requests[c] = <<>>
  <2>1. Len(s) = 1
    BY <1>6, <1>8
  <2> QED
    BY <1>2, <1>3, <1>6, <1>7, <1>8, <2>1
<1>9. CASE requests[c] # <<>>
  BY <1>2, <1>3, <1>5, <1>6, <1>7, <1>9
<1> QED
  BY <1>8, <1>9

(* Every step of a handler is one of these.                                *)
LEMMA HandlerSteps ==
    ASSUME ServerInv, JobInv, NEW c \in Conns, HandleClient(c)
    PROVE  /\ Elsewhere(c) /\ UNCHANGED lost
           /\ DOMAIN requests' = Conns /\ DOMAIN replies' = Conns /\ DOMAIN handler' = Conns
           /\ \/ TakesHeader(c) \/ Ends(c) \/ TakesBytes(c) \/ LosesBytes(c)
              \/ Stores(c) \/ Dies(c) \/ Answers(c)
<1> USE DEF storeState, StoreSame
<1>0. /\ DOMAIN requests = Conns /\ DOMAIN replies = Conns /\ DOMAIN handler = Conns
      /\ requests[c] \in Seq(Frames) /\ handler[c] \in Handlers
      /\ WellFramed(Stream(handler[c], requests[c]), Open(c))
  BY DEF ServerInv, FrameOK
<1>1. CASE ReceiveHeader(c)
  <2>1. PICK f : f = Head(requests[c])
    OBVIOUS
  <2>2. requests[c] # <<>> /\ f \in Frames /\ f = requests[c][1]
    BY <1>0, <1>1, <2>1, EmptySeq DEF ReceiveHeader
  <2>3. handler[c] = AtHeader /\ handler[c].pc = "header"
    BY <1>0, <1>1, HandlerTypes DEF ReceiveHeader
  <2>4. f.kind # "data"
    BY <1>0, <2>2, <2>3, FramedFirst DEF Stream
  <2>5. handler' = [handler EXCEPT ![c] = [pc |-> f.kind, key |-> f.what]]
        /\ requests' = [requests EXCEPT ![c] = Tail(@)] /\ UNCHANGED <<replies, lost, storeState>>
    BY <1>1, <2>1, <2>4 DEF ReceiveHeader, NextPc
  <2> QED
    BY <1>0, <2>1, <2>2, <2>3, <2>4, <2>5 DEF TakesHeader, Elsewhere
<1>2. CASE EndOfStream(c)
  <2>1. handler[c] = AtHeader /\ requests[c] = <<>> /\ c \in lost
    BY <1>0, <1>2, HandlerTypes DEF EndOfStream
  <2>2. handler'[c] = [pc |-> "closed"]
    BY <1>0, <1>2, <2>1 DEF EndOfStream, AtHeader
  <2> QED
    BY <1>0, <1>2, <2>1, <2>2 DEF EndOfStream, Ends, Elsewhere
<1>3. CASE ReceivePayload(c)
  <2>1. handler[c].pc = "put" /\ Chunks(c) # {}
    BY <1>3 DEF ReceivePayload
  <2>2. requests[c] # <<>>
    BY <1>0, <2>1, EmptySeq DEF Chunks
  <2>3. /\ handler[c].key \in Keys /\ Head(requests[c]) = Frame("data", handler[c].key)
        /\ requests[c][1] = Head(requests[c])
    BY <2>1, <2>2, BytesAreNext
  <2>4. 1 \in Chunks(c) /\ \A j \in Chunks(c) : j \in Int /\ 1 <= j
    BY <1>0, <2>2, <2>3, EmptySeq, FrameFields DEF Chunks
  <2>5. (CHOOSE i \in Chunks(c) : \A j \in Chunks(c) : i <= j) = 1
    <3>1. \A i \in Chunks(c) : (\A j \in Chunks(c) : i <= j) => i = 1
      BY <2>4
    <3> QED
      BY <2>4, <3>1
  <2>6. SubSeq(requests[c], 2, Len(requests[c])) = Tail(requests[c])
    <3>1. PICK t \in Seq(Frames) : t = requests[c]
      BY <1>0
    <3>2. PICK n \in Nat : n = Len(t) /\ n > 0
      BY <2>2, <3>1, EmptySeq
    <3>3. PICK u : u = SubSeq(t, 2, n)
      OBVIOUS
    <3>4. u \in Seq(Frames) /\ Len(u) = n - 1 /\ \A i \in 1 .. n - 1 : u[i] = t[i + 1]
      BY <3>2, <3>3, SubSeqProperties
    <3>5. Tail(t) \in Seq(Frames) /\ Len(Tail(t)) = n - 1 /\ \A i \in 1 .. n - 1 : Tail(t)[i] = t[i + 1]
      BY <2>2, <3>1, <3>2
    <3>6. u = Tail(t)
      BY <3>4, <3>5, SeqEqual
    <3> QED
      BY <3>1, <3>2, <3>3, <3>6
  <2>7. /\ Received(c, requests[c][1].what)
        /\ requests' = [requests EXCEPT ![c] = SubSeq(requests[c], 1 + 1, Len(requests[c]))]
        /\ UNCHANGED <<replies, lost, storeState>>
    BY <1>3, <2>5 DEF ReceivePayload
  <2>8. requests'[c] = Tail(requests[c])
    BY <1>0, <2>6, <2>7
  <2>9. requests[c][1].what = handler[c].key
    BY <2>3, FrameFields
  <2> QED
    BY <1>0, <2>1, <2>2, <2>3, <2>7, <2>8, <2>9 DEF Received, TakesBytes, Elsewhere
<1>4. CASE LosePayload(c)
  <2>1. handler[c].pc = "put" /\ c \in lost /\ Chunks(c) = {} /\ Received(c, NoData)
        /\ UNCHANGED <<requests, replies, lost, storeState>>
    BY <1>4 DEF LosePayload
  <2>2. handler[c].key \in Keys /\ requests[c] = <<>> /\ Open(c) = handler[c].key
    <3>1. CASE requests[c] # <<>>
      <4>1. requests[c][1] = Frame("data", handler[c].key)
        BY <2>1, <3>1, BytesAreNext
      <4>2. 1 \in Chunks(c)
        BY <1>0, <3>1, <4>1, EmptySeq, FrameFields DEF Chunks
      <4> QED
        BY <2>1, <4>2
    <3> QED
      BY <2>1, <3>1, BytesAreNext
  <2>3. c = Peer
    <3>1. CASE c = Self
      <4>0. call = IdleCall
        BY <2>1, <3>1 DEF JobInv
      <4>1. call.pc = "idle"
        BY <4>0 DEF IdleCall
      <4> QED
        BY <2>2, <3>1, <4>1, HybridAssumption DEF Open
    <3> QED
      BY <3>1, HybridAssumption
  <2> QED
    BY <1>0, <2>1, <2>2, <2>3 DEF Received, LosesBytes, Elsewhere
<1>5. CASE Store(c)
  <2>1. handler[c].pc = "store" /\ handler[c].data = handler[c].key /\ handler[c].key \in Keys
    BY <1>0, <1>5, HandlerTypes DEF Store, ServerInv, FrameOK
  <2> QED
    BY <1>0, <1>5, <2>1 DEF Store, Insert, Stores, Elsewhere
<1>6. CASE StoreNone(c)
  <2>1. handler[c].pc = "store" /\ handler[c].data = NoData /\ handler[c].key \in Keys
        /\ handler[c] \in [pc : {"store"}, key : Keys, data : Keys \cup {NoData}]
    BY <1>0, <1>6, HandlerTypes DEF StoreNone
  <2>2. c = Peer
    BY <2>1, HybridAssumption DEF ServerInv, FrameOK
  <2>3. handler'[c] = [pc |-> "raised", key |-> handler[c].key, data |-> NoData]
    BY <1>0, <1>6, <2>1 DEF StoreNone
  <2> QED
    BY <1>0, <1>6, <2>1, <2>2, <2>3 DEF StoreNone, Dies, Elsewhere
<1>7. CASE HandleGet(c) \/ HandleExist(c) \/ HandleList(c)
  <2>1. ASSUME NEW fs, Reply(c, fs) PROVE Replies(c, fs) /\ Elsewhere(c) /\ UNCHANGED lost
           /\ DOMAIN requests' = Conns /\ DOMAIN replies' = Conns /\ DOMAIN handler' = Conns
    BY <1>0, <2>1 DEF Reply, Replies, Elsewhere
  <2>2. \A k \in DOMAIN stored : stored[k] = k
    BY DEF ServerInv
  <2>3. CASE HandleGet(c)
    BY <2>1, <2>2, <2>3 DEF HandleGet, Answers, Yes, No
  <2>4. CASE HandleExist(c)
    BY <2>1, <2>4 DEF HandleExist, Answers, Yes, No
  <2>5. CASE HandleList(c)
    BY <2>1, <2>5 DEF HandleList, Answers, Yes, No
  <2> QED
    BY <1>7, <2>3, <2>4, <2>5
<1> QED
  BY <1>1, <1>2, <1>3, <1>4, <1>5, <1>6, <1>7 DEF HandleClient
-----------------------------------------------------------------------------
(***************************************************************************)
(* What a step leaves alone.                                               *)
(***************************************************************************)
(* Nothing is executed.                                                    *)
LEMMA IdlePc == IdleCall.pc = "idle" /\ IdleCall.op = "none"
BY DEF IdleCall

(* What is known changes only when a call returns.                         *)
LEMMA SameKnown ==
    ASSUME StoreInv, CallInv, JobInv, Learn, call' = call \/ call'.pc # "idle"
    PROVE  known' = known
<1>1. CASE call'.pc # "idle"
  BY <1>1 DEF Learn
<1>2. CASE call' = call /\ call.pc = "idle"
  <2>1. ~Putting("main")
    BY <1>2 DEF JobInv
  <2>2. job["main"] \in Jobs /\ job["main"].pc # "stopped"
    BY DEF StoreInv, LocalTypeOK, JobInv, Threads
  <2>3. job["main"] = IdleJob
    BY <2>1, <2>2 DEF Jobs, Putting, IdleJob
  <2> QED
    BY <1>2, <2>3 DEF Learn, At
<1> QED
  BY <1>1, <1>2

(* The local store.                                                        *)
LEMMA SameStore ==
    ASSUME StoreInv, UNCHANGED localVars
    PROVE  StoreInv'
<1>1. UNCHANGED <<storeVars, update_lock>> /\ UNCHANGED job
      /\ put_queue' \in Seq(Keys) /\ nops' \in Nat /\ closed' \in BOOLEAN
  BY DEF localVars, StoreInv, LocalTypeOK
<1> QED
  BY <1>1, QuietStore

(* The call.                                                               *)
LEMMA SameCall ==
    ASSUME CallInv, call' = call
    PROVE  CallInv'
BY DEF CallInv, CallShape, IsPut, Key

(* The threads' work on the local store.                                   *)
LEMMA SameJob ==
    ASSUME JobInv, UNCHANGED localVars, call' = call, UNCHANGED lost
    PROVE  JobInv'
BY DEF JobInv, localVars, Putting, Key

(* A connection whose client and handler do nothing.                       *)
LEMMA SameFrames ==
    ASSUME NEW c \in Conns, FrameOK(c), requests'[c] = requests[c], handler'[c] = handler[c],
           Open(c)' = Open(c), lost \subseteq lost'
    PROVE  FrameOK(c)'
BY DEF FrameOK

(* A handler that goes on, with the same frames left to take.              *)
LEMMA SameStream ==
    ASSUME NEW c \in Conns, FrameOK(c), Open(c)' = Open(c), UNCHANGED lost,
           requests'[c] \in Seq(Frames), handler'[c] \in Handlers,
           Stream(handler'[c], requests'[c]) = Stream(handler[c], requests[c]),
           handler'[c].pc = "store" =>
              handler'[c].data = handler'[c].key \/ (handler'[c].data = NoData /\ c = Peer)
    PROVE  FrameOK(c)'
BY DEF FrameOK

(* The conversation, when the handler of this instance does nothing.       *)
LEMMA SameTalk ==
    ASSUME TalkInv, call' = call, known' = known, lost \subseteq lost',
           requests'[Self] = requests[Self], replies'[Self] = replies[Self],
           handler'[Self] = handler[Self], DOMAIN stored \subseteq DOMAIN stored'
    PROVE  TalkInv'
<1>1. Key' = Key /\ Question' = Question /\ (Quiet' <=> Quiet) /\ (Waits' <=> Waits)
      /\ (Asked' <=> Asked) /\ (Taken' <=> Taken) /\ (Silent' <=> Silent)
  BY DEF Key, Question, Quiet, Waits, Asked, Taken, Silent
<1>2. Answered => Answered'
  BY <1>1 DEF Answered
<1> QED
  BY <1>1, <1>2 DEF TalkInv

(* What is safe stays safe.                                                *)
SafeGrows == (\A k : Safe(k) => Safe(k)') /\ DOMAIN stored \subseteq DOMAIN stored'

(* The safe keys, if what is cached locally is safe after the step too.    *)
LEMMA KeepSafe ==
    ASSUME SafeInv, call' = call, known' = known, WriteThrough', SafeGrows
    PROVE  SafeInv'
<1>1. Key' = Key
  BY DEF Key
<1>4. Covered'
  BY DEF SafeInv, Covered
<1>5. \A k \in known' : Safe(k)'
  BY DEF SafeInv, SafeGrows
<1>6. call' # IdleCall => \A k \in DOMAIN call'.got : Safe(k)'
  BY DEF SafeInv, SafeGrows
<1>7. call'.pc \in {"get_data", "fill"} => Key' \in DOMAIN stored'
  BY <1>1 DEF SafeInv, SafeGrows
<1>8. call'.pc = "return" => Safe(Key)'
  <2>1. call.pc = "return" => Safe(Key)
    BY DEF SafeInv
  <2> QED
    BY <2>1, <1>1 DEF SafeGrows, Safe, InTransit
<1> QED
  BY <1>4, <1>5, <1>6, <1>7, <1>8 DEF SafeInv

(* The safe keys, if nothing is added to the local store.                  *)
LEMMA SameSafe ==
    ASSUME SafeInv, call' = call, known' = known, DOMAIN dict' \subseteq DOMAIN dict, SafeGrows
    PROVE  SafeInv'
<1>1. Key' = Key
  BY DEF Key
<1>2. \A k \in DOMAIN dict : Safe(k) \/ (call.pc \in {"remote_put", "put_payload"} /\ Key = k)
  BY DEF SafeInv, WriteThrough, Safe
<1>3. WriteThrough'
  BY <1>1, <1>2 DEF WriteThrough, Safe, SafeGrows
<1> QED
  BY <1>3, KeepSafe

-----------------------------------------------------------------------------
(***************************************************************************)
(* The steps of the server.                                                *)
(***************************************************************************)
(* An insertion keeps the table of the server in order.                    *)
LEMMA StoreTable ==
    ASSUME ServerInv, NEW k \in Keys,
           stored' = Assoc(stored, k, k), stored_keys' = Inserted(stored_keys, k)
    PROVE  /\ DOMAIN stored' = DOMAIN stored \cup {k}
           /\ \A l \in DOMAIN stored' : stored'[l] = l
           /\ stored_keys' \in Seq(Keys)
BY DEF ServerInv, Assoc, Inserted

(* The framing after a step of a handler.                                  *)
LEMMA ServerFrames ==
    ASSUME ServerInv, JobInv, NEW c \in Conns, HandleClient(c), UNCHANGED <<call, peer>>
    PROVE  ServerInv' /\ DOMAIN stored \subseteq DOMAIN stored'
<1>0. /\ Elsewhere(c) /\ UNCHANGED lost
      /\ DOMAIN requests' = Conns /\ DOMAIN replies' = Conns /\ DOMAIN handler' = Conns
      /\ TakesHeader(c) \/ Ends(c) \/ TakesBytes(c) \/ LosesBytes(c)
         \/ Stores(c) \/ Dies(c) \/ Answers(c)
  BY HandlerSteps
<1>1. \A d \in Conns : FrameOK(d) /\ Open(d)' = Open(d)
  BY DEF ServerInv, Open, Key
<1>2. /\ FrameOK(c) /\ requests[c] \in Seq(Frames) /\ handler[c] \in Handlers
      /\ WellFramed(Stream(handler[c], requests[c]), Open(c))
      /\ Open(c) # NoData /\ c \notin lost => EndsOpen(Stream(handler[c], requests[c]), Open(c))
  BY <1>1 DEF FrameOK
<1>3. FrameOK(c)'
  <2>1. CASE TakesHeader(c)
    <3>1. PICK f \in Frames : f = Head(requests[c]) /\ f.kind # "data"
      BY <2>1 DEF TakesHeader
    <3>2. /\ requests[c] # <<>> /\ requests'[c] = Tail(requests[c])
          /\ handler[c] = AtHeader /\ handler'[c] = [pc |-> f.kind, key |-> f.what]
      BY <2>1, <3>1 DEF TakesHeader
    <3>3. /\ Stream(handler[c], requests[c]) = requests[c] /\ Tail(requests[c]) \in Seq(Frames)
          /\ requests[c][1] = f
      BY <1>2, <3>1, <3>2, HandlersOf, EmptySeq DEF Stream
    <3>4. handler'[c] \in Handlers /\ handler'[c].pc = f.kind /\ handler'[c].key = f.what
          /\ handler'[c].pc # "store"
      BY <3>1, <3>2, FrameTypes, HandlersOf
    <3>5. CASE f.kind = "put"
      <4>1. Stream(handler'[c], requests'[c]) = <<f>> \o Tail(requests[c])
        BY <3>1, <3>2, <3>4, <3>5, FrameTypes DEF Stream
      <4>2. <<f>> \o Tail(requests[c]) = requests[c]
        <5>1. PICK s : s = <<f>> \o Tail(requests[c])
          OBVIOUS
        <5>2. s \in Seq(Frames) /\ s[1] = f /\ Tail(s) = Tail(requests[c]) /\ s # <<>>
          BY <3>3, <5>1, InFront
        <5>3. PICK n \in Nat : n = Len(requests[c]) /\ n > 0
          BY <1>2, <3>2, EmptySeq
        <5>a. PICK m \in Nat : m = Len(s) /\ m > 0
          BY <5>2, EmptySeq
        <5>4. Len(Tail(s)) = m - 1 /\ Len(Tail(requests[c])) = n - 1
          BY <1>2, <3>2, <5>2, <5>3, <5>a
        <5>5. m = n
          <6>1. m - 1 = n - 1
            BY <5>2, <5>4, Zenon
          <6> QED
            BY <6>1
        <5>6. /\ \A i \in 1 .. n - 1 : Tail(s)[i] = s[i + 1]
              /\ \A i \in 1 .. n - 1 : Tail(requests[c])[i] = requests[c][i + 1]
          BY <1>2, <3>2, <5>2, <5>3, <5>a, <5>5
        <5>7. ASSUME NEW i \in 1 .. n PROVE s[i] = requests[c][i]
          <6>1. CASE i = 1
            BY <3>3, <5>2, <6>1
          <6>2. CASE i # 1
            <7>1. PICK j \in 1 .. n - 1 : i = j + 1
              <8>1. i - 1 \in 1 .. n - 1 /\ i = (i - 1) + 1
                BY <6>2
              <8> QED
                BY <8>1
            <7> QED
              BY <5>2, <5>6, <7>1
          <6> QED
            BY <6>1, <6>2
        <5> QED
          BY <1>2, <5>1, <5>2, <5>3, <5>5, <5>a, <5>7, SeqEqual
      <4> QED
        BY <1>0, <1>1, <3>2, <3>3, <3>4, <4>1, <4>2, SameStream
    <3>6. CASE f.kind # "put"
      <4>1. Stream(handler'[c], requests'[c]) = Tail(requests[c])
        BY <3>2, <3>4, <3>6 DEF Stream
      <4>2. /\ WellFramed(Tail(requests[c]), Open(c))
            /\ EndsOpen(requests[c], Open(c)) => EndsOpen(Tail(requests[c]), Open(c))
        BY <1>2, <3>2, <3>3, <3>6, FramedRest
      <4> QED
        BY <1>0, <1>1, <1>2, <3>2, <3>3, <3>4, <4>1, <4>2 DEF FrameOK
    <3> QED
      BY <3>5, <3>6
  <2>2. CASE Ends(c)
    <3>1. /\ handler'[c] \in Handlers /\ handler'[c].pc = "closed"
          /\ Stream(handler'[c], requests'[c]) = Stream(handler[c], requests[c])
          /\ requests'[c] \in Seq(Frames)
      BY <1>2, <2>2, HandlersOf DEF Ends, Stream
    <3> QED
      BY <1>0, <1>1, <3>1, SameStream
  <2>3. CASE TakesBytes(c)
    <3>1. /\ WellFramed(Tail(requests[c]), Open(c))
          /\ EndsOpen(Stream(handler[c], requests[c]), Open(c)) => EndsOpen(Tail(requests[c]), Open(c))
      BY <2>3, BytesAreNext DEF TakesBytes
    <3>2. handler'[c] \in Handlers /\ handler'[c].pc = "store" /\ handler'[c].data = handler'[c].key
          /\ requests'[c] = Tail(requests[c]) /\ Tail(requests[c]) \in Seq(Frames)
      BY <1>2, <2>3, HandlersOf DEF TakesBytes
    <3>3. Stream(handler'[c], requests'[c]) = Tail(requests[c])
      BY <3>2 DEF Stream
    <3> QED
      BY <1>0, <1>1, <1>2, <3>1, <3>2, <3>3 DEF FrameOK
  <2>4. CASE LosesBytes(c)
    <3>1. /\ c = Peer /\ c \in lost /\ handler'[c] \in Handlers /\ handler'[c].pc = "store"
          /\ handler'[c].data = NoData /\ requests'[c] = <<>>
      BY <2>4, HandlersOf DEF LosesBytes
    <3>2. Stream(handler'[c], requests'[c]) = <<>>
      BY <3>1 DEF Stream
    <3>3. WellFramed(<<>>, Open(c)) /\ requests'[c] \in Seq(Frames)
      BY <3>1 DEF WellFramed
    <3> QED
      BY <1>0, <1>1, <3>1, <3>2, <3>3 DEF FrameOK
  <2>5. CASE Stores(c)
    <3>1. /\ handler'[c] \in Handlers /\ handler'[c].pc = "header"
          /\ Stream(handler'[c], requests'[c]) = Stream(handler[c], requests[c])
          /\ requests'[c] \in Seq(Frames)
      BY <1>2, <2>5, HandlersOf DEF Stores, Stream
    <3> QED
      BY <1>0, <1>1, <3>1, SameStream
  <2>6. CASE Dies(c)
    <3>1. /\ handler'[c] \in Handlers /\ handler'[c].pc = "raised"
          /\ Stream(handler'[c], requests'[c]) = Stream(handler[c], requests[c])
          /\ requests'[c] \in Seq(Frames)
      BY <1>2, <2>6, HandlersOf DEF Dies, Stream
    <3> QED
      BY <1>0, <1>1, <3>1, SameStream
  <2>7. CASE Answers(c)
    <3>1. /\ handler'[c] \in Handlers /\ handler'[c].pc = "header"
          /\ Stream(handler'[c], requests'[c]) = Stream(handler[c], requests[c])
          /\ requests'[c] \in Seq(Frames)
      BY <1>2, <2>7, HandlersOf DEF Answers, Replies, Stream
    <3> QED
      BY <1>0, <1>1, <3>1, SameStream
  <2> QED
    BY <1>0, <2>1, <2>2, <2>3, <2>4, <2>5, <2>6, <2>7
<1>4. \A d \in Conns : FrameOK(d)'
  BY <1>0, <1>1, <1>3, SameFrames DEF Elsewhere
<1>5. /\ DOMAIN stored' \subseteq Keys /\ \A k \in DOMAIN stored' : stored'[k] = k
      /\ stored_keys' \in Seq(Keys) /\ DOMAIN stored \subseteq DOMAIN stored'
  <2>1. CASE Stores(c)
    <3>1. PICK k \in Keys : k = handler[c].key
      BY <2>1 DEF Stores
    <3>2. stored' = Assoc(stored, k, k) /\ stored_keys' = Inserted(stored_keys, k)
      BY <2>1, <3>1 DEF Stores
    <3>3. /\ DOMAIN stored' = DOMAIN stored \cup {k}
          /\ \A l \in DOMAIN stored' : stored'[l] = l
          /\ stored_keys' \in Seq(Keys)
      BY <3>2, StoreTable
    <3>4. DOMAIN stored \subseteq Keys
      BY DEF ServerInv
    <3> QED
      BY <3>3, <3>4
  <2>2. CASE ~Stores(c)
    <3>1. StoreSame
      BY <1>0, <2>2 DEF TakesHeader, Ends, TakesBytes, LosesBytes, Dies, Answers, Replies
    <3> QED
      BY <3>1 DEF StoreSame, ServerInv
  <2> QED
    BY <2>1, <2>2
<1> QED
  BY <1>0, <1>4, <1>5 DEF ServerInv

(* What is in a sequence is its head or in the rest.                       *)
LEMMA FirstOrRest ==
    ASSUME NEW S, NEW s \in Seq(S), s # <<>>
    PROVE  Range(s) = {Head(s)} \cup Range(Tail(s))
<1>1. PICK n \in Nat : n = Len(s) /\ DOMAIN s = 1 .. n /\ n > 0
  BY EmptySeq
<1>2. Head(s) = s[1] /\ DOMAIN Tail(s) = 1 .. n - 1 /\ \A i \in 1 .. n - 1 : Tail(s)[i] = s[i + 1]
  BY <1>1
<1>3. ASSUME NEW i \in 1 .. n, i # 1 PROVE \E j \in 1 .. n - 1 : i = j + 1
  <2>1. i - 1 \in 1 .. n - 1 /\ i = (i - 1) + 1
    BY <1>3
  <2> QED
    BY <2>1
<1>4. \A j \in 1 .. n - 1 : j + 1 \in 1 .. n
  OBVIOUS
<1>5. 1 \in 1 .. n
  BY <1>1
<1>6. ASSUME NEW i \in DOMAIN s
      PROVE  Head(s) = s[i] \/ \E j \in DOMAIN Tail(s) : Tail(s)[j] = s[i]
  <2>1. CASE i = 1
    BY <1>2, <2>1
  <2>2. CASE i # 1
    <3>1. PICK j \in 1 .. n - 1 : i = j + 1
      BY <1>1, <1>3, <2>2
    <3>2. j \in DOMAIN Tail(s) /\ Tail(s)[j] = s[j + 1]
      BY <1>2
    <3> QED
      BY <3>1, <3>2
  <2> QED
    BY <2>1, <2>2
<1>7. ASSUME NEW i \in DOMAIN Tail(s)
      PROVE  \E j \in DOMAIN s : s[j] = Tail(s)[i]
  BY <1>1, <1>2, <1>4
<1> QED
  BY <1>1, <1>2, <1>5, <1>6, <1>7 DEF Range

(* What is safe stays safe, whoever is served.                             *)
LEMMA ServerSafe ==
    ASSUME ServerInv, JobInv, NEW c \in Conns, HandleClient(c), UNCHANGED <<call, peer>>
    PROVE  SafeGrows
<1>0. /\ Elsewhere(c) /\ DOMAIN stored \subseteq DOMAIN stored'
      /\ TakesHeader(c) \/ Ends(c) \/ TakesBytes(c) \/ LosesBytes(c)
         \/ Stores(c) \/ Dies(c) \/ Answers(c)
  BY HandlerSteps, ServerFrames
<1>1. requests[Self] \in Seq(Frames) /\ Self \in Conns /\ Self # Peer /\ handler[Self] \in Handlers
  BY HybridAssumption DEF ServerInv, FrameOK
<1>2. SUFFICES ASSUME NEW k, InTransit(k) PROVE Safe(k)'
  BY <1>0 DEF SafeGrows, Safe
<1>3. CASE c # Self
  BY <1>0, <1>1, <1>2, <1>3 DEF Elsewhere, Safe, InTransit
<1>4. CASE c = Self
  <2>1. CASE TakesHeader(Self)
    <3>1. /\ handler[Self].pc = "header" /\ requests[Self] # <<>>
          /\ Head(requests[Self]).kind # "data" /\ requests'[Self] = Tail(requests[Self])
      BY <2>1, HandlersOf DEF TakesHeader
    <3>2. Head(requests[Self]) # Frame("data", k)
      BY <3>1, FrameFields
    <3>3. \E i \in DOMAIN requests[Self] : requests[Self][i] = Frame("data", k)
      BY <1>2, <3>1 DEF InTransit
    <3>a. Range(requests[Self]) = {Head(requests[Self])} \cup Range(Tail(requests[Self]))
      BY <1>1, <3>1, FirstOrRest
    <3>4. \E i \in DOMAIN Tail(requests[Self]) : Tail(requests[Self])[i] = Frame("data", k)
      BY <3>2, <3>3, <3>a DEF Range
    <3> QED
      BY <3>1, <3>4 DEF InTransit, Safe
  <2>2. CASE TakesBytes(Self)
    <3>1. /\ handler[Self].pc = "put" /\ requests[Self] # <<>> /\ handler[Self].key \in Keys
          /\ Head(requests[Self]) = Frame("data", handler[Self].key)
          /\ requests'[Self] = Tail(requests[Self])
          /\ handler'[Self] = [pc |-> "store", key |-> handler[Self].key, data |-> handler[Self].key]
      BY <2>2 DEF TakesBytes
    <3>2. Head(requests[Self]) = Frame("data", k) => k = handler[Self].key
      BY <3>1, FrameFields
    <3>3. \E i \in DOMAIN requests[Self] : requests[Self][i] = Frame("data", k)
      BY <1>2, <3>1 DEF InTransit
    <3>4. CASE Head(requests[Self]) = Frame("data", k)
      BY <3>1, <3>2, <3>4 DEF InTransit, Safe
    <3>5. CASE \E i \in DOMAIN Tail(requests[Self]) : Tail(requests[Self])[i] = Frame("data", k)
      BY <3>1, <3>5 DEF InTransit, Safe
    <3>a. Range(requests[Self]) = {Head(requests[Self])} \cup Range(Tail(requests[Self]))
      BY <1>1, <3>1, FirstOrRest
    <3> QED
      BY <3>3, <3>4, <3>5, <3>a DEF Range
  <2>3. CASE Stores(Self)
    <3>1. /\ handler[Self].pc = "store" /\ requests'[Self] = requests[Self]
          /\ stored' = Assoc(stored, handler[Self].key, handler[Self].key)
      BY <2>3 DEF Stores
    <3>2. handler[Self].key \in DOMAIN stored'
      BY <3>1 DEF Assoc
    <3> QED
      BY <1>2, <3>1, <3>2 DEF InTransit, Safe
  <2>4. CASE Ends(Self) \/ Answers(Self)
    <3>1. handler[Self].pc # "store" /\ requests'[Self] = requests[Self]
      BY <2>4, HandlersOf DEF Ends, Answers, Replies
    <3> QED
      BY <1>2, <3>1 DEF InTransit, Safe
  <2> QED
    BY <1>0, <1>1, <1>4, <2>1, <2>2, <2>3, <2>4 DEF LosesBytes, Dies
<1> QED
  BY <1>3, <1>4

(* The frames of PUTs: the rest of them, and a question behind them.       *)
LEMMA PutFramesRest ==
    ASSUME NEW s \in Seq(Frames), s # <<>>, PutFrames(s)
    PROVE  /\ PutFrames(Tail(s)) /\ Tail(s) \in Seq(Frames)
           /\ Head(s).kind \in {"put", "data"}
<1>1. PICK n \in Nat : n = Len(s) /\ DOMAIN s = 1 .. n /\ n > 0
  BY EmptySeq
<1>2. Head(s) = s[1] /\ DOMAIN Tail(s) = 1 .. n - 1 /\ \A i \in 1 .. n - 1 : Tail(s)[i] = s[i + 1]
  BY <1>1
<1> QED
  BY <1>1, <1>2 DEF PutFrames

(* A question behind PUTs is alone, or a PUT is in front of it.            *)
LEMMA BehindPuts ==
    ASSUME NEW s \in Seq(Frames), NEW q \in Frames, NEW r, r = Append(s, q)
    PROVE  /\ r \in Seq(Frames) /\ r # <<>>
           /\ s = <<>> => Head(r) = q /\ Tail(r) = <<>>
           /\ s # <<>> => Head(r) = Head(s) /\ Tail(r) = Append(Tail(s), q)
<1>1. PICK n \in Nat : n = Len(s) /\ DOMAIN s = 1 .. n
  OBVIOUS
<1>2. r \in Seq(Frames) /\ Len(r) = n + 1 /\ r[n + 1] = q /\ \A i \in 1 .. n : r[i] = s[i]
  BY <1>1
<1>3. r # <<>>
  BY <1>2
<1>4. /\ Head(r) = r[1] /\ Tail(r) \in Seq(Frames) /\ Len(Tail(r)) = n
      /\ \A i \in 1 .. n : Tail(r)[i] = r[i + 1]
  BY <1>2, <1>3
<1>5. ASSUME s = <<>> PROVE Head(r) = q /\ Tail(r) = <<>>
  <2>1. n = 0
    BY <1>1, <1>5
  <2> QED
    BY <1>2, <1>4, <2>1, EmptySeq
<1>6. ASSUME s # <<>> PROVE Head(r) = Head(s) /\ Tail(r) = Append(Tail(s), q)
  <2>1. n > 0 /\ Head(s) = s[1]
    BY <1>1, <1>6, EmptySeq
  <2>2. Tail(s) \in Seq(Frames) /\ Len(Tail(s)) = n - 1 /\ \A i \in 1 .. n - 1 : Tail(s)[i] = s[i + 1]
    BY <1>1, <1>6
  <2>3. PICK t \in Seq(Frames) : t = Tail(s)
    BY <2>2
  <2>a. PICK m \in Nat : m = n - 1
    BY <2>1
  <2>4. PICK u : u = Append(t, q)
    OBVIOUS
  <2>5. u \in Seq(Frames) /\ Len(u) = m + 1 /\ u[m + 1] = q /\ \A i \in 1 .. m : u[i] = t[i]
    BY <2>2, <2>3, <2>4, <2>a
  <2>6. ASSUME NEW i \in 1 .. n PROVE Tail(r)[i] = u[i]
    <3>1. CASE i = n
      BY <1>2, <1>4, <2>5, <2>a, <3>1
    <3>2. CASE i # n
      <4>1. i \in 1 .. m /\ i + 1 \in 1 .. n /\ i \in 1 .. n - 1
        BY <2>a, <3>2
      <4>2. Tail(r)[i] = r[i + 1] /\ r[i + 1] = s[i + 1]
        BY <1>2, <1>4, <4>1
      <4>3. u[i] = t[i] /\ t[i] = s[i + 1]
        BY <2>2, <2>3, <2>5, <4>1
      <4> QED
        BY <4>2, <4>3
    <3> QED
      BY <3>1, <3>2
  <2>7. Len(u) = n
    BY <2>5, <2>a
  <2>8. Tail(r) = u
    BY <1>4, <2>5, <2>6, <2>7, SeqEqual
  <2>9. Head(r) = Head(s)
    BY <1>2, <1>4, <2>1
  <2> QED
    BY <2>3, <2>4, <2>8, <2>9
<1> QED
  BY <1>2, <1>3, <1>5, <1>6

(* The question is a frame; its kind is not that of a PUT.                 *)
LEMMA QuestionTypes ==
    ASSUME CallInv, Waits
    PROVE  /\ Question \in Frames /\ Question.kind \in {"list", "exist", "get"}
           /\ call # IdleCall
           /\ call.pc = "list_meta" => Question.kind = "list" /\ Question.what = NoData
           /\ call.pc # "list_meta" =>
                 /\ Key \in Keys /\ Question.what = Key
                 /\ Question.kind = IF call.pc = "exist_meta" THEN "exist" ELSE "get"
<1>1. call # IdleCall
  BY IdlePc DEF Waits
<1>2. call \in Calls /\ CallShape /\ call.todo \in Seq(Keys)
  BY <1>1 DEF CallInv, Calls
<1>3. CASE call.pc = "list_meta"
  <2>1. Question = Frame("list", NoData)
    BY <1>3 DEF Question
  <2>2. Question \in Frames /\ Question.kind = "list" /\ Question.what = NoData
    BY <2>1, FrameTypes, FrameFields
  <2> QED
    BY <1>1, <1>3, <2>2
<1>4. CASE call.pc # "list_meta"
  <2>1. call.pc \in {"exist_meta", "get_meta"}
    BY <1>4 DEF Waits
  <2>2. call.pc \in KeyPcs
    BY <2>1 DEF KeyPcs, ReadPcs, ListPcs
  <2>3. call.todo # <<>>
    BY <1>2, <2>2 DEF CallShape
  <2>4. Key \in Keys
    BY <1>2, <2>3, EmptySeq DEF Key
  <2>5. CASE call.pc = "exist_meta"
    <3>1. Question = Frame("exist", Key)
      BY <2>5 DEF Question
    <3>2. Question \in Frames /\ Question.kind = "exist" /\ Question.what = Key
      BY <2>4, <3>1, FrameTypes, FrameFields
    <3> QED
      BY <1>1, <1>4, <2>4, <2>5, <3>2
  <2>6. CASE call.pc = "get_meta"
    <3>1. Question = Frame("get", Key)
      BY <2>6 DEF Question
    <3>2. Question \in Frames /\ Question.kind = "get" /\ Question.what = Key
      BY <2>4, <3>1, FrameTypes, FrameFields
    <3> QED
      BY <1>1, <1>4, <2>4, <2>6, <3>2
  <2> QED
    BY <2>1, <2>5, <2>6
<1> QED
  BY <1>3, <1>4

(* A handler of this instance goes on: the question comes to it, and is    *)
(* answered.  It says that a key is missing only if nobody knows of it.    *)
LEMMA ServerTalk ==
    ASSUME CallInv, JobInv, ServerInv, TalkInv, SafeInv, HandleClient(Self),
           call' = call, peer' = peer, known' = known
    PROVE  TalkInv'
<1>0. /\ UNCHANGED lost /\ Self \in Conns /\ Self # Peer
      /\ TakesHeader(Self) \/ Ends(Self) \/ TakesBytes(Self) \/ Stores(Self) \/ Answers(Self)
  BY HandlerSteps, HybridAssumption DEF LosesBytes, Dies
<1>1. requests[Self] \in Seq(Frames) /\ handler[Self] \in Handlers
  BY <1>0 DEF ServerInv, FrameOK
<1>2. Key' = Key /\ Question' = Question /\ (Waits' <=> Waits)
  BY DEF Key, Question, Waits
<1>3. ASSUME call # IdleCall, Quiet PROVE FALSE
  <2>1. handler[Self].pc = "header" /\ requests[Self] = <<>>
    BY <1>3, HandlersOf DEF Quiet
  <2>2. Self \in lost
    BY <1>0, <2>1 DEF TakesHeader, TakesBytes, Stores, Answers, Ends
  <2> QED
    BY <1>3, <2>2 DEF JobInv
<1>4. handler'[Self].pc = "closed" => Self \in lost'
  <2>1. CASE TakesHeader(Self)
    BY <2>1, FrameTypes DEF TakesHeader
  <2>2. CASE Ends(Self)
    BY <1>0, <2>2 DEF Ends
  <2>3. CASE TakesBytes(Self) \/ Stores(Self) \/ Answers(Self)
    BY <2>3, HandlersOf DEF TakesBytes, Stores, Answers, Replies
  <2> QED
    BY <1>0, <2>1, <2>2, <2>3
<1>5. CASE Waits
  <2>0. /\ Question \in Frames /\ Question.kind \in {"list", "exist", "get"} /\ call # IdleCall
        /\ call.pc = "list_meta" => Question.kind = "list" /\ Question.what = NoData
        /\ call.pc # "list_meta" =>
              /\ Key \in Keys /\ Question.what = Key
              /\ Question.kind = IF call.pc = "exist_meta" THEN "exist" ELSE "get"
    BY <1>5, QuestionTypes
  <2>1. CASE Asked
    <3>1. PICK s \in Seq(Frames) : PutFrames(s) /\ requests[Self] = Append(s, Question)
      BY <2>1 DEF Asked
    <3>2. /\ requests[Self] # <<>>
          /\ s = <<>> => Head(requests[Self]) = Question /\ Tail(requests[Self]) = <<>>
          /\ s # <<>> => /\ Head(requests[Self]) = Head(s)
                         /\ Tail(requests[Self]) = Append(Tail(s), Question)
      <4>1. PICK q \in Frames : q = Question
        BY <2>0
      <4>2. PICK r : r = requests[Self] /\ r = Append(s, q)
        BY <3>1, <4>1
      <4>3. /\ r # <<>>
            /\ s = <<>> => Head(r) = q /\ Tail(r) = <<>>
            /\ s # <<>> => Head(r) = Head(s) /\ Tail(r) = Append(Tail(s), q)
        BY <4>2, BehindPuts
      <4> QED
        BY <4>1, <4>2, <4>3
    <3>3. s # <<>> => /\ PutFrames(Tail(s)) /\ Tail(s) \in Seq(Frames)
                      /\ Head(s).kind \in {"put", "data"}
      BY <3>1, PutFramesRest
    <3>4. replies[Self] = <<>> /\ handler[Self].pc \in {"header", "put", "store"}
      BY <2>1 DEF Asked
    <3>5. CASE TakesHeader(Self)
      <4>1. /\ replies'[Self] = <<>> /\ requests'[Self] = Tail(requests[Self])
            /\ Head(requests[Self]).kind # "data"
            /\ handler'[Self] = [pc |-> Head(requests[Self]).kind, key |-> Head(requests[Self]).what]
        BY <3>4, <3>5 DEF TakesHeader
      <4>2. CASE s = <<>>
        <5>1. handler'[Self] = [pc |-> Question.kind, key |-> Question.what] /\ requests'[Self] = <<>>
          BY <3>2, <4>1, <4>2
        <5>2. Taken'
          BY <1>2, <4>1, <5>1 DEF Taken
        <5> QED
          BY <1>2, <1>4, <1>5, <5>2 DEF TalkInv, Waits
      <4>3. CASE s # <<>>
        <5>1. handler'[Self].pc = "put"
          BY <3>2, <3>3, <4>1, <4>3
        <5>2. Asked'
          BY <1>2, <3>2, <3>3, <4>1, <4>3, <5>1 DEF Asked
        <5> QED
          BY <1>2, <1>4, <1>5, <5>2 DEF TalkInv, Waits
      <4> QED
        BY <4>2, <4>3
    <3>6. CASE TakesBytes(Self)
      <4>1. /\ replies'[Self] = <<>> /\ requests'[Self] = Tail(requests[Self])
            /\ Head(requests[Self]).kind = "data" /\ handler'[Self].pc = "store"
        BY <3>4, <3>6, FrameFields DEF TakesBytes
      <4>2. s # <<>>
        BY <2>0, <3>2, <4>1
      <4>3. Asked'
        BY <1>2, <3>2, <3>3, <4>1, <4>2 DEF Asked
      <4> QED
        BY <1>2, <1>4, <1>5, <4>3 DEF TalkInv, Waits
    <3>7. CASE Stores(Self)
      <4>1. /\ replies'[Self] = <<>> /\ requests'[Self] = requests[Self]
            /\ handler'[Self].pc = "header"
        BY <3>4, <3>7, HandlersOf DEF Stores
      <4>3. Asked'
        BY <1>2, <3>1, <4>1 DEF Asked
      <4> QED
        BY <1>2, <1>4, <1>5, <4>3 DEF TalkInv, Waits
    <3> QED
      BY <1>0, <3>2, <3>4, <3>5, <3>6, <3>7 DEF Ends, Answers
  <2>2. CASE Taken
    <3>1. /\ replies[Self] = <<>> /\ requests[Self] = <<>>
          /\ handler[Self].pc = Question.kind /\ handler[Self].key = Question.what
      BY <2>2 DEF Taken
    <3>2. Answers(Self)
      BY <1>0, <2>0, <3>1, HandlersOf DEF TakesHeader, Ends, TakesBytes, Stores
    <3>a. ASSUME NEW f, Replies(Self, <<f>>)
          PROVE  Quiet' /\ replies'[Self] = <<f>> /\ StoreSame
      BY <3>1, <3>a DEF Replies, Quiet
    <3>b. ASSUME NEW f, NEW g, Replies(Self, <<f, g>>)
          PROVE  Quiet' /\ replies'[Self] = <<f, g>> /\ StoreSame
      BY <3>1, <3>b DEF Replies, Quiet
    <3>4. CASE call.pc = "list_meta"
      <4>1. handler[Self].pc = "list"
        BY <2>0, <3>1, <3>4
      <4>2. Replies(Self, <<Yes, Frame("data", stored_keys)>>) /\ stored_keys \in Seq(Keys)
        BY <3>2, <4>1 DEF Answers, ServerInv
      <4>3. Quiet' /\ replies'[Self] = <<Yes, Frame("data", stored_keys)>>
        BY <3>b, <4>2
      <4>4. Answered'
        BY <3>4, <4>2, <4>3 DEF Answered, Yes, Frame
      <4> QED
        BY <1>2, <1>4, <1>5, <4>4 DEF TalkInv, Waits
    <3>5. CASE call.pc # "list_meta" /\ Key \in DOMAIN stored
      <4>1. CASE call.pc = "exist_meta"
        <5>1. Replies(Self, <<Yes>>)
          BY <2>0, <3>1, <3>2, <3>5, <4>1 DEF Answers
        <5>2. Quiet' /\ replies'[Self] = <<Yes>> /\ StoreSame
          BY <3>a, <5>1
        <5>3. Answered'
          BY <1>2, <3>5, <4>1, <5>2 DEF Answered, StoreSame, Yes, Frame
        <5> QED
          BY <1>2, <1>4, <1>5, <5>3 DEF TalkInv, Waits
      <4>2. CASE call.pc = "get_meta"
        <5>1. Replies(Self, <<Yes, Frame("data", Key)>>)
          BY <2>0, <3>1, <3>2, <3>5, <4>2 DEF Answers
        <5>2. Quiet' /\ replies'[Self] = <<Yes, Frame("data", Key)>> /\ StoreSame
          BY <3>b, <5>1
        <5>3. Answered'
          BY <1>2, <3>5, <4>2, <5>2 DEF Answered, StoreSame, Yes, Frame
        <5> QED
          BY <1>2, <1>4, <1>5, <5>3 DEF TalkInv, Waits
      <4> QED
        BY <1>5, <3>5, <4>1, <4>2 DEF Waits
    <3>6. CASE call.pc # "list_meta" /\ Key \notin DOMAIN stored
      <4>1. Replies(Self, <<No>>)
        BY <2>0, <3>1, <3>2, <3>6 DEF Answers
      <4>2. Quiet' /\ replies'[Self] = <<No>> /\ StoreSame
        BY <3>a, <4>1
      <4>3. ~InTransit(Key)
        <5>1. handler[Self].pc # "store"
          BY <2>0, <3>1
        <5>2. DOMAIN requests[Self] = {}
          BY <3>1
        <5> QED
          BY <5>1, <5>2 DEF InTransit
      <4>4. Key \notin known
        BY <3>6, <4>3 DEF SafeInv, Safe
      <4>5. Answered'
        BY <1>2, <1>5, <3>6, <4>2, <4>4 DEF Answered, Waits, No, Frame
      <4> QED
        BY <1>2, <1>4, <1>5, <4>5 DEF TalkInv, Waits
    <3> QED
      BY <3>4, <3>5, <3>6
  <2>3. CASE Answered
    BY <1>3, <2>0, <2>3 DEF Answered
  <2> QED
    BY <1>5, <2>1, <2>2, <2>3 DEF TalkInv
<1>6. CASE call.pc \in {"list_data", "get_data"}
  <2>1. call # IdleCall
    BY <1>6, IdlePc
  <2> QED
    BY <1>3, <1>6, <2>1 DEF TalkInv
<1>7. CASE ~Waits /\ call.pc \notin {"list_data", "get_data"}
  <2>1. /\ replies[Self] = <<>> /\ PutFrames(requests[Self])
        /\ handler[Self].pc \in {"header", "put", "store", "closed"}
    BY <1>7 DEF TalkInv, Silent
  <2>2. requests[Self] # <<>> => /\ PutFrames(Tail(requests[Self]))
                                 /\ Head(requests[Self]).kind \in {"put", "data"}
    BY <1>1, <2>1, PutFramesRest
  <2>3. Silent'
    <3>1. CASE TakesHeader(Self)
      <4>1. /\ replies'[Self] = <<>> /\ requests'[Self] = Tail(requests[Self])
            /\ requests[Self] # <<>> /\ handler'[Self].pc = "put"
        BY <2>1, <2>2, <3>1 DEF TakesHeader
      <4> QED
        BY <2>2, <4>1 DEF Silent, PutFrames
    <3>2. CASE TakesBytes(Self)
      <4>1. /\ replies'[Self] = <<>> /\ requests'[Self] = Tail(requests[Self])
            /\ requests[Self] # <<>> /\ handler'[Self].pc = "store"
        BY <2>1, <3>2 DEF TakesBytes
      <4> QED
        BY <2>2, <4>1 DEF Silent, PutFrames
    <3>3. CASE Stores(Self) \/ Ends(Self)
      <4>1. /\ replies'[Self] = <<>> /\ requests'[Self] = requests[Self]
            /\ handler'[Self].pc \in {"header", "closed"}
        BY <2>1, <3>3, HandlersOf DEF Stores, Ends
      <4> QED
        BY <2>1, <4>1 DEF Silent, PutFrames
    <3> QED
      BY <1>0, <2>1, <3>1, <3>2, <3>3 DEF Answers
  <2> QED
    BY <1>2, <1>4, <1>7, <2>3 DEF TalkInv
<1> QED
  BY <1>5, <1>6, <1>7

(* Every step of the server keeps the invariant.                           *)
LEMMA ServerStep ==
    ASSUME HybridInv, NEW c \in Conns, Server(c), Learn
    PROVE  HybridInv'
<1>0. /\ StoreInv /\ CallInv /\ JobInv /\ ServerInv /\ TalkInv /\ SafeInv
      /\ HandleClient(c) /\ UNCHANGED localVars /\ call' = call /\ peer' = peer
  BY DEF HybridInv, Server, peerVars
<1>1. known' = known
  BY <1>0, SameKnown
<1>2. ServerInv' /\ DOMAIN stored \subseteq DOMAIN stored' /\ SafeGrows
  BY <1>0, ServerFrames, ServerSafe
<1>3. UNCHANGED lost /\ Elsewhere(c)
  BY <1>0, HandlerSteps
<1>4. TalkInv'
  <2>1. CASE c = Self
    BY <1>0, <1>1, <2>1, ServerTalk
  <2>2. CASE c # Self
    BY <1>0, <1>1, <1>2, <1>3, <2>2, SameTalk, HybridAssumption DEF Elsewhere
  <2> QED
    BY <2>1, <2>2
<1>5. DOMAIN dict' \subseteq DOMAIN dict
  BY <1>0 DEF localVars, storeVars
<1>6. StoreInv' /\ CallInv' /\ JobInv' /\ SafeInv'
  BY <1>0, <1>1, <1>2, <1>3, <1>5, SameStore, SameCall, SameJob, SameSafe
<1> QED
  BY <1>2, <1>4, <1>6 DEF HybridInv

-----------------------------------------------------------------------------
(***************************************************************************)
(* What a client sends, and the steps of the peer.                         *)
(***************************************************************************)
(* A frame joins the stream of the handler at its end.                     *)
LEMMA StreamEnd ==
    ASSUME NEW h \in Handlers, NEW r \in Seq(Frames), NEW f \in Frames
    PROVE  /\ Stream(h, r) \in Seq(Frames)
           /\ Stream(h, Append(r, f)) = Append(Stream(h, r), f)
<1>1. CASE h.pc = "put"
  <2>1. PICK g \in Frames : g = Frame("put", h.key)
    BY <1>1, HandlerTypes, FrameTypes
  <2>2. PICK s : s = <<g>> \o r
    OBVIOUS
  <2>3. s \in Seq(Frames) /\ Append(s, f) = <<g>> \o Append(r, f)
    BY <2>2, InFront
  <2> QED
    BY <1>1, <2>1, <2>2, <2>3 DEF Stream
<1>2. CASE h.pc # "put"
  BY <1>2 DEF Stream
<1> QED
  BY <1>1, <1>2

(* A client sends a frame that fits its stream.                            *)
LEMMA Sends ==
    ASSUME ServerInv, NEW c \in Conns, NEW f \in Frames, SendAll(c, f),
           UNCHANGED <<handler, lost, stored, stored_keys>>, DOMAIN replies' = Conns,
           peer' \in Keys \cup {NoData}, \A d \in Conns \ {c} : Open(d)' = Open(d),
           WellFramed(Append(Stream(handler[c], requests[c]), f), Open(c)'),
           Open(c)' # NoData => EndsOpen(Append(Stream(handler[c], requests[c]), f), Open(c)')
    PROVE  ServerInv' /\ SafeGrows /\ \A d \in Conns \ {c} : requests'[d] = requests[d]
<1>0. /\ DOMAIN requests = Conns /\ \A d \in Conns : FrameOK(d)
      /\ requests[c] \in Seq(Frames) /\ handler[c] \in Handlers
  BY DEF ServerInv, FrameOK
<1>1. /\ DOMAIN requests' = Conns /\ requests'[c] = Append(requests[c], f)
      /\ \A d \in Conns \ {c} : requests'[d] = requests[d]
  BY <1>0 DEF SendAll
<1>2. requests'[c] \in Seq(Frames)
      /\ Stream(handler[c], requests'[c]) = Append(Stream(handler[c], requests[c]), f)
  BY <1>0, <1>1, StreamEnd
<1>3. FrameOK(c)'
  BY <1>0, <1>2 DEF FrameOK
<1>4. \A d \in Conns : FrameOK(d)'
  BY <1>0, <1>1, <1>3, SameFrames
<1>5. SafeGrows
  <2>0. Self \in Conns /\ requests[Self] \in Seq(Frames)
    BY <1>0, HybridAssumption DEF FrameOK
  <2>1. \A i \in DOMAIN requests[Self] :
           i \in DOMAIN requests'[Self] /\ requests'[Self][i] = requests[Self][i]
    BY <1>1, <2>0
  <2> QED
    BY <2>1 DEF SafeGrows, Safe, InTransit
<1> QED
  BY <1>1, <1>4, <1>5 DEF ServerInv

(* A step of the peer.                                                     *)
LEMMA PeerStep ==
    ASSUME HybridInv, (\E k \in PeerKeys : PeerHeader(k)) \/ PeerPayload \/ PeerLost, Learn
    PROVE  HybridInv'
<1>0. /\ StoreInv /\ CallInv /\ JobInv /\ ServerInv /\ TalkInv /\ SafeInv
      /\ Peer \in Conns /\ Self \in Conns /\ Self # Peer /\ Conns \ {Peer} = {Self}
  BY HybridAssumption DEF HybridInv
<1>1. UNCHANGED localVars /\ call' = call
  BY DEF PeerHeader, PeerPayload, PeerLost, PeerSend
<1>2. known' = known
  BY <1>0, <1>1, SameKnown
<1>3. Open(Self)' = Open(Self)
  BY <1>0, <1>1 DEF Open, Key
<1>4. /\ FrameOK(Peer) /\ requests[Peer] \in Seq(Frames) /\ handler[Peer] \in Handlers
      /\ WellFramed(Stream(handler[Peer], requests[Peer]), peer)
      /\ peer # NoData /\ Peer \notin lost => EndsOpen(Stream(handler[Peer], requests[Peer]), peer)
      /\ Stream(handler[Peer], requests[Peer]) \in Seq(Frames)
  <2>1. /\ FrameOK(Peer) /\ requests[Peer] \in Seq(Frames) /\ handler[Peer] \in Handlers
        /\ WellFramed(Stream(handler[Peer], requests[Peer]), peer)
        /\ peer # NoData /\ Peer \notin lost => EndsOpen(Stream(handler[Peer], requests[Peer]), peer)
    BY <1>0 DEF ServerInv, FrameOK, Open
  <2>2. Frame("list", NoData) \in Frames
    BY FrameTypes
  <2> QED
    BY <2>1, <2>2, StreamEnd
<1>5. /\ ServerInv' /\ SafeGrows /\ requests'[Self] = requests[Self]
      /\ UNCHANGED <<replies, handler>> /\ lost \subseteq lost' /\ (Self \in lost' => Self \in lost)
  <2>1. ASSUME NEW k \in PeerKeys, PeerHeader(k)
        PROVE  /\ ServerInv' /\ SafeGrows /\ requests'[Self] = requests[Self]
               /\ UNCHANGED <<replies, handler, lost>>
    <3>1. /\ SendAll(Peer, Frame("put", k)) /\ UNCHANGED <<replies, handler, lost, stored, stored_keys>>
          /\ peer = NoData /\ peer' = k
      BY <2>1 DEF PeerHeader, PeerSend, storeState
    <3>2. k \in Keys /\ Open(Peer)' = k
      BY <3>1, HybridAssumption DEF Open
    <3>3. PICK f \in Frames : f = Frame("put", k)
      BY <3>2, FrameTypes
    <3>4. /\ WellFramed(Append(Stream(handler[Peer], requests[Peer]), f), k)
          /\ EndsOpen(Append(Stream(handler[Peer], requests[Peer]), f), k)
      BY <1>4, <3>1, <3>2, <3>3, FramedHeader
    <3>5. DOMAIN replies' = Conns
      BY <1>0, <3>1 DEF ServerInv
    <3> QED
      BY <1>0, <1>3, <3>1, <3>2, <3>3, <3>4, <3>5, Sends
  <2>2. ASSUME PeerPayload
        PROVE  /\ ServerInv' /\ SafeGrows /\ requests'[Self] = requests[Self]
               /\ UNCHANGED <<replies, handler, lost>>
    <3>1. /\ SendAll(Peer, Frame("data", peer)) /\ UNCHANGED <<replies, handler, lost, stored, stored_keys>>
          /\ peer # NoData /\ peer' = NoData /\ Peer \notin lost
      BY <2>2 DEF PeerPayload, PeerSend, storeState
    <3>2. peer \in Keys /\ Open(Peer)' = NoData
      BY <1>0, <3>1 DEF Open, ServerInv
    <3>3. PICK f \in Frames : f = Frame("data", peer)
      BY <3>2, FrameTypes
    <3>4. WellFramed(Append(Stream(handler[Peer], requests[Peer]), f), NoData)
      BY <1>4, <3>1, <3>2, <3>3, FramedBytes
    <3>5. DOMAIN replies' = Conns
      BY <1>0, <3>1 DEF ServerInv
    <3> QED
      BY <1>0, <1>3, <3>1, <3>2, <3>3, <3>4, <3>5, Sends
  <2>3. CASE PeerLost
    <3>1. /\ UNCHANGED <<requests, replies, handler, stored, stored_keys, peer>>
          /\ lost' = lost \cup {Peer}
      BY <2>3 DEF PeerLost, Disconnect, storeState, peerVars
    <3>2. \A d \in Conns : Open(d)' = Open(d)
      BY <1>1, <3>1 DEF Open, Key
    <3>3. \A d \in Conns : FrameOK(d)'
      BY <1>0, <3>1, <3>2, SameFrames DEF ServerInv
    <3>4. ServerInv'
      BY <1>0, <3>1, <3>3 DEF ServerInv
    <3>5. SafeGrows
      BY <3>1 DEF SafeGrows, Safe, InTransit
    <3> QED
      BY <1>0, <3>1, <3>4, <3>5
  <2> QED
    BY <2>1, <2>2, <2>3
<1>6. JobInv'
  BY <1>0, <1>1, <1>5 DEF JobInv, localVars, Putting, Key
<1>7. TalkInv'
  BY <1>0, <1>1, <1>2, <1>5, SameTalk DEF SafeGrows
<1>8. DOMAIN dict' \subseteq DOMAIN dict
  BY <1>1 DEF localVars, storeVars
<1>9. StoreInv' /\ CallInv' /\ SafeInv'
  BY <1>0, <1>1, <1>2, <1>5, <1>8, SameStore, SameCall, SameSafe
<1> QED
  BY <1>5, <1>6, <1>7, <1>9 DEF HybridInv
-----------------------------------------------------------------------------
(***************************************************************************)
(* The steps of the main thread: what they have in common.                 *)
(***************************************************************************)
(* The main thread is in a call.                                           *)
LEMMA InCall ==
    ASSUME HybridInv, call.pc # "idle"
    PROVE  /\ StoreInv /\ CallInv /\ JobInv /\ ServerInv /\ TalkInv /\ SafeInv
           /\ call # IdleCall /\ call \in Calls /\ CallShape
           /\ call.todo \in Seq(Keys) /\ call.remote_queries \in Seq(Keys) /\ call.got \in Results
           /\ call.todo # <<>> => Key \in Keys /\ Tail(call.todo) \in Seq(Keys)
           /\ call.pc \in KeyPcs => call.todo # <<>>
           /\ ~closed /\ Self \notin lost /\ handler[Self].pc # "closed"
           /\ Self \in Conns /\ requests[Self] \in Seq(Frames) /\ DOMAIN replies = Conns
<1>1. StoreInv /\ CallInv /\ JobInv /\ ServerInv /\ TalkInv /\ SafeInv
  BY DEF HybridInv
<1>2. call # IdleCall
  BY IdlePc
<1>3. /\ call \in Calls /\ CallShape /\ call.todo \in Seq(Keys)
      /\ call.remote_queries \in Seq(Keys) /\ call.got \in Results
  BY <1>1, <1>2 DEF CallInv, Calls
<1>4. call.todo # <<>> => Key \in Keys /\ Tail(call.todo) \in Seq(Keys)
  BY <1>3, EmptySeq DEF Key
<1>5. ~closed /\ Self \notin lost
  BY <1>1, <1>2 DEF JobInv
<1>6. handler[Self].pc # "closed"
  BY <1>1, <1>5 DEF TalkInv
<1>7. call.pc \in KeyPcs => call.todo # <<>>
  BY <1>3 DEF CallShape
<1>8. Self \in Conns /\ requests[Self] \in Seq(Frames) /\ DOMAIN replies = Conns
  BY <1>1, HybridAssumption DEF ServerInv, FrameOK
<1> QED
  BY <1>1, <1>2, <1>3, <1>4, <1>5, <1>6, <1>7, <1>8

(* The call after a step that does not end it.                             *)
Became(pc, todo, missed, checks, got, value) ==
    /\ call' \in Calls /\ call'.op = call.op /\ call'.keys = call.keys
    /\ call'.pc = pc /\ call'.todo = todo /\ call'.remote_queries = missed
    /\ call'.checks = checks /\ call'.got = got /\ call'.value = value

(* Such a step keeps the shape of the call.                                *)
LEMMA CallBecame ==
    ASSUME HybridInv, call.pc # "idle", NEW pc, NEW todo, NEW missed, NEW checks, NEW got, NEW value,
           Became(pc, todo, missed, checks, got, value),
           pc \in IF IsPut THEN WritePcs ELSE ReadPcs,
           pc \in KeyPcs => todo # <<>>,
           IsPut => todo = call.todo,
           pc \in ListPcs => call.op = "prefetch",
           pc = "fill" => value = Head(todo)
    PROVE  CallInv' /\ call'.pc # "idle" /\ call' # IdleCall /\ Key' = Head(todo)
<1>1. CallShape
  BY InCall
<1>2. /\ call'.op = call.op /\ call'.keys = call.keys /\ call'.pc = pc /\ call'.todo = todo
      /\ call'.value = value /\ call' \in Calls
  BY DEF Became
<1>3. Key' = Head(todo) /\ (IsPut' <=> IsPut)
  BY <1>2 DEF Key, IsPut
<1>4. IsPut => Key' = Key
  BY <1>3 DEF Key
<1>5. CallShape'
  BY <1>1, <1>2, <1>3, <1>4 DEF CallShape
<1>6. call'.pc # "idle"
  BY <1>2 DEF ReadPcs, WritePcs, ListPcs
<1>7. call' # IdleCall
  BY <1>6, IdlePc
<1> QED
  BY <1>2, <1>3, <1>5, <1>6, <1>7 DEF CallInv

(* The local store is not touched.                                         *)
LEMMA MainJob ==
    ASSUME HybridInv, call.pc # "idle", job["main"] = IdleJob,
           UNCHANGED <<put_queue, job, closed, lost>>
    PROVE  JobInv'
<1>1. JobInv /\ ~closed
  BY InCall
<1>2. ~Putting("main")
  BY DEF Putting, PutPcs, IdleJob
<1> QED
  BY <1>1, <1>2 DEF JobInv, Putting

(* Nothing is sent.                                                        *)
LEMMA MainFrames ==
    ASSUME ServerInv, UNCHANGED <<requests, handler, stored, stored_keys, peer>>,
           lost \subseteq lost', DOMAIN replies' = Conns,
           call.pc # "put_payload", call'.pc # "put_payload"
    PROVE  ServerInv' /\ SafeGrows
<1>1. \A c \in Conns : Open(c)' = Open(c)
  BY DEF Open
<1>2. \A c \in Conns : FrameOK(c)'
  BY <1>1, SameFrames DEF ServerInv
<1> QED
  BY <1>2 DEF ServerInv, SafeGrows, Safe, InTransit

(* A question is sent.                                                     *)
LEMMA MainAsks ==
    ASSUME HybridInv, call.pc # "idle", NEW f \in Frames, f.kind \notin {"put", "data"},
           SendAll(Self, f), UNCHANGED <<handler, lost, stored, stored_keys, peer>>,
           DOMAIN replies' = Conns, replies'[Self] = <<>>, PutFrames(requests[Self]),
           handler[Self].pc \in {"header", "put", "store"},
           call.pc # "put_payload", call'.pc \in {"list_meta", "exist_meta", "get_meta"},
           Question' = f
    PROVE  ServerInv' /\ SafeGrows /\ TalkInv'
<1>0. /\ ServerInv /\ Self \in Conns /\ requests[Self] \in Seq(Frames) /\ FrameOK(Self)
      /\ Self # Peer /\ Conns \ {Self} = {Peer} /\ DOMAIN requests = Conns
  BY InCall, HybridAssumption DEF ServerInv
<1>1. Open(Self) = NoData /\ Open(Self)' = NoData /\ Open(Peer)' = Open(Peer)
  BY <1>0 DEF Open
<1>2. /\ WellFramed(Stream(handler[Self], requests[Self]), NoData)
      /\ Stream(handler[Self], requests[Self]) \in Seq(Frames)
  BY <1>0, <1>1, StreamEnd DEF FrameOK
<1>3. WellFramed(Append(Stream(handler[Self], requests[Self]), f), NoData)
  BY <1>2, FramedQuestion
<1>4. peer' \in Keys \cup {NoData}
  BY <1>0 DEF ServerInv
<1>5. ServerInv' /\ SafeGrows
  BY <1>0, <1>1, <1>3, <1>4, Sends
<1>6. requests'[Self] = Append(requests[Self], f)
  BY <1>0 DEF SendAll
<1>7. Asked'
  BY <1>0, <1>6 DEF Asked
<1>8. Waits' /\ handler'[Self].pc # "closed" /\ call'.pc \notin {"list_data", "get_data"}
  BY DEF Waits
<1> QED
  BY <1>5, <1>7, <1>8 DEF TalkInv

(* What is in the list of keys is its head or in the rest.                 *)
LEMMA KeyOrRest ==
    ASSUME HybridInv, call.pc # "idle", call.todo # <<>>
    PROVE  Range(call.todo) = {Key} \cup Range(Tail(call.todo))
<1>1. call.todo \in Seq(Keys)
  BY InCall
<1> QED
  BY <1>1, FirstOrRest DEF Key

(* The safe keys when a call goes on.                                      *)
LEMMA MainSafe ==
    ASSUME HybridInv, call.pc # "idle", known' = known, DOMAIN dict' \subseteq DOMAIN dict, SafeGrows,
           call'.op = call.op, call'.keys = call.keys, \A k \in DOMAIN call'.got : Safe(k)',
           call.pc \in {"remote_put", "put_payload"} =>
              \/ call'.pc \in {"remote_put", "put_payload"} /\ Key' = Key
              \/ \A k : k = Key => Safe(k)',
           call'.pc \in {"get_data", "fill"} => Key' \in DOMAIN stored',
           call'.pc = "return" => Safe(Key)',
           Covered'
    PROVE  SafeInv'
<1>1. SafeInv
  BY InCall
<1>2. \A k \in DOMAIN dict : Safe(k) \/ (call.pc \in {"remote_put", "put_payload"} /\ Key = k)
  BY <1>1 DEF SafeInv, WriteThrough, Safe
<1>3. WriteThrough'
  BY <1>2 DEF WriteThrough, Safe, SafeGrows
<1>4. \A k \in known' : Safe(k)'
  BY <1>1 DEF SafeInv, SafeGrows
<1> QED
  BY <1>3, <1>4 DEF SafeInv

(* Only the place in the code changes.                                     *)
LEMMA MovesTo ==
    ASSUME HybridInv, call.pc # "idle", NEW pc \in (IF IsPut THEN WritePcs ELSE ReadPcs) \ {"local", "fill"},
           To(pc), call.pc # "local", known' = known,
           pc \in KeyPcs => call.todo # <<>>, pc \in ListPcs => call.op = "prefetch"
    PROVE  /\ CallInv' /\ Covered' /\ call'.pc = pc /\ Key' = Key /\ call'.todo = call.todo
           /\ call'.op = call.op /\ call'.keys = call.keys /\ call'.got = call.got
           /\ call'.pc # "idle"
<1>0. call \in Calls /\ CallShape /\ SafeInv
  BY InCall
<1>1. pc \in ReadPcs \cup WritePcs
  OBVIOUS
<1>2. Became(pc, call.todo, call.remote_queries, call.checks, call.got, call.value)
  BY <1>0, <1>1 DEF To, Became, Calls
<1>3. CallInv' /\ Key' = Head(call.todo) /\ call'.pc # "idle"
  BY <1>2, CallBecame
<1>4. Covered'
  BY <1>0, <1>2 DEF SafeInv, Covered, Became
<1> QED
  BY <1>2, <1>3, <1>4 DEF Became, Key

(* The next key, if nobody knows of this one or it was not asked for.      *)
LEMMA Skips ==
    ASSUME HybridInv, call.pc # "idle", ~IsPut, call.todo # <<>>, Skip, call.pc # "local",
           Key \notin known \cap Range(call.keys), known' = known
    PROVE  /\ CallInv' /\ Covered' /\ call'.pc = "query"
           /\ call'.op = call.op /\ call'.keys = call.keys /\ call'.got = call.got
<1>0. call \in Calls /\ SafeInv /\ Tail(call.todo) \in Seq(Keys)
  BY InCall
<1>1. Became("query", Tail(call.todo), call.remote_queries, call.checks, call.got, call.value)
  BY <1>0 DEF Skip, Became, Calls, ReadPcs
<1>2. "query" \in ReadPcs /\ "query" \notin KeyPcs /\ "query" \notin ListPcs
  BY DEF ReadPcs, KeyPcs, ListPcs
<1>3. CallInv'
  BY <1>1, <1>2, CallBecame
<1>4. Range(call.todo) = {Key} \cup Range(Tail(call.todo))
  BY KeyOrRest
<1>5. Covered'
  BY <1>0, <1>1, <1>4 DEF SafeInv, Covered, Became
<1> QED
  BY <1>1, <1>3, <1>5 DEF Became

(* The results so far.                                                     *)
LEMMA GotSafe ==
    ASSUME HybridInv, call.pc # "idle", SafeGrows, call'.got = call.got
    PROVE  \A k \in DOMAIN call'.got : Safe(k)'
BY InCall DEF SafeInv, SafeGrows

(* A step that leaves the local store and the stream of requests alone.    *)
LEMMA MainQuiet ==
    ASSUME HybridInv, call.pc # "idle", job["main"] = IdleJob, Learn,
           UNCHANGED localVars, UNCHANGED <<requests, handler, lost, stored, stored_keys, peer>>,
           DOMAIN replies' = Conns, call.pc # "put_payload",
           call'.pc # "put_payload", call'.pc # "idle"
    PROVE  StoreInv' /\ JobInv' /\ ServerInv' /\ SafeGrows /\ known' = known /\ dict' = dict
<1>1. StoreInv /\ CallInv /\ JobInv /\ ServerInv
  BY InCall
<1>2. UNCHANGED <<put_queue, job, closed, dict>>
  BY DEF localVars, storeVars
<1> QED
  BY <1>1, <1>2, SameStore, MainJob, MainFrames, SameKnown

(* The conversation when nothing is awaited.                               *)
LEMMA StaysSilent ==
    ASSUME HybridInv, call.pc # "idle", ~Waits, call.pc \notin {"list_data", "get_data"},
           requests'[Self] = requests[Self], handler'[Self] = handler[Self],
           replies'[Self] = replies[Self],
           call'.pc \notin {"list_meta", "exist_meta", "get_meta", "list_data", "get_data"}
    PROVE  TalkInv'
<1>1. TalkInv /\ handler[Self].pc # "closed"
  BY InCall
<1>2. Silent
  BY <1>1 DEF TalkInv
<1>3. Silent'
  BY <1>2 DEF Silent, PutFrames
<1> QED
  BY <1>1, <1>3 DEF TalkInv, Waits

-----------------------------------------------------------------------------
(***************************************************************************)
(* The steps of the main thread, one by one.                               *)
(***************************************************************************)
(* What is known when a question can be asked.                             *)
LEMMA MayAsk ==
    ASSUME HybridInv, call.pc # "idle", ~Waits, call.pc \notin {"list_data", "get_data"}
    PROVE  /\ replies[Self] = <<>> /\ PutFrames(requests[Self])
           /\ handler[Self].pc \in {"header", "put", "store"}
BY InCall DEF TalkInv, Silent

(* The keys at the server are asked for.                                   *)
LEMMA StepPrefetchList ==
    ASSUME HybridInv, PrefetchList, Learn
    PROVE  HybridInv'
<1>0. /\ call.pc = "list" /\ call.pc # "idle" /\ job["main"] = IdleJob /\ To("list_meta")
      /\ SendAll(Self, Frame("list", NoData)) /\ UNCHANGED localVars
      /\ UNCHANGED <<replies, lost, handler, stored, stored_keys, peer>>
  BY DEF PrefetchList, At, Request, storeState, peerVars
<1>1. StoreInv /\ CallInv /\ JobInv /\ CallShape /\ call \in Calls /\ DOMAIN replies = Conns
  BY <1>0, InCall
<1>2. "list" \notin WritePcs /\ "list" \in ListPcs /\ "list_meta" \in ReadPcs \ KeyPcs
  BY DEF WritePcs, ListPcs, ReadPcs, KeyPcs
<1>3. ~IsPut /\ call.op = "prefetch"
  BY <1>0, <1>1, <1>2 DEF CallShape
<1>4. call'.pc # "idle"
  BY <1>0, <1>1 DEF To, Calls
<1>5. known' = known
  BY <1>1, <1>4, SameKnown
<1>6. /\ CallInv' /\ Covered' /\ call'.pc = "list_meta"
      /\ call'.op = call.op /\ call'.keys = call.keys /\ call'.got = call.got
  BY <1>0, <1>2, <1>3, <1>5, MovesTo
<1>7. PICK f \in Frames : f = Frame("list", NoData) /\ f.kind = "list"
  BY FrameTypes, FrameFields
<1>8. Question' = f
  BY <1>6, <1>7 DEF Question
<1>9. ServerInv' /\ SafeGrows /\ TalkInv'
  <2>1. replies'[Self] = <<>> /\ PutFrames(requests[Self]) /\ handler[Self].pc \in {"header", "put", "store"}
    BY <1>0, MayAsk DEF Waits
  <2> QED
    BY <1>0, <1>1, <1>6, <1>7, <1>8, <2>1, MainAsks
<1>10. dict' = dict /\ UNCHANGED <<put_queue, job, closed>>
  BY <1>0 DEF localVars, storeVars
<1>11. SafeInv'
  BY <1>0, <1>5, <1>6, <1>9, <1>10, GotSafe, MainSafe
<1>12. StoreInv' /\ JobInv'
  BY <1>0, <1>1, <1>10, SameStore, MainJob
<1> QED
  BY <1>6, <1>9, <1>11, <1>12 DEF HybridInv

(* What the answers say.                                                   *)
LEMMA AnswersSay ==
    /\ Yes.what = "SUCCESS" /\ No.what = "FAIL" /\ Yes.kind = "meta" /\ No.kind = "meta"
    /\ \A x : Head(<<x>>) = x /\ Tail(<<x>>) = <<>>
    /\ \A x, y : Head(<<x, y>>) = x /\ Tail(<<x, y>>) = <<y>>
BY DEF Yes, No, Frame

(* The answer to LIST: a code and the keys.                                *)
LEMMA ListReply ==
    ASSUME HybridInv, call.pc = "list_meta", replies[Self] # <<>>
    PROVE  Quiet /\ \E l \in Seq(Keys) : Tail(replies[Self]) = <<Frame("data", l)>>
<1>1. TalkInv
  BY DEF HybridInv
<1>2. Answered
  BY <1>1 DEF TalkInv, Waits, Asked, Taken
<1>3. PICK l \in Seq(Keys) : replies[Self] = <<Yes, Frame("data", l)>> /\ Quiet
  BY <1>2 DEF Answered
<1>4. Tail(replies[Self]) = <<Frame("data", l)>>
  BY <1>3, AnswersSay
<1> QED
  BY <1>3, <1>4

(* The answer to EXIST: what is known is found.                            *)
LEMMA ExistReply ==
    ASSUME HybridInv, call.pc = "exist_meta", replies[Self] # <<>>
    PROVE  /\ Quiet /\ Tail(replies[Self]) = <<>>
           /\ Exists => Key \in DOMAIN stored
           /\ ~Exists => Key \notin known
<1>1. TalkInv
  BY DEF HybridInv
<1>2. Answered
  BY <1>1 DEF TalkInv, Waits, Asked, Taken
<1> QED
  BY <1>2, AnswersSay DEF Answered, Exists

(* The answer to GET: a known chunk is sent, and it is the right one.      *)
LEMMA GetReply ==
    ASSUME HybridInv, call.pc = "get_meta", replies[Self] # <<>>
    PROVE  /\ Quiet
           /\ Exists => Key \in DOMAIN stored /\ Tail(replies[Self]) = <<Frame("data", Key)>>
           /\ ~Exists => Key \notin known /\ Tail(replies[Self]) = <<>>
<1>1. TalkInv
  BY DEF HybridInv
<1>2. Answered
  BY <1>1 DEF TalkInv, Waits, Asked, Taken
<1> QED
  BY <1>2, AnswersSay DEF Answered, Exists

(* An answer is taken from the connection.                                 *)
LEMMA Receives ==
    ASSUME HybridInv, Recv(Self)
    PROVE  DOMAIN replies' = Conns /\ replies'[Self] = Tail(replies[Self])
BY HybridAssumption DEF HybridInv, ServerInv, Recv

(* The last answer was taken, and nothing else is awaited.                 *)
LEMMA NowSilent ==
    ASSUME HybridInv, call.pc # "idle", Quiet, replies'[Self] = <<>>,
           requests'[Self] = requests[Self], handler'[Self] = handler[Self],
           call'.pc \notin {"list_meta", "exist_meta", "get_meta", "list_data", "get_data"}
    PROVE  TalkInv'
<1>1. requests'[Self] = <<>> /\ handler'[Self].pc = "header"
  BY HandlersOf DEF Quiet
<1>2. Silent'
  BY <1>1 DEF Silent, PutFrames
<1> QED
  BY <1>1, <1>2 DEF TalkInv, Waits

(* The code of the list arrives.                                           *)
LEMMA StepReceiveListMeta ==
    ASSUME HybridInv, ReceiveListMeta, Learn
    PROVE  HybridInv'
<1>0. /\ call.pc = "list_meta" /\ call.pc # "idle" /\ job["main"] = IdleJob /\ replies[Self] # <<>>
      /\ Recv(Self) /\ To("list_data") /\ UNCHANGED localVars
      /\ UNCHANGED <<requests, lost, handler, stored, stored_keys, peer>>
  BY DEF ReceiveListMeta, At, storeState, peerVars
<1>1. StoreInv /\ CallInv /\ JobInv /\ CallShape /\ call \in Calls
  BY <1>0, InCall
<1>2. "list_meta" \notin WritePcs /\ "list_meta" \in ListPcs /\ "list_data" \in ReadPcs \ KeyPcs
  BY DEF WritePcs, ListPcs, ReadPcs, KeyPcs
<1>3. ~IsPut /\ call.op = "prefetch"
  BY <1>0, <1>1, <1>2 DEF CallShape
<1>4. call'.pc = "list_data"
  BY <1>0, <1>1 DEF To, Calls
<1>5. DOMAIN replies' = Conns /\ replies'[Self] = Tail(replies[Self])
  BY <1>0, Receives
<1>6. StoreInv' /\ JobInv' /\ ServerInv' /\ SafeGrows /\ known' = known /\ dict' = dict
  BY <1>0, <1>4, <1>5, MainQuiet
<1>7. /\ CallInv' /\ Covered' /\ call'.pc = "list_data"
      /\ call'.op = call.op /\ call'.keys = call.keys /\ call'.got = call.got
  BY <1>0, <1>2, <1>3, <1>6, MovesTo
<1>8. TalkInv'
  <2>1. Quiet /\ \E l \in Seq(Keys) : replies'[Self] = <<Frame("data", l)>>
    BY <1>0, <1>5, ListReply
  <2>2. Quiet' /\ handler'[Self].pc = "header"
    BY <1>0, <2>1, HandlersOf DEF Quiet
  <2> QED
    BY <1>7, <2>1, <2>2 DEF TalkInv, Waits
<1>9. SafeInv'
  BY <1>0, <1>6, <1>7, GotSafe, MainSafe
<1> QED
  BY <1>6, <1>7, <1>8, <1>9 DEF HybridInv

(* The list arrives.                                                       *)
LEMMA StepReceiveList ==
    ASSUME HybridInv, ReceiveList, Learn
    PROVE  HybridInv'
<1>0. /\ call.pc = "list_data" /\ call.pc # "idle" /\ job["main"] = IdleJob
      /\ Recv(Self) /\ UNCHANGED localVars
      /\ UNCHANGED <<requests, lost, handler, stored, stored_keys, peer>>
      /\ call' = [call EXCEPT !.pc = "query", !.todo = Head(replies[Self]).what]
  BY DEF ReceiveList, At, storeState, peerVars
<1>1. CallShape /\ call \in Calls /\ TalkInv
  BY <1>0, InCall
<1>2. "list_data" \notin WritePcs /\ "list_data" \in ListPcs
      /\ "query" \in ReadPcs \ KeyPcs /\ "query" \notin ListPcs
  BY DEF WritePcs, ListPcs, ReadPcs, KeyPcs
<1>3. ~IsPut /\ call.op = "prefetch"
  BY <1>0, <1>1, <1>2 DEF CallShape
<1>4. PICK l \in Seq(Keys) : replies[Self] = <<Frame("data", l)>> /\ Quiet
  BY <1>0, <1>1 DEF TalkInv
<1>5. Head(replies[Self]).what = l /\ Tail(replies[Self]) = <<>>
  BY <1>4, AnswersSay, FrameFields
<1>6. Became("query", l, call.remote_queries, call.checks, call.got, call.value)
  BY <1>0, <1>1, <1>2, <1>5 DEF Became, Calls
<1>7. CallInv' /\ call'.pc = "query" /\ call'.op = "prefetch" /\ call'.keys = call.keys
      /\ call'.got = call.got
  BY <1>0, <1>2, <1>3, <1>6, CallBecame DEF Became
<1>8. DOMAIN replies' = Conns /\ replies'[Self] = <<>>
  BY <1>0, <1>5, Receives
<1>9. StoreInv' /\ JobInv' /\ ServerInv' /\ SafeGrows /\ known' = known /\ dict' = dict
  BY <1>0, <1>7, <1>8, MainQuiet
<1>10. TalkInv'
  BY <1>0, <1>4, <1>7, <1>8, NowSilent
<1>11. Covered'
  BY <1>7 DEF Covered
<1>12. SafeInv'
  BY <1>0, <1>3, <1>7, <1>9, <1>11, GotSafe, MainSafe
<1> QED
  BY <1>7, <1>9, <1>10, <1>12 DEF HybridInv

(* A key of another model is passed over.                                  *)
LEMMA StepSkipForeign ==
    ASSUME HybridInv, SkipForeign, Learn
    PROVE  HybridInv'
<1>0. /\ call.pc = "query" /\ call.pc # "idle" /\ job["main"] = IdleJob
      /\ call.todo # <<>> /\ Key \notin Mine /\ Skip /\ UNCHANGED localVars
      /\ UNCHANGED <<requests, replies, lost, handler, stored, stored_keys, peer>>
  BY DEF SkipForeign, At, serverVars, storeState, peerVars
<1>1. CallShape /\ call \in Calls /\ DOMAIN replies' = Conns
  BY <1>0, InCall
<1>2. ~IsPut /\ Key \notin Range(call.keys)
  BY <1>0, <1>1 DEF CallShape, WritePcs
<1>3. call'.pc = "query"
  BY <1>0, <1>1 DEF Skip, Calls
<1>4. StoreInv' /\ JobInv' /\ ServerInv' /\ SafeGrows /\ known' = known /\ dict' = dict
  BY <1>0, <1>1, <1>3, MainQuiet
<1>5. /\ CallInv' /\ Covered'
      /\ call'.op = call.op /\ call'.keys = call.keys /\ call'.got = call.got
  BY <1>0, <1>2, <1>4, Skips
<1>6. TalkInv'
  BY <1>0, <1>3, StaysSilent DEF Waits
<1>7. SafeInv'
  BY <1>0, <1>3, <1>4, <1>5, GotSafe, MainSafe
<1> QED
  BY <1>4, <1>5, <1>6, <1>7 DEF HybridInv

(* The server is asked about the key.                                      *)
LEMMA AsksFor ==
    ASSUME HybridInv, call.pc \notin {"idle", "local", "remote_put", "put_payload"},
           job["main"] = IdleJob, Learn, UNCHANGED localVars, call.todo # <<>>,
           NEW kind, NEW pc \in IF IsPut THEN WritePcs ELSE ReadPcs, NEW checks,
           (kind = "exist" /\ pc = "exist_meta") \/ (kind = "get" /\ pc = "get_meta"),
           Became(pc, call.todo, call.remote_queries, checks, call.got, call.value),
           SendAll(Self, Frame(kind, Key)), UNCHANGED <<handler, lost, stored, stored_keys, peer>>,
           DOMAIN replies' = Conns, replies'[Self] = <<>>, PutFrames(requests[Self]),
           handler[Self].pc \in {"header", "put", "store"}
    PROVE  HybridInv'
<1>1. StoreInv /\ CallInv /\ JobInv /\ SafeInv /\ Key \in Keys
  BY InCall
<1>2. pc \notin ListPcs
  BY DEF ListPcs
<1>3. CallInv' /\ call'.pc # "idle" /\ Key' = Key
  BY <1>2, CallBecame DEF Key
<1>4. /\ call'.pc = pc /\ call'.op = call.op /\ call'.keys = call.keys /\ call'.got = call.got
      /\ call'.todo = call.todo
  BY DEF Became
<1>5. known' = known
  BY <1>1, <1>3, SameKnown
<1>6. Covered'
  BY <1>1, <1>4, <1>5 DEF SafeInv, Covered
<1>7. PICK f \in Frames : f = Frame(kind, Key) /\ f.kind = kind
  BY <1>1, FrameTypes, FrameFields
<1>8. Question' = f
  BY <1>3, <1>4, <1>7 DEF Question
<1>9. ServerInv' /\ SafeGrows /\ TalkInv'
  BY <1>4, <1>7, <1>8, MainAsks
<1>10. dict' = dict /\ UNCHANGED <<put_queue, job, closed>>
  BY DEF localVars, storeVars
<1>11. SafeInv'
  BY <1>4, <1>5, <1>6, <1>9, <1>10, GotSafe, MainSafe
<1>12. StoreInv' /\ JobInv'
  BY <1>1, <1>10, SameStore, MainJob
<1> QED
  BY <1>3, <1>9, <1>11, <1>12 DEF HybridInv

(* The next key is asked for.                                              *)
LEMMA StepQuery ==
    ASSUME HybridInv, Query, Learn
    PROVE  HybridInv'
<1>0. /\ call.pc = "query" /\ call.pc # "idle" /\ job["main"] = IdleJob /\ call.todo # <<>>
      /\ SendAll(Self, Frame("exist", Key)) /\ UNCHANGED localVars
      /\ UNCHANGED <<replies, lost, handler, stored, stored_keys, peer>>
      /\ call' = [call EXCEPT !.pc = "exist_meta", !.checks = IF call.op = "batch" THEN 2 ELSE 1]
  BY DEF Query, At, storeState, peerVars
<1>1. CallShape /\ call \in Calls /\ DOMAIN replies = Conns
  BY <1>0, InCall
<1>2. ~IsPut
  BY <1>0, <1>1 DEF CallShape, WritePcs
<1>3. PICK checks \in {1, 2} : checks = IF call.op = "batch" THEN 2 ELSE 1
  OBVIOUS
<1>4. "exist_meta" \in ReadPcs
  BY DEF ReadPcs
<1>5. Became("exist_meta", call.todo, call.remote_queries, checks, call.got, call.value)
  BY <1>0, <1>1, <1>3, <1>4 DEF Became, Calls
<1>6. replies[Self] = <<>> /\ PutFrames(requests[Self]) /\ handler[Self].pc \in {"header", "put", "store"}
  BY <1>0, MayAsk DEF Waits
<1>7. call.pc \notin {"idle", "local", "remote_put", "put_payload"}
  BY <1>0
<1>8. /\ "exist_meta" \in IF IsPut THEN WritePcs ELSE ReadPcs
      /\ DOMAIN replies' = Conns /\ replies'[Self] = <<>>
  BY <1>0, <1>1, <1>2, <1>4, <1>6
<1> QED
  BY <1>0, <1>5, <1>6, <1>7, <1>8, AsksFor

(* A put looks for its key in the local store, then at the server.         *)
LEMMA StepContainsLocal ==
    ASSUME HybridInv, ContainsLocal, Learn
    PROVE  HybridInv'
<1>0. /\ call.pc = "contains" /\ call.pc # "idle" /\ job["main"] = IdleJob /\ UNCHANGED localVars
      /\ UNCHANGED <<replies, lost, handler, stored, stored_keys, peer>>
      /\ IF Key \in DOMAIN dict
         THEN To("return") /\ UNCHANGED requests
         ELSE To("exist_meta") /\ SendAll(Self, Frame("exist", Key))
  BY DEF ContainsLocal, At, storeState, peerVars
<1>1. CallShape /\ call \in Calls /\ DOMAIN replies = Conns /\ SafeInv /\ call.todo # <<>>
  <2>1. "contains" \in KeyPcs
    BY DEF KeyPcs, WritePcs, ReadPcs, ListPcs
  <2> QED
    BY <1>0, <2>1, InCall
<1>2. IsPut
  BY <1>0, <1>1 DEF CallShape, ReadPcs, ListPcs
<1>3. {"exist_meta", "return"} \subseteq WritePcs \ {"local", "fill"} /\ "return" \notin ListPcs
  BY DEF WritePcs, ListPcs
<1>4. CASE Key \in DOMAIN dict
  <2>1. call'.pc = "return"
    BY <1>0, <1>1, <1>4 DEF To, Calls
  <2>2. StoreInv' /\ JobInv' /\ ServerInv' /\ SafeGrows /\ known' = known /\ dict' = dict
    BY <1>0, <1>1, <1>4, <2>1, MainQuiet
  <2>3. /\ CallInv' /\ Covered' /\ Key' = Key
        /\ call'.op = call.op /\ call'.keys = call.keys /\ call'.got = call.got
    BY <1>0, <1>1, <1>2, <1>3, <1>4, <2>2, MovesTo
  <2>4. Safe(Key)
    BY <1>0, <1>1, <1>4 DEF SafeInv, WriteThrough, Safe
  <2>5. Safe(Key)'
    <3>1. PICK k : k = Key
      OBVIOUS
    <3>2. Safe(k)'
      BY <2>2, <2>4, <3>1 DEF SafeGrows
    <3> QED
      BY <2>3, <3>1, <3>2 DEF Safe, InTransit
  <2>6. TalkInv'
    BY <1>0, <1>4, <2>1, StaysSilent DEF Waits
  <2>7. SafeInv'
    BY <1>0, <2>1, <2>2, <2>3, <2>5, GotSafe, MainSafe
  <2> QED
    BY <2>2, <2>3, <2>6, <2>7 DEF HybridInv
<1>5. CASE Key \notin DOMAIN dict
  <2>1. To("exist_meta") /\ SendAll(Self, Frame("exist", Key))
    BY <1>0, <1>5
  <2>2. Became("exist_meta", call.todo, call.remote_queries, call.checks, call.got, call.value)
    BY <1>1, <1>3, <2>1 DEF Became, Calls, To
  <2>3. replies[Self] = <<>> /\ PutFrames(requests[Self]) /\ handler[Self].pc \in {"header", "put", "store"}
    BY <1>0, MayAsk DEF Waits
  <2>4. call.pc \notin {"idle", "local", "remote_put", "put_payload"}
    BY <1>0
  <2>5. /\ "exist_meta" \in IF IsPut THEN WritePcs ELSE ReadPcs
        /\ DOMAIN replies' = Conns /\ replies'[Self] = <<>>
    BY <1>0, <1>1, <1>2, <1>3, <2>3
  <2> QED
    BY <1>0, <1>1, <2>1, <2>2, <2>3, <2>4, <2>5, AsksFor
<1> QED
  BY <1>4, <1>5

(* A read has its answer: it goes on, asks again or gets the chunk.        *)
LEMMA StepReceiveExist ==
    ASSUME HybridInv, ReceiveExist, Learn
    PROVE  HybridInv'
<1>0. /\ call.pc = "exist_meta" /\ call.pc # "idle" /\ job["main"] = IdleJob
      /\ replies[Self] # <<>> /\ ~IsPut /\ Recv(Self) /\ UNCHANGED localVars
      /\ UNCHANGED <<lost, handler, stored, stored_keys, peer>>
      /\ \/ ~Exists /\ Skip /\ UNCHANGED requests
         \/ /\ Exists /\ call.checks > 1 /\ SendAll(Self, Frame("exist", Key))
            /\ call' = [call EXCEPT !.checks = @ - 1]
         \/ /\ Exists /\ call.checks = 1 /\ SendAll(Self, Frame("get", Key)) /\ To("get_meta")
  BY DEF ReceiveExist, At, storeState, peerVars
<1>1. call \in Calls /\ call.todo # <<>> /\ call.checks \in {1, 2}
  <2>1. "exist_meta" \in KeyPcs
    BY DEF KeyPcs, WritePcs, ReadPcs, ListPcs
  <2>2. call \in Calls /\ call.todo # <<>>
    BY <1>0, <2>1, InCall
  <2> QED
    BY <2>2 DEF Calls
<1>2. Quiet /\ (~Exists => Key \notin known)
  BY <1>0, ExistReply
<1>3. DOMAIN replies' = Conns /\ replies'[Self] = <<>>
  BY <1>0, ExistReply, Receives
<1>4. PutFrames(requests[Self]) /\ handler[Self].pc \in {"header", "put", "store"}
  BY <1>2, HandlersOf DEF Quiet, PutFrames
<1>5. {"exist_meta", "get_meta"} \subseteq ReadPcs
  BY DEF ReadPcs
<1>6. call.pc \notin {"idle", "local", "remote_put", "put_payload"}
  BY <1>0
<1>7. CASE ~Exists /\ Skip /\ UNCHANGED requests
  <2>1. call'.pc = "query"
    BY <1>1, <1>7 DEF Skip, Calls
  <2>2. StoreInv' /\ JobInv' /\ ServerInv' /\ SafeGrows /\ known' = known /\ dict' = dict
    BY <1>0, <1>3, <1>7, <2>1, MainQuiet
  <2>3. /\ CallInv' /\ Covered'
        /\ call'.op = call.op /\ call'.keys = call.keys /\ call'.got = call.got
    BY <1>0, <1>1, <1>2, <1>7, <2>2, Skips
  <2>4. TalkInv'
    BY <1>0, <1>2, <1>3, <1>7, <2>1, NowSilent
  <2>5. SafeInv'
    BY <1>0, <2>1, <2>2, <2>3, GotSafe, MainSafe
  <2> QED
    BY <2>2, <2>3, <2>4, <2>5 DEF HybridInv
<1>8. CASE /\ call.checks > 1 /\ SendAll(Self, Frame("exist", Key))
           /\ call' = [call EXCEPT !.checks = @ - 1]
  <2>1. call.checks = 2
    BY <1>1, <1>8
  <2>2. Became("exist_meta", call.todo, call.remote_queries, 1, call.got, call.value)
    <3>1. call.checks - 1 = 1
      BY <2>1
    <3>2. call' = [call EXCEPT !.checks = 1]
      BY <1>8, <3>1, Zenon
    <3> QED
      BY <1>0, <1>1, <1>5, <3>2 DEF Became, Calls
  <2>3. "exist_meta" \in IF IsPut THEN WritePcs ELSE ReadPcs
    BY <1>0, <1>5
  <2> QED
    BY <1>0, <1>1, <1>3, <1>4, <1>6, <1>8, <2>2, <2>3, AsksFor
<1>9. CASE SendAll(Self, Frame("get", Key)) /\ To("get_meta")
  <2>1. Became("get_meta", call.todo, call.remote_queries, call.checks, call.got, call.value)
    BY <1>1, <1>5, <1>9 DEF Became, Calls, To
  <2>2. "get_meta" \in IF IsPut THEN WritePcs ELSE ReadPcs
    BY <1>0, <1>5
  <2> QED
    BY <1>0, <1>1, <1>3, <1>4, <1>6, <1>9, <2>1, <2>2, AsksFor
<1> QED
  BY <1>0, <1>7, <1>8, <1>9

(* A put finds its key.                                                    *)
LEMMA StepSkipExisting ==
    ASSUME HybridInv, SkipExisting, Learn
    PROVE  HybridInv'
<1>0. /\ call.pc = "exist_meta" /\ call.pc # "idle" /\ job["main"] = IdleJob
      /\ replies[Self] # <<>> /\ IsPut /\ Exists /\ Recv(Self) /\ To("return")
      /\ UNCHANGED localVars /\ UNCHANGED <<requests, lost, handler, stored, stored_keys, peer>>
  BY DEF SkipExisting, At, storeState, peerVars
<1>1. call \in Calls /\ call.todo # <<>>
  <2>1. "exist_meta" \in KeyPcs
    BY DEF KeyPcs, WritePcs, ReadPcs, ListPcs
  <2> QED
    BY <1>0, <2>1, InCall
<1>2. Quiet /\ Key \in DOMAIN stored
  BY <1>0, ExistReply
<1>3. DOMAIN replies' = Conns /\ replies'[Self] = <<>>
  BY <1>0, ExistReply, Receives
<1>4. "return" \in WritePcs \ {"local", "fill"} /\ "return" \notin ListPcs
  BY DEF WritePcs, ListPcs
<1>5. call'.pc = "return"
  BY <1>0, <1>1 DEF To, Calls
<1>6. StoreInv' /\ JobInv' /\ ServerInv' /\ SafeGrows /\ known' = known /\ dict' = dict
  BY <1>0, <1>3, <1>5, MainQuiet
<1>7. /\ CallInv' /\ Covered' /\ Key' = Key
      /\ call'.op = call.op /\ call'.keys = call.keys /\ call'.got = call.got
  BY <1>0, <1>1, <1>4, <1>6, MovesTo
<1>8. Safe(Key)'
  BY <1>0, <1>2, <1>7 DEF Safe
<1>9. TalkInv'
  BY <1>0, <1>2, <1>3, <1>5, NowSilent
<1>10. SafeInv'
  BY <1>0, <1>5, <1>6, <1>7, <1>8, GotSafe, MainSafe
<1> QED
  BY <1>6, <1>7, <1>9, <1>10 DEF HybridInv

(* The code of a GET arrives.                                              *)
LEMMA StepReceiveGetMeta ==
    ASSUME HybridInv, ReceiveGetMeta, Learn
    PROVE  HybridInv'
<1>0. /\ call.pc = "get_meta" /\ call.pc # "idle" /\ job["main"] = IdleJob
      /\ replies[Self] # <<>> /\ Recv(Self) /\ (IF Exists THEN To("get_data") ELSE Skip)
      /\ UNCHANGED localVars /\ UNCHANGED <<requests, lost, handler, stored, stored_keys, peer>>
  BY DEF ReceiveGetMeta, At, storeState, peerVars
<1>1. call \in Calls /\ CallShape /\ call.todo # <<>>
  <2>1. "get_meta" \in KeyPcs
    BY DEF KeyPcs, WritePcs, ReadPcs, ListPcs
  <2> QED
    BY <1>0, <2>1, InCall
<1>2. ~IsPut
  BY <1>0, <1>1 DEF CallShape, WritePcs
<1>3. /\ Quiet
      /\ Exists => Key \in DOMAIN stored /\ Tail(replies[Self]) = <<Frame("data", Key)>>
      /\ ~Exists => Key \notin known /\ Tail(replies[Self]) = <<>>
  BY <1>0, GetReply
<1>4. DOMAIN replies' = Conns /\ replies'[Self] = Tail(replies[Self])
  BY <1>0, Receives
<1>5. call'.pc = IF Exists THEN "get_data" ELSE "query"
  BY <1>0, <1>1 DEF To, Skip, Calls
<1>6. StoreInv' /\ JobInv' /\ ServerInv' /\ SafeGrows /\ known' = known /\ dict' = dict
  BY <1>0, <1>4, <1>5, MainQuiet
<1>7. CASE Exists
  <2>1. "get_data" \in ReadPcs \ {"local", "fill"} /\ "get_data" \notin ListPcs
    BY DEF ReadPcs, ListPcs
  <2>2. /\ CallInv' /\ Covered' /\ Key' = Key
        /\ call'.op = call.op /\ call'.keys = call.keys /\ call'.got = call.got
    BY <1>0, <1>1, <1>2, <1>6, <1>7, <2>1, MovesTo
  <2>3. TalkInv'
    <3>1. Quiet' /\ handler'[Self].pc = "header" /\ replies'[Self] = <<Frame("data", Key')>>
      BY <1>0, <1>3, <1>4, <1>7, <2>2, HandlersOf DEF Quiet
    <3>2. call'.pc = "get_data"
      BY <1>5, <1>7
    <3> QED
      BY <3>1, <3>2 DEF TalkInv, Waits
  <2>4. SafeInv'
    <3>1. Key' \in DOMAIN stored'
      BY <1>0, <1>3, <1>7, <2>2
    <3> QED
      BY <1>0, <1>5, <1>6, <1>7, <2>2, <3>1, GotSafe, MainSafe
  <2> QED
    BY <1>6, <2>2, <2>3, <2>4 DEF HybridInv
<1>8. CASE ~Exists
  <2>1. /\ CallInv' /\ Covered' /\ call'.pc = "query"
        /\ call'.op = call.op /\ call'.keys = call.keys /\ call'.got = call.got
    BY <1>0, <1>1, <1>2, <1>3, <1>6, <1>8, Skips
  <2>2. TalkInv'
    BY <1>0, <1>3, <1>4, <1>8, <2>1, NowSilent
  <2>3. SafeInv'
    BY <1>0, <1>6, <2>1, GotSafe, MainSafe
  <2> QED
    BY <1>6, <2>1, <2>2, <2>3 DEF HybridInv
<1> QED
  BY <1>7, <1>8

(* The worker of the local store has nothing to do.                        *)
LEMMA MainAlone ==
    ASSUME JobInv
    PROVE  Alone("main") /\ "main" \in Threads
BY DEF JobInv, Alone, Threads, Putting, PutPcs

(* A chunk goes to the local store.                                        *)
LEMMA StartsPut ==
    ASSUME HybridInv, call.pc # "idle", job["main"] = IdleJob, NEW k \in Keys, StartBlocking(k, k),
           UNCHANGED lost, call'.pc \in {"remote_put", "fill"}, Key' = k
    PROVE  StoreInv' /\ JobInv' /\ dict' = dict
<1>0. StoreInv /\ JobInv /\ ~closed /\ Alone("main") /\ "main" \in Threads /\ "worker" \in Threads
  BY InCall, MainAlone DEF Threads
<1>1. /\ UpdateOnPut("main", k, k, "old")
      /\ UNCHANGED <<dict, order, free_pool, mem_pool, update_lock, put_queue, closed, nops>>
  BY DEF StartBlocking
<1>2. update_lock' \in Threads \cup {"free"} /\ put_queue' \in Seq(Keys) /\ nops' \in Nat
  BY <1>0, <1>1 DEF StoreInv, LocalTypeOK
<1>3. PICK pc : pc = "old" /\ pc = (IF "main" = "worker" THEN "evict" ELSE "old")
  OBVIOUS
<1>4. /\ StoreInv' /\ \A u \in Threads \ {"main"} : job'[u] = job[u]
      /\ IF Capacity = 0 THEN UNCHANGED job
         ELSE job'["main"] = IF RunsOut(order, current_cache_size, Capacity)
                             THEN Job("raised", k, k, <<>>)
                             ELSE Job(pc, k, k, Victims(order, current_cache_size, Capacity))
  <2>1. UpdateOnPut("main", k, k, pc)
    BY <1>1, <1>3
  <2> QED
    BY <1>0, <1>1, <1>2, <1>3, <2>1, StartStore
<1>5. job'["worker"] = job["worker"]
  BY <1>0, <1>4
<1>6. job'["main"].pc # "stopped" /\ (Putting("main")' => job'["main"].key = k)
  <2>1. CASE Capacity = 0
    BY <1>4, <2>1 DEF IdleJob, Putting, PutPcs
  <2>2. CASE Capacity # 0
    BY <1>3, <1>4, <2>2 DEF Job
  <2> QED
    BY <2>1, <2>2
<1>7. JobInv'
  BY <1>0, <1>1, <1>5, <1>6 DEF JobInv
<1> QED
  BY <1>1, <1>4, <1>7

(* A put begins with the local store.                                      *)
LEMMA StepPutLocal ==
    ASSUME HybridInv, PutLocal, Learn
    PROVE  HybridInv'
<1>0. /\ call.pc = "exist_meta" /\ call.pc # "idle" /\ job["main"] = IdleJob
      /\ replies[Self] # <<>> /\ IsPut /\ Recv(Self) /\ StartBlocking(Key, Key) /\ To("remote_put")
      /\ UNCHANGED <<requests, lost, handler, stored, stored_keys, peer>>
  BY DEF PutLocal, At, storeState, peerVars
<1>1. call \in Calls /\ call.todo # <<>> /\ Key \in Keys
      /\ StoreInv /\ CallInv /\ JobInv /\ ServerInv /\ Self \in Conns
  <2>1. "exist_meta" \in KeyPcs
    BY DEF KeyPcs, WritePcs, ReadPcs, ListPcs
  <2> QED
    BY <1>0, <2>1, InCall
<1>2. Quiet /\ DOMAIN replies' = Conns /\ replies'[Self] = <<>>
  BY <1>0, ExistReply, Receives
<1>3. "remote_put" \in WritePcs \ {"local", "fill"} /\ "remote_put" \notin ListPcs
  BY DEF WritePcs, ListPcs
<1>4. call'.pc = "remote_put"
  BY <1>0, <1>1 DEF To, Calls
<1>5. known' = known
  BY <1>1, <1>4, SameKnown
<1>6. /\ CallInv' /\ Covered' /\ Key' = Key
      /\ call'.op = call.op /\ call'.keys = call.keys /\ call'.got = call.got
  BY <1>0, <1>1, <1>3, <1>5, MovesTo
<1>7. ServerInv' /\ SafeGrows
  BY <1>0, <1>1, <1>2, <1>4, MainFrames
<1>8. StoreInv' /\ JobInv' /\ dict' = dict
  <2>1. PICK k \in Keys : k = Key
    BY <1>1
  <2> QED
    BY <1>0, <1>4, <1>6, <2>1, StartsPut
<1>9. TalkInv'
  BY <1>0, <1>2, <1>4, NowSilent
<1>10. SafeInv'
  BY <1>0, <1>4, <1>5, <1>6, <1>7, <1>8, GotSafe, MainSafe
<1> QED
  BY <1>6, <1>7, <1>8, <1>9, <1>10 DEF HybridInv

(* The chunk arrives and goes to the local store.                          *)
LEMMA StepReceiveGet ==
    ASSUME HybridInv, ReceiveGet, Learn
    PROVE  HybridInv'
<1>0. /\ call.pc = "get_data" /\ call.pc # "idle" /\ job["main"] = IdleJob
      /\ Recv(Self) /\ StartBlocking(Key, Head(replies[Self]).what)
      /\ call' = [call EXCEPT !.pc = "fill", !.value = Head(replies[Self]).what]
      /\ UNCHANGED <<requests, lost, handler, stored, stored_keys, peer>>
  BY DEF ReceiveGet, At, storeState, peerVars
<1>1. call \in Calls /\ CallShape /\ call.todo # <<>> /\ Key \in Keys
      /\ StoreInv /\ CallInv /\ JobInv /\ ServerInv /\ TalkInv /\ SafeInv
  <2>1. "get_data" \in KeyPcs
    BY DEF KeyPcs, WritePcs, ReadPcs, ListPcs
  <2> QED
    BY <1>0, <2>1, InCall
<1>2. ~IsPut
  BY <1>0, <1>1 DEF CallShape, WritePcs
<1>3. Quiet /\ replies[Self] = <<Frame("data", Key)>>
  BY <1>0, <1>1 DEF TalkInv
<1>4. Head(replies[Self]).what = Key /\ Tail(replies[Self]) = <<>>
  BY <1>3, AnswersSay, FrameFields
<1>5. DOMAIN replies' = Conns /\ replies'[Self] = <<>>
  BY <1>0, <1>4, Receives
<1>6. "fill" \in ReadPcs /\ "fill" \notin ListPcs
  BY DEF ReadPcs, ListPcs
<1>7. Became("fill", call.todo, call.remote_queries, call.checks, call.got, Key)
  BY <1>0, <1>1, <1>4, <1>6 DEF Became, Calls
<1>8. /\ CallInv' /\ Key' = Key /\ call'.pc = "fill"
      /\ call'.op = call.op /\ call'.keys = call.keys /\ call'.got = call.got /\ call'.todo = call.todo
  <2>1. CallInv' /\ Key' = Head(call.todo)
    BY <1>0, <1>1, <1>2, <1>6, <1>7, CallBecame DEF Key
  <2> QED
    BY <1>7, <2>1 DEF Became, Key
<1>9. known' = known
  BY <1>1, <1>8, SameKnown
<1>10. ServerInv' /\ SafeGrows
  BY <1>0, <1>1, <1>5, <1>8, MainFrames
<1>11. StoreInv' /\ JobInv' /\ dict' = dict
  <2>1. PICK k \in Keys : k = Key
    BY <1>1
  <2> QED
    BY <1>0, <1>4, <1>8, <2>1, StartsPut
<1>12. TalkInv'
  BY <1>0, <1>3, <1>5, <1>8, NowSilent
<1>13. Covered' /\ Key' \in DOMAIN stored'
  BY <1>0, <1>1, <1>8, <1>9 DEF SafeInv, Covered
<1>14. SafeInv'
  BY <1>0, <1>8, <1>9, <1>10, <1>11, <1>13, GotSafe, MainSafe
<1> QED
  BY <1>8, <1>10, <1>11, <1>12, <1>14 DEF HybridInv

(* The put into the local store goes on.                                   *)
LEMMA StepLocal ==
    ASSUME HybridInv, LocalStep, Learn
    PROVE  HybridInv'
<1>0. /\ ContinuePut("main") /\ call' = call
      /\ UNCHANGED <<requests, replies, lost, handler, stored, stored_keys, peer>>
      /\ StoreInv /\ CallInv /\ JobInv /\ ServerInv /\ TalkInv /\ SafeInv
  BY DEF LocalStep, HybridInv, serverVars, storeState, peerVars
<1>1. Alone("main") /\ "main" \in Threads /\ LocalTypeOK /\ OrderInv /\ "worker" \in Threads \ {"main"}
  BY <1>0, MainAlone DEF StoreInv, Threads
<1>2. Putting("main") /\ UNCHANGED <<put_queue, closed>>
  BY <1>0 DEF ContinuePut, RemoveVictim, VictimsRemoved, RemoveOld, Allocate, BeginCopy, EndCopy,
              Publish, Putting, PutPcs
<1>3. call.pc \in {"remote_put", "fill"} /\ job["main"].key = Key /\ Key' = Key
  BY <1>0, <1>2 DEF JobInv, Key
<1>4. StoreInv'
  BY <1>0, <1>1, ContinueStore
<1>5. SafeGrows
  BY <1>0 DEF SafeGrows, Safe, InTransit
<1>6. known' = known
  BY <1>0, SameKnown
<1>7. ServerInv'
  <2>1. lost \subseteq lost' /\ DOMAIN replies' = Conns
    BY <1>0 DEF ServerInv
  <2> QED
    BY <1>0, <1>3, <2>1, MainFrames
<1>8. TalkInv'
  BY <1>0, <1>5, <1>6, SameTalk DEF SafeGrows
<1>9. CASE Publish("main")
  <2>1. ~Putting("main")' /\ DOMAIN dict' = DOMAIN dict \cup {job["main"].key}
    BY <1>0, <1>1, <1>9, StorePublish
  <2>2. job' = [job EXCEPT !["main"] = IdleJob] /\ job \in [Threads -> Jobs]
    BY <1>1, <1>9 DEF Publish, LocalTypeOK
  <2>3. job'["worker"] = job["worker"] /\ job'["main"].pc # "stopped"
    BY <1>1, <2>2 DEF IdleJob
  <2>4. JobInv'
    BY <1>0, <1>2, <2>1, <2>3 DEF JobInv
  <2>5. WriteThrough'
    <3>1. \A k \in DOMAIN dict :
             Safe(k) \/ (call.pc \in {"remote_put", "put_payload"} /\ Key = k)
      BY <1>0 DEF SafeInv, WriteThrough, Safe
    <3>2. call.pc = "fill" => Safe(Key)
      BY <1>0 DEF SafeInv, Safe
    <3>3. \A k \in DOMAIN dict' :
             Safe(k) \/ (call.pc \in {"remote_put", "put_payload"} /\ Key = k)
      BY <1>3, <2>1, <3>1, <3>2
    <3> QED
      BY <1>0, <1>3, <1>5, <3>3 DEF SafeGrows, WriteThrough, Safe
  <2>6. SafeInv'
    BY <1>0, <1>5, <1>6, <2>5, KeepSafe
  <2> QED
    BY <1>0, <1>4, <1>7, <1>8, <2>4, <2>6, SameCall DEF HybridInv
<1>10. CASE ~Publish("main")
  <2>1. PICK pc, v, s : pc \in PutPcs /\ MovedTo("main", pc, v, s)
    BY <1>0, <1>1, <1>10, PutSteps DEF ContinuePut, PutPcs
  <2>2. /\ job'["worker"] = job["worker"] /\ job'["main"].key = job["main"].key
        /\ job'["main"].pc # "stopped"
    BY <1>1, <2>1 DEF MovedTo, PutPcs
  <2>3. JobInv'
    BY <1>0, <1>2, <1>3, <2>2 DEF JobInv
  <2>4. DOMAIN dict' \subseteq DOMAIN dict
    BY <1>0, <1>10 DEF ContinuePut, RemoveVictim, VictimsRemoved, RemoveOld, Allocate, BeginCopy,
                       EndCopy, Remove, Without, Restrict, storeVars
  <2>5. SafeInv'
    BY <1>0, <1>5, <1>6, <2>4, SameSafe
  <2> QED
    BY <1>0, <1>4, <1>7, <1>8, <2>3, <2>5, SameCall DEF HybridInv
<1> QED
  BY <1>9, <1>10

(* No key has a result at first.                                           *)
LEMMA NoResults == Nothing \in Results /\ DOMAIN Nothing = {}
<1>1. DOMAIN Nothing = {} /\ Nothing \in [{} -> UNION {TensorsOf(k) : k \in Keys}]
  BY DEF Nothing
<1>2. {} \in SUBSET Keys /\ \A k \in {} : Nothing[k] \in TensorsOf(k)
  OBVIOUS
<1> QED
  BY <1>1, <1>2 DEF Results

(* A result is added.                                                      *)
LEMMA AddsResult ==
    ASSUME NEW got \in Results, NEW k \in Keys, NEW t \in TensorsOf(k)
    PROVE  Assoc(got, k, t) \in Results /\ DOMAIN Assoc(got, k, t) = DOMAIN got \cup {k}
<1> DEFINE T == UNION {TensorsOf(m) : m \in Keys}
<1>1. PICK S \in SUBSET Keys : got \in [S -> T] /\ \A m \in S : got[m] \in TensorsOf(m)
  BY DEF Results
<1>2. t \in T
  OBVIOUS
<1> HIDE DEF T
<1>3. S \cup {k} \in SUBSET Keys /\ DOMAIN got = S
  BY <1>1
<1>4. Assoc(got, k, t) = [m \in S \cup {k} |-> IF m = k THEN t ELSE got[m]]
  BY <1>3 DEF Assoc
<1>5. /\ Assoc(got, k, t) \in [S \cup {k} -> T]
      /\ \A m \in S \cup {k} : Assoc(got, k, t)[m] \in TensorsOf(m)
  BY <1>1, <1>2, <1>4
<1> QED
  BY <1>3, <1>5 DEF Results, T

(* The chunk that was read is in the local store.                          *)
LEMMA StepFilled ==
    ASSUME HybridInv, Filled, Learn
    PROVE  HybridInv'
<1>0. /\ call.pc = "fill" /\ call.pc # "idle" /\ job["main"] = IdleJob /\ UNCHANGED localVars
      /\ UNCHANGED <<requests, replies, lost, handler, stored, stored_keys, peer>>
      /\ call' = [call EXCEPT !.pc = "query", !.todo = Tail(@), !.got = Assoc(@, Key, [data |-> call.value])]
  BY DEF Filled, At, serverVars, storeState, peerVars
<1>1. call \in Calls /\ CallShape /\ call.todo # <<>> /\ Key \in Keys /\ Tail(call.todo) \in Seq(Keys)
      /\ SafeInv /\ DOMAIN replies' = Conns /\ call.got \in Results
  <2>1. "fill" \in KeyPcs
    BY DEF KeyPcs, WritePcs, ReadPcs, ListPcs
  <2> QED
    BY <1>0, <2>1, InCall
<1>2. ~IsPut /\ call.value = Key
  BY <1>0, <1>1 DEF CallShape, WritePcs
<1>3. PICK got \in Results :
        got = Assoc(call.got, Key, [data |-> Key]) /\ DOMAIN got = DOMAIN call.got \cup {Key}
  <2>1. [data |-> Key] \in TensorsOf(Key)
    BY DEF TensorsOf
  <2> QED
    BY <1>1, <2>1, AddsResult
<1>4. "query" \in ReadPcs /\ "query" \notin KeyPcs /\ "query" \notin ListPcs
  BY DEF ReadPcs, KeyPcs, ListPcs
<1>5. Became("query", Tail(call.todo), call.remote_queries, call.checks, got, call.value)
  BY <1>0, <1>1, <1>2, <1>3, <1>4 DEF Became, Calls
<1>6. /\ CallInv' /\ call'.pc = "query" /\ call'.op = call.op /\ call'.keys = call.keys
      /\ call'.got = got /\ call'.todo = Tail(call.todo)
  BY <1>0, <1>2, <1>4, <1>5, CallBecame DEF Became
<1>7. StoreInv' /\ JobInv' /\ ServerInv' /\ SafeGrows /\ known' = known /\ dict' = dict
  BY <1>0, <1>1, <1>6, MainQuiet
<1>8. TalkInv'
  BY <1>0, <1>6, StaysSilent DEF Waits
<1>9. \A k \in DOMAIN call'.got : Safe(k)'
  <2>1. \A k \in DOMAIN call'.got : Safe(k)
    BY <1>0, <1>1, <1>3, <1>6, InCall DEF SafeInv, Safe
  <2> QED
    BY <1>7, <2>1 DEF SafeGrows
<1>10. Covered'
  <2>1. Range(call.todo) = {Key} \cup Range(Tail(call.todo))
    BY <1>0, <1>1, KeyOrRest
  <2> QED
    BY <1>0, <1>1, <1>3, <1>6, <1>7, <2>1 DEF SafeInv, Covered
<1>11. SafeInv'
  BY <1>0, <1>6, <1>7, <1>9, <1>10, MainSafe
<1> QED
  BY <1>6, <1>7, <1>8, <1>11 DEF HybridInv

(* A part of a PUT is sent.                                                *)
LEMMA SendsPut ==
    ASSUME HybridInv, call.pc \in {"remote_put", "put_payload"}, NEW f \in Frames,
           f.kind \in {"put", "data"}, SendAll(Self, f),
           UNCHANGED <<replies, handler, lost, stored, stored_keys, peer>>,
           call'.pc \in {"put_payload", "return"},
           WellFramed(Append(Stream(handler[Self], requests[Self]), f), Open(Self)'),
           Open(Self)' # NoData => EndsOpen(Append(Stream(handler[Self], requests[Self]), f), Open(Self)')
    PROVE  ServerInv' /\ SafeGrows /\ TalkInv' /\ requests'[Self] = Append(requests[Self], f)
<1>0. /\ ServerInv /\ Self \in Conns /\ requests[Self] \in Seq(Frames) /\ DOMAIN replies' = Conns
      /\ Conns \ {Self} = {Peer} /\ DOMAIN requests = Conns /\ peer \in Keys \cup {NoData}
      /\ handler[Self].pc # "closed" /\ TalkInv
  BY InCall, HybridAssumption DEF ServerInv
<1>1. Open(Peer)' = Open(Peer)
  BY DEF Open
<1>2. ServerInv' /\ SafeGrows
  BY <1>0, <1>1, Sends
<1>3. requests'[Self] = Append(requests[Self], f)
  BY <1>0 DEF SendAll
<1>4. Silent
  BY <1>0 DEF TalkInv, Waits
<1>5. PutFrames(requests'[Self])
  BY <1>0, <1>3, <1>4 DEF Silent, PutFrames
<1>6. Silent'
  BY <1>4, <1>5 DEF Silent
<1>7. TalkInv'
  BY <1>0, <1>6 DEF TalkInv, Waits
<1> QED
  BY <1>2, <1>3, <1>7

(* The header of the PUT is sent.                                          *)
LEMMA StepSendPut ==
    ASSUME HybridInv, SendPut, Learn
    PROVE  HybridInv'
<1>0. /\ call.pc = "remote_put" /\ call.pc # "idle" /\ job["main"] = IdleJob /\ To("put_payload")
      /\ SendAll(Self, Frame("put", Key)) /\ UNCHANGED localVars
      /\ UNCHANGED <<replies, lost, handler, stored, stored_keys, peer>>
  BY DEF SendPut, At, Request, storeState, peerVars
<1>1. call \in Calls /\ CallShape /\ call.todo # <<>> /\ Key \in Keys /\ ServerInv /\ Self \in Conns
      /\ StoreInv /\ CallInv /\ JobInv
  <2>1. "remote_put" \in KeyPcs
    BY DEF KeyPcs, WritePcs, ReadPcs, ListPcs
  <2> QED
    BY <1>0, <2>1, InCall
<1>2. IsPut
  BY <1>0, <1>1 DEF CallShape, ReadPcs, ListPcs
<1>3. "put_payload" \in WritePcs \ {"local", "fill"} /\ "put_payload" \notin ListPcs
  BY DEF WritePcs, ListPcs
<1>4. call'.pc = "put_payload"
  BY <1>0, <1>1 DEF To, Calls
<1>5. known' = known
  BY <1>1, <1>4, SameKnown
<1>6. /\ CallInv' /\ Covered' /\ Key' = Key
      /\ call'.op = call.op /\ call'.keys = call.keys /\ call'.got = call.got
  BY <1>0, <1>1, <1>2, <1>3, <1>5, MovesTo
<1>7. Open(Self) = NoData /\ Open(Self)' = Key
  BY <1>0, <1>4, <1>6, HybridAssumption DEF Open
<1>8. PICK f \in Frames : f = Frame("put", Key) /\ f.kind = "put"
  BY <1>1, FrameTypes, FrameFields
<1>9. /\ WellFramed(Append(Stream(handler[Self], requests[Self]), f), Key)
      /\ EndsOpen(Append(Stream(handler[Self], requests[Self]), f), Key)
  <2>1. /\ WellFramed(Stream(handler[Self], requests[Self]), NoData)
        /\ requests[Self] \in Seq(Frames) /\ handler[Self] \in Handlers
    BY <1>1, <1>7 DEF ServerInv, FrameOK
  <2>2. Stream(handler[Self], requests[Self]) \in Seq(Frames)
    BY <2>1, StreamEnd
  <2> QED
    BY <1>1, <1>8, <2>1, <2>2, FramedHeader
<1>10. ServerInv' /\ SafeGrows /\ TalkInv'
  BY <1>0, <1>4, <1>7, <1>8, <1>9, SendsPut
<1>11. dict' = dict /\ UNCHANGED <<put_queue, job, closed>>
  BY <1>0 DEF localVars, storeVars
<1>12. SafeInv'
  BY <1>0, <1>4, <1>5, <1>6, <1>10, <1>11, GotSafe, MainSafe
<1>13. StoreInv' /\ JobInv'
  BY <1>0, <1>1, <1>11, SameStore, MainJob
<1> QED
  BY <1>6, <1>10, <1>12, <1>13 DEF HybridInv

(* The bytes of the PUT are sent: from here on the key is safe.            *)
LEMMA StepSendPayload ==
    ASSUME HybridInv, SendPayload, Learn
    PROVE  HybridInv'
<1>0. /\ call.pc = "put_payload" /\ call.pc # "idle" /\ job["main"] = IdleJob /\ To("return")
      /\ SendAll(Self, Frame("data", Key)) /\ UNCHANGED localVars
      /\ UNCHANGED <<replies, lost, handler, stored, stored_keys, peer>>
  BY DEF SendPayload, At, Request, storeState, peerVars
<1>1. call \in Calls /\ CallShape /\ call.todo # <<>> /\ Key \in Keys /\ ServerInv /\ Self \in Conns
      /\ StoreInv /\ CallInv /\ JobInv /\ Self \notin lost
  <2>1. "put_payload" \in KeyPcs
    BY DEF KeyPcs, WritePcs, ReadPcs, ListPcs
  <2> QED
    BY <1>0, <2>1, InCall
<1>2. IsPut
  BY <1>0, <1>1 DEF CallShape, ReadPcs, ListPcs
<1>3. "return" \in WritePcs \ {"local", "fill"} /\ "return" \notin ListPcs
  BY DEF WritePcs, ListPcs
<1>4. call'.pc = "return"
  BY <1>0, <1>1 DEF To, Calls
<1>5. known' = known
  BY <1>1, <1>4, SameKnown
<1>6. /\ CallInv' /\ Covered' /\ Key' = Key
      /\ call'.op = call.op /\ call'.keys = call.keys /\ call'.got = call.got
  BY <1>0, <1>1, <1>2, <1>3, <1>5, MovesTo
<1>7. Open(Self) = Key /\ Open(Self)' = NoData
  BY <1>0, <1>4, <1>6, HybridAssumption DEF Open
<1>8. PICK f \in Frames : f = Frame("data", Key) /\ f.kind = "data"
  BY <1>1, FrameTypes, FrameFields
<1>a. requests[Self] \in Seq(Frames) /\ handler[Self] \in Handlers
  BY <1>1 DEF ServerInv, FrameOK
<1>9. WellFramed(Append(Stream(handler[Self], requests[Self]), f), NoData)
  <2>0. Key # NoData
    BY <1>1, HybridAssumption
  <2>1. /\ WellFramed(Stream(handler[Self], requests[Self]), Key)
        /\ EndsOpen(Stream(handler[Self], requests[Self]), Key)
    BY <1>1, <1>7, <2>0 DEF ServerInv, FrameOK
  <2>2. Stream(handler[Self], requests[Self]) \in Seq(Frames)
    BY <1>a, StreamEnd
  <2> QED
    BY <1>1, <1>8, <2>1, <2>2, FramedBytes
<1>10. /\ ServerInv' /\ SafeGrows /\ TalkInv' /\ requests'[Self] = Append(requests[Self], f)
  BY <1>0, <1>4, <1>7, <1>8, <1>9, SendsPut
<1>11. dict' = dict /\ UNCHANGED <<put_queue, job, closed>>
  BY <1>0 DEF localVars, storeVars
<1>12. \A k : k = Key => Safe(k)'
  <2>1. /\ Len(requests[Self]) + 1 \in DOMAIN requests'[Self]
        /\ requests'[Self][Len(requests[Self]) + 1] = Frame("data", Key)
    BY <1>a, <1>8, <1>10
  <2> QED
    BY <2>1 DEF Safe, InTransit
<1>13. Safe(Key)'
  BY <1>6, <1>12 DEF Safe, InTransit
<1>14. SafeInv'
  BY <1>0, <1>4, <1>5, <1>6, <1>10, <1>11, <1>12, <1>13, GotSafe, MainSafe
<1>15. StoreInv' /\ JobInv'
  BY <1>0, <1>1, <1>11, SameStore, MainJob
<1> QED
  BY <1>6, <1>10, <1>14, <1>15 DEF HybridInv

(* A key is looked up locally; a miss is left to the server.               *)
LEMMA StepLocalLookup ==
    ASSUME HybridInv, LocalLookup, Learn
    PROVE  HybridInv'
<1> DEFINE hit == Key \in DOMAIN dict
           left == Tail(call.todo)
           missed == IF hit THEN call.remote_queries ELSE Append(call.remote_queries, Key)
           tensor == OnDevice(dict[Key])
           found == IF hit THEN Assoc(call.got, Key, tensor) ELSE call.got
           next == IF left = <<>> THEN "query" ELSE "local"
           rest == IF left = <<>> THEN missed ELSE left
<1>0. /\ call.pc = "local" /\ call.pc # "idle" /\ job["main"] = IdleJob /\ Touch(Key)
      /\ UNCHANGED <<dict, free_pool, mem_pool, current_cache_size, update_lock, put_queue,
                     job, closed, nops>>
      /\ UNCHANGED <<requests, replies, lost, handler, stored, stored_keys, peer>>
      /\ call' = [call EXCEPT !.got = IF hit THEN Assoc(@, Key, tensor) ELSE @,
                              !.remote_queries = missed, !.pc = next, !.todo = rest]
  BY DEF LocalLookup, At, serverVars, storeState, peerVars
<1>1. call \in Calls /\ CallShape /\ call.todo # <<>> /\ Key \in Keys /\ left \in Seq(Keys)
      /\ call.remote_queries \in Seq(Keys) /\ call.got \in Results
      /\ StoreInv /\ CallInv /\ JobInv /\ ServerInv /\ SafeInv
  <2>1. "local" \in KeyPcs
    BY DEF KeyPcs, WritePcs, ReadPcs, ListPcs
  <2> QED
    BY <1>0, <2>1, InCall
<1>2. ~IsPut
  BY <1>0, <1>1 DEF CallShape, WritePcs
<1>3. StoreInv'
  <2>1. nops' \in Nat
    BY <1>0, <1>1 DEF StoreInv, LocalTypeOK
  <2> QED
    BY <1>0, <1>1, <2>1, TouchStore
<1>4. missed \in Seq(Keys) /\ Range(missed) = Range(call.remote_queries) \cup (IF hit THEN {} ELSE {Key})
  <2>1. CASE hit
    BY <1>1, <2>1
  <2>2. CASE ~hit
    <3>1. PICK s \in Seq(Keys) : s = call.remote_queries
      BY <1>1
    <3>2. PICK k \in Keys : k = Key
      BY <1>1
    <3>3. Append(s, k) \in Seq(Keys) /\ Range(Append(s, k)) = Range(s) \cup {k}
      <4>1. PICK n \in Nat : n = Len(s) /\ DOMAIN s = 1 .. n
        OBVIOUS
      <4>2. PICK u : u = Append(s, k)
        OBVIOUS
      <4>3. /\ u \in Seq(Keys) /\ DOMAIN u = 1 .. n + 1 /\ u[n + 1] = k
            /\ \A i \in 1 .. n : u[i] = s[i]
        BY <4>1, <4>2
      <4>4. \A i \in 1 .. n + 1 : i = n + 1 \/ i \in 1 .. n
        OBVIOUS
      <4>5. n + 1 \in 1 .. n + 1 /\ \A i \in 1 .. n : i \in 1 .. n + 1
        OBVIOUS
      <4>6. Range(u) = Range(s) \cup {k}
        BY <4>1, <4>3, <4>4, <4>5 DEF Range
      <4> QED
        BY <4>2, <4>3, <4>6
    <3> QED
      BY <2>2, <3>1, <3>2, <3>3
  <2> QED
    BY <2>1, <2>2
<1>5. found \in Results /\ DOMAIN found = DOMAIN call.got \cup (IF hit THEN {Key} ELSE {})
  <2>1. hit => dict[Key] \in PoolChunks /\ mem_pool[dict[Key]] = Key
    BY <1>1 DEF StoreInv, LocalTypeOK, EntriesInv
  <2>2. hit => tensor \in TensorsOf(Key)
    BY <2>1 DEF OnDevice, TensorsOf
  <2> HIDE DEF tensor
  <2> QED
    BY <1>1, <2>2, AddsResult
<1>7. next \in ReadPcs /\ next \notin ListPcs /\ rest \in Seq(Keys) /\ (next \in KeyPcs => rest # <<>>)
      /\ next # "fill"
  BY <1>1, <1>4 DEF ReadPcs, ListPcs, KeyPcs
<1>8. Became(next, rest, missed, call.checks, found, call.value)
  <2> HIDE DEF hit, tensor, missed, found, next, rest
  <2>1. call' = [call EXCEPT !.got = found, !.remote_queries = missed, !.pc = next, !.todo = rest]
    BY <1>0 DEF found
  <2> QED
    BY <1>1, <1>4, <1>5, <1>7, <2>1 DEF Became, Calls
<1>9. /\ CallInv' /\ call'.pc = next /\ call'.op = call.op /\ call'.keys = call.keys
      /\ call'.got = found /\ call'.todo = rest /\ call'.remote_queries = missed
  <2> HIDE DEF hit, tensor, missed, found, next, rest
  <2> QED
    BY <1>0, <1>2, <1>7, <1>8, CallBecame DEF Became
<1>10. call'.pc \in {"query", "local"}
  BY <1>9
<1> HIDE DEF missed, found
<1>11. known' = known
  BY <1>1, <1>10, SameKnown
<1>12. ServerInv' /\ SafeGrows /\ JobInv'
  <2>1. DOMAIN replies' = Conns
    BY <1>0, <1>1 DEF ServerInv
  <2> QED
    BY <1>0, <1>1, <1>10, <2>1, MainFrames, MainJob
<1>13. TalkInv'
  BY <1>0, <1>10, StaysSilent DEF Waits
<1>14. \A k \in DOMAIN call'.got : Safe(k)'
  <2>1. hit => Safe(Key)
    BY <1>0, <1>1 DEF SafeInv, WriteThrough, Safe
  <2>2. \A k \in DOMAIN call.got : Safe(k)
    BY <1>0, InCall DEF SafeInv
  <2>3. \A k \in DOMAIN call'.got : Safe(k)
    BY <1>5, <1>9, <2>1, <2>2
  <2> QED
    BY <1>12, <2>3 DEF SafeGrows
<1>15. Covered'
  <2>1. Range(call.todo) = {Key} \cup Range(left)
    BY <1>0, <1>1, KeyOrRest
  <2>2. CASE call.op \in {"get", "batch"}
    <3>1. Range(call.keys) \subseteq DOMAIN call.got \cup Range(call.remote_queries) \cup Range(call.todo)
      BY <1>0, <1>1, <2>2 DEF SafeInv, Covered
    <3>2. Range(call.keys) \subseteq DOMAIN found \cup Range(missed) \cup Range(left)
      BY <1>4, <1>5, <2>1, <3>1
    <3>3. CASE left = <<>>
      <4>1. Range(left) = {}
        BY <3>3 DEF Range
      <4> QED
        BY <1>9, <1>10, <3>2, <3>3, <4>1 DEF Covered
    <3>4. CASE left # <<>>
      BY <1>9, <3>2, <3>4 DEF Covered
    <3> QED
      BY <3>3, <3>4
  <2> QED
    BY <1>9, <2>2 DEF Covered
<1>16. SafeInv'
  BY <1>0, <1>9, <1>10, <1>11, <1>12, <1>14, <1>15, MainSafe
<1> QED
  BY <1>3, <1>9, <1>12, <1>13, <1>16 DEF HybridInv

(* A call returns; what it stored or read is safe.                         *)
LEMMA StepReturn ==
    ASSUME HybridInv, Return, Learn
    PROVE  HybridInv'
<1>0. /\ call.pc \in {"return", "query"} /\ call.pc # "idle" /\ job["main"] = IdleJob
      /\ call' = IdleCall /\ UNCHANGED localVars
      /\ UNCHANGED <<requests, replies, lost, handler, stored, stored_keys, peer>>
  BY DEF Return, At, serverVars, storeState, peerVars
<1>1. call # IdleCall /\ call \in Calls /\ CallShape /\ StoreInv /\ CallInv /\ JobInv /\ ServerInv
      /\ SafeInv /\ DOMAIN replies' = Conns /\ ~closed
  BY <1>0, InCall
<1>2. call'.pc = "idle" /\ call'.op = "none"
  BY <1>0, IdlePc
<1>3. ServerInv' /\ SafeGrows
  BY <1>0, <1>1, <1>2, MainFrames
<1>4. TalkInv'
  BY <1>0, <1>2, StaysSilent DEF Waits
<1>5. dict' = dict /\ UNCHANGED <<put_queue, job, closed>>
  BY <1>0 DEF localVars, storeVars
<1>6. StoreInv' /\ JobInv' /\ CallInv'
  BY <1>0, <1>1, <1>5, SameStore, MainJob DEF CallInv
<1>7. \A k \in known' : Safe(k)
  <2>1. known' = known \cup DOMAIN call.got \cup (IF IsPut THEN Range(call.keys) ELSE {})
    BY <1>0, <1>2 DEF Learn, At
  <2>2. \A k \in known \cup DOMAIN call.got : Safe(k)
    BY <1>1 DEF SafeInv
  <2>3. IsPut => Range(call.keys) = {Key} /\ call.pc = "return"
    BY <1>0, <1>1 DEF CallShape, WritePcs
  <2>4. IsPut => Safe(Key)
    BY <1>1, <2>3 DEF SafeInv
  <2> QED
    BY <2>1, <2>2, <2>3, <2>4
<1>8. \A k \in DOMAIN dict : Safe(k)
  BY <1>0, <1>1 DEF SafeInv, WriteThrough, Safe
<1>9. WriteThrough' /\ \A k \in known' : Safe(k)'
  BY <1>3, <1>5, <1>7, <1>8 DEF SafeGrows, WriteThrough, Safe
<1>10. SafeInv'
  BY <1>0, <1>2, <1>9 DEF SafeInv, Covered
<1> QED
  BY <1>3, <1>4, <1>6, <1>10 DEF HybridInv
-----------------------------------------------------------------------------
(***************************************************************************)
(* The beginning of a call and the end of the instance.                    *)
(***************************************************************************)
(* Between two calls nothing is awaited.                                   *)
LEMMA BetweenCalls ==
    ASSUME HybridInv, call.pc = "idle"
    PROVE  /\ StoreInv /\ CallInv /\ JobInv /\ ServerInv /\ TalkInv /\ SafeInv
           /\ call = IdleCall /\ Silent /\ ~Putting("main") /\ DOMAIN replies = Conns
<1>1. StoreInv /\ CallInv /\ JobInv /\ ServerInv /\ TalkInv /\ SafeInv
  BY DEF HybridInv
<1>2. call = IdleCall
  BY <1>1 DEF CallInv, Calls, ReadPcs, WritePcs, ListPcs
<1>3. Silent
  BY <1>1 DEF TalkInv, Waits
<1>4. ~Putting("main") /\ DOMAIN replies = Conns
  BY <1>1 DEF JobInv, ServerInv
<1> QED
  BY <1>1, <1>2, <1>3, <1>4

(* A call begins with every key of its list to do.                         *)
LEMMA StepBegin ==
    ASSUME HybridInv, NEW op \in {"put", "get", "batch"}, NEW pc, NEW keys \in Seq(Mine),
           op = "put" => pc = "contains" /\ keys # <<>> /\ Range(keys) = {Head(keys)},
           op # "put" => pc = (IF keys = <<>> THEN "query" ELSE "local"),
           Begin(op, pc, keys), Learn
    PROVE  HybridInv'
<1>0. /\ call.pc = "idle" /\ job["main"] = IdleJob /\ ~closed /\ nops' = nops + 1
      /\ call' = Call(op, pc, keys) /\ UNCHANGED <<storeVars, update_lock, put_queue, job, closed>>
      /\ UNCHANGED <<requests, replies, lost, handler, stored, stored_keys, peer>>
  BY DEF Begin, At, serverVars, storeState, peerVars
<1>1. /\ StoreInv /\ CallInv /\ JobInv /\ ServerInv /\ TalkInv /\ SafeInv
      /\ Silent /\ ~Putting("main") /\ DOMAIN replies = Conns
  BY <1>0, BetweenCalls
<1>2. pc \in {"contains", "query", "local"} /\ (pc \in {"contains", "local"} => keys # <<>>)
  OBVIOUS
<1>3. keys \in Seq(Keys) /\ Range(keys) \subseteq Mine
  <2>1. Mine \subseteq Keys
    BY HybridAssumption
  <2>2. DOMAIN keys = 1 .. Len(keys) /\ \A i \in 1 .. Len(keys) : keys[i] \in Mine
    OBVIOUS
  <2>3. keys \in Seq(Keys)
    BY <2>1, <2>2
  <2> QED
    BY <2>2, <2>3 DEF Range
<1>4. /\ call'.op = op /\ call'.pc = pc /\ call'.keys = keys /\ call'.todo = keys
      /\ call'.remote_queries = <<>> /\ call'.checks = 1 /\ call'.got = Nothing
      /\ call'.value = NoData /\ Key' = Head(keys)
  BY <1>0 DEF Call, Key
<1>5. Nothing \in Results /\ DOMAIN Nothing = {}
  BY NoResults
<1>6. call' \in Calls
  <2>1. pc \in ReadPcs \cup WritePcs /\ <<>> \in Seq(Keys)
    BY <1>2 DEF ReadPcs, WritePcs
  <2>2. PICK n : n = Nothing
    OBVIOUS
  <2>3. n \in Results
    BY <1>5, <2>2
  <2>4. call' = [op |-> op, pc |-> pc, keys |-> keys, todo |-> keys, remote_queries |-> <<>>,
                 checks |-> 1, got |-> n, value |-> NoData]
    BY <1>0, <2>2 DEF Call
  <2> QED
    BY <1>3, <2>1, <2>3, <2>4 DEF Calls
<1>7. CallInv'
  <2>1. IsPut' <=> op = "put"
    BY <1>4 DEF IsPut
  <2>2. call'.pc \in IF IsPut' THEN WritePcs ELSE ReadPcs
    BY <1>4, <2>1 DEF WritePcs, ReadPcs
  <2>3. pc \in KeyPcs => keys # <<>>
    BY <1>2 DEF KeyPcs
  <2>4. pc \notin ListPcs /\ pc # "fill"
    BY <1>2 DEF ListPcs
  <2>5. CallShape'
    BY <1>3, <1>4, <2>1, <2>2, <2>3, <2>4 DEF CallShape
  <2> QED
    BY <1>6, <2>5 DEF CallInv
<1>8. StoreInv'
  <2>1. nops' \in Nat /\ put_queue' \in Seq(Keys) /\ closed' \in BOOLEAN
    BY <1>0, <1>1 DEF StoreInv, LocalTypeOK
  <2> QED
    BY <1>0, <1>1, <2>1, QuietStore
<1>9. JobInv'
  BY <1>0, <1>1 DEF JobInv, Putting
<1>10. ServerInv' /\ SafeGrows
  BY <1>0, <1>1, <1>2, <1>4, MainFrames
<1>11. TalkInv'
  <2>1. Silent'
    BY <1>0, <1>1 DEF Silent, PutFrames
  <2>2. handler'[Self].pc = "closed" => Self \in lost'
    BY <1>0, <1>1 DEF TalkInv
  <2> QED
    BY <1>2, <1>4, <2>1, <2>2 DEF TalkInv, Waits
<1>12. known' = known
  BY <1>0, <1>1, <1>2, <1>4, SameKnown
<1>13. Covered'
  BY <1>4 DEF Covered
<1>14. SafeInv'
  <2>1. dict' = dict
    BY <1>0 DEF storeVars
  <2>2. \A k \in DOMAIN dict : Safe(k)
    BY <1>0, <1>1 DEF SafeInv, WriteThrough, Safe
  <2>3. WriteThrough'
    BY <1>10, <2>1, <2>2 DEF SafeGrows, WriteThrough, Safe
  <2>4. \A k \in known' : Safe(k)'
    BY <1>1, <1>10, <1>12 DEF SafeInv, SafeGrows
  <2>5. \A k \in DOMAIN call'.got : Safe(k)'
    BY <1>4, <1>5
  <2>6. call'.pc \notin {"get_data", "fill", "return"}
    BY <1>2, <1>4
  <2> QED
    BY <1>13, <2>3, <2>4, <2>5, <2>6 DEF SafeInv
<1> QED
  BY <1>7, <1>8, <1>9, <1>10, <1>11, <1>14 DEF HybridInv

(* The call is not touched, and neither is the conversation.               *)
LEMMA OutsideCalls ==
    ASSUME HybridInv, Learn, call' = call, DOMAIN dict' \subseteq DOMAIN dict, lost \subseteq lost',
           UNCHANGED <<requests, replies, handler, stored, stored_keys, peer>>
    PROVE  CallInv' /\ ServerInv' /\ TalkInv' /\ SafeInv'
<1>1. StoreInv /\ CallInv /\ JobInv /\ ServerInv /\ TalkInv /\ SafeInv
  BY DEF HybridInv
<1>2. known' = known
  BY <1>1, SameKnown
<1>3. \A c \in Conns : Open(c)' = Open(c)
  BY DEF Open, Key
<1>4. \A c \in Conns : FrameOK(c)'
  BY <1>1, <1>3, SameFrames DEF ServerInv
<1>5. ServerInv' /\ SafeGrows
  BY <1>1, <1>4 DEF ServerInv, SafeGrows, Safe, InTransit
<1>6. TalkInv'
  BY <1>1, <1>2, <1>5, SameTalk DEF SafeGrows
<1> QED
  BY <1>1, <1>2, <1>5, <1>6, SameCall, SameSafe

(* The instance is closed.                                                 *)
LEMMA StepCloseLocal ==
    ASSUME HybridInv, CloseLocal, Learn
    PROVE  HybridInv'
<1>0. /\ call.pc = "idle" /\ job["main"] = IdleJob /\ (Close \/ StopWorker) /\ call' = call
      /\ UNCHANGED <<requests, replies, lost, handler, stored, stored_keys, peer>>
  BY DEF CloseLocal, At, serverVars, storeState, peerVars
<1>1. StoreInv /\ JobInv /\ call = IdleCall
  BY <1>0, BetweenCalls
<1>2. /\ UNCHANGED <<storeVars, update_lock>> /\ UNCHANGED <<put_queue, nops>> /\ dict' = dict
      /\ closed' = TRUE
      /\ UNCHANGED job \/ (job["worker"].pc = "idle" /\ job' = [job EXCEPT !["worker"].pc = "stopped"])
  BY <1>0, <1>1 DEF Close, StopWorker, storeVars, StoreInv, LocalTypeOK
<1>3. /\ StoreInv'
      /\ \A t \in Threads : job'[t] = job[t] \/ (job[t].pc = "idle" /\ job'[t].pc = "stopped")
  <2>1. nops' \in Nat /\ put_queue' \in Seq(Keys) /\ closed' \in BOOLEAN
    BY <1>1, <1>2 DEF StoreInv, LocalTypeOK
  <2> QED
    BY <1>1, <1>2, <2>1, QuietStore
<1>4. job'["main"] = job["main"] /\ job'["worker"].pc \in {"idle", "stopped"}
  <2>1. job \in [Threads -> Jobs] /\ "main" \in Threads /\ "worker" \in Threads
    BY <1>1 DEF StoreInv, LocalTypeOK, Threads
  <2> QED
    BY <1>1, <1>2, <1>3, <2>1 DEF JobInv
<1>5. JobInv'
  BY <1>0, <1>1, <1>2, <1>4 DEF JobInv, Putting, PutPcs, IdleJob
<1>6. CallInv' /\ ServerInv' /\ TalkInv' /\ SafeInv'
  BY <1>0, <1>2, OutsideCalls
<1> QED
  BY <1>3, <1>5, <1>6 DEF HybridInv

(* The connection is closed.                                               *)
LEMMA StepCloseConnection ==
    ASSUME HybridInv, CloseConnection, Learn
    PROVE  HybridInv'
<1>0. /\ job["worker"].pc = "stopped" /\ lost' = lost \cup {Self} /\ call' = call
      /\ UNCHANGED localVars
      /\ UNCHANGED <<requests, replies, handler, stored, stored_keys, peer>>
  BY DEF CloseConnection, Disconnect, storeState, peerVars
<1>1. StoreInv /\ JobInv
  BY DEF HybridInv
<1>2. dict' = dict
  BY <1>0 DEF localVars, storeVars
<1>3. JobInv'
  BY <1>0, <1>1 DEF JobInv, localVars, Putting, Key
<1>4. CallInv' /\ ServerInv' /\ TalkInv' /\ SafeInv'
  BY <1>0, <1>2, OutsideCalls
<1> QED
  BY <1>0, <1>1, <1>3, <1>4, SameStore DEF HybridInv

(* Nothing changes.                                                        *)
LEMMA StepNothing ==
    ASSUME HybridInv, UNCHANGED knownVars
    PROVE  HybridInv'
<1>0. /\ call' = call /\ UNCHANGED localVars /\ lost' = lost /\ known' = known /\ dict' = dict
      /\ UNCHANGED <<requests, replies, handler, stored, stored_keys, peer>>
  BY DEF knownVars, hybridVars, serverVars, storeState, localVars, storeVars
<1>1. StoreInv /\ CallInv /\ JobInv /\ ServerInv /\ TalkInv /\ SafeInv
  BY DEF HybridInv
<1>2. ServerInv' /\ SafeGrows
  <2>1. \A c \in Conns : Open(c)' = Open(c)
    BY <1>0 DEF Open, Key
  <2>2. \A c \in Conns : FrameOK(c)'
    BY <1>0, <1>1, <2>1, SameFrames DEF ServerInv
  <2> QED
    BY <1>0, <1>1, <2>2 DEF ServerInv, SafeGrows, Safe, InTransit
<1>3. StoreInv' /\ CallInv' /\ JobInv' /\ TalkInv' /\ SafeInv'
  BY <1>0, <1>1, <1>2, SameStore, SameCall, SameJob, SameTalk, SameSafe DEF SafeGrows
<1> QED
  BY <1>2, <1>3 DEF HybridInv
-----------------------------------------------------------------------------
(***************************************************************************)
(* The invariant and the theorems.                                         *)
(***************************************************************************)
(* An instance that starts to prefetch, with nothing sent.                 *)
LEMMA InitInv == MCInit => HybridInv
<1> SUFFICES ASSUME MCInit PROVE HybridInv
  OBVIOUS
<1>0. /\ LocalInit /\ call = Call("prefetch", "list", <<>>) /\ peer = NoData /\ known = {}
      /\ requests = [c \in Conns |-> <<>>] /\ replies = [c \in Conns |-> <<>>] /\ lost = {}
      /\ handler = [c \in Conns |-> AtHeader] /\ stored = [k \in {} |-> k] /\ stored_keys = <<>>
  BY DEF MCInit, HybridInit, ServerInit
<1>1. /\ put_queue = <<>> /\ job = [t \in Threads |-> IdleJob] /\ closed = FALSE
      /\ DOMAIN dict = {}
  BY <1>0 DEF LocalInit
<1>2. StoreInv
  BY <1>0, InitStore
<1>3. /\ call.op = "prefetch" /\ call.pc = "list" /\ call.keys = <<>> /\ call.todo = <<>>
      /\ call.got = Nothing /\ DOMAIN Nothing = {}
  BY <1>0 DEF Call, Nothing
<1>4. CallInv
  <2>2. PICK n : n = Nothing
    OBVIOUS
  <2>3. n \in Results
    BY <2>2, NoResults
  <2>4. call = [op |-> "prefetch", pc |-> "list", keys |-> <<>>, todo |-> <<>>, remote_queries |-> <<>>,
                checks |-> 1, got |-> n, value |-> NoData]
    BY <1>0, <2>2 DEF Call
  <2>5. "list" \in ReadPcs /\ "list" \in ListPcs /\ "list" \notin KeyPcs /\ <<>> \in Seq(Keys)
    BY DEF ReadPcs, ListPcs, KeyPcs
  <2>6. call \in Calls
    BY <2>3, <2>4, <2>5 DEF Calls
  <2>7. ~IsPut /\ Range(call.keys) = {}
    BY <1>3 DEF IsPut, Range
  <2>8. CallShape
    BY <1>3, <2>5, <2>7 DEF CallShape
  <2> QED
    BY <2>6, <2>8 DEF CallInv
<1>5. JobInv
  BY <1>0, <1>1 DEF JobInv, Threads, IdleJob, Putting, PutPcs
<1>6. \A c \in Conns : requests[c] = <<>> /\ replies[c] = <<>> /\ handler[c] = AtHeader
  BY <1>0
<1>7. AtHeader \in Handlers /\ AtHeader.pc = "header"
  BY DEF Handlers, AtHeader
<1>8. ServerInv
  <2>1. ASSUME NEW c \in Conns PROVE FrameOK(c)
    <3>1. Open(c) = NoData
      BY <1>0, <1>3 DEF Open
    <3>2. Stream(handler[c], requests[c]) = <<>> /\ handler[c].pc = "header"
      BY <1>6, <1>7 DEF Stream
    <3>3. WellFramed(<<>>, NoData) /\ <<>> \in Seq(Frames)
      BY DEF WellFramed
    <3> QED
      BY <1>6, <1>7, <3>1, <3>2, <3>3 DEF FrameOK
  <2>2. DOMAIN stored = {}
    BY <1>0
  <2> QED
    BY <1>0, <2>1, <2>2 DEF ServerInv
<1>9. TalkInv
  <2>1. Self \in Conns
    BY HybridAssumption
  <2>2. Silent
    BY <1>6, <1>7, <2>1 DEF Silent, PutFrames
  <2> QED
    BY <1>3, <1>6, <1>7, <2>1, <2>2 DEF TalkInv, Waits
<1>10. SafeInv
  BY <1>0, <1>1, <1>3 DEF SafeInv, WriteThrough, Covered
<1> QED
  BY <1>2, <1>4, <1>5, <1>8, <1>9, <1>10 DEF HybridInv

(* A step of the main thread.                                              *)
LEMMA MainStep ==
    ASSUME HybridInv, Main, Learn
    PROVE  HybridInv'
BY StepPrefetchList, StepReceiveListMeta, StepReceiveList, StepSkipForeign, StepLocalLookup,
   StepQuery, StepContainsLocal, StepReceiveExist, StepSkipExisting, StepPutLocal,
   StepReceiveGetMeta, StepReceiveGet, StepLocal, StepFilled, StepSendPut, StepSendPayload,
   StepReturn DEF Main

(* Every step keeps the invariant.                                         *)
LEMMA NextInv == HybridInv /\ [MCNext]_knownVars => HybridInv'
<1> SUFFICES ASSUME HybridInv, [MCNext]_knownVars PROVE HybridInv'
  OBVIOUS
<1>1. CASE UNCHANGED knownVars
  BY <1>1, StepNothing
<1>2. CASE MCNext
  <2>0. HybridNext /\ Learn
    BY <1>2 DEF MCNext
  <2>1. ASSUME NEW k \in Mine, CallPut(k) \/ CallGet(k) PROVE HybridInv'
    <3>1. <<k>> \in Seq(Mine) /\ <<k>> # <<>> /\ Head(<<k>>) = k /\ Range(<<k>>) = {k}
      BY DEF Range
    <3>2. CASE CallPut(k)
      BY <2>0, <3>1, <3>2, StepBegin DEF CallPut
    <3>3. CASE CallGet(k)
      BY <2>0, <3>1, <3>3, StepBegin DEF CallGet
    <3> QED
      BY <2>1, <3>2, <3>3
  <2>2. ASSUME NEW b \in Batches, CallBatchedGet(b) PROVE HybridInv'
    <3>1. b \in Seq(Mine)
      BY HybridAssumption
    <3>2. PICK pc : pc = (IF b = <<>> THEN "query" ELSE "local")
      OBVIOUS
    <3>3. Begin("batch", pc, b)
      BY <2>2, <3>2 DEF CallBatchedGet
    <3> QED
      BY <2>0, <3>1, <3>2, <3>3, StepBegin
  <2>3. CASE Main
    BY <2>0, <2>3, MainStep
  <2>4. CASE CloseLocal \/ CloseConnection
    BY <2>0, <2>4, StepCloseLocal, StepCloseConnection
  <2>5. CASE HybridStopped
    <3>1. UNCHANGED hybridVars /\ call' = call
      BY <2>5 DEF HybridStopped, hybridVars
    <3>2. known' = known
      BY <2>0, <3>1, SameKnown DEF HybridInv
    <3> QED
      BY <3>1, <3>2, StepNothing DEF knownVars
  <2>6. CASE (\E k \in PeerKeys : PeerHeader(k)) \/ PeerPayload \/ PeerLost
    BY <2>0, <2>6, PeerStep
  <2>7. ASSUME NEW c \in Conns, Server(c) PROVE HybridInv'
    BY <2>0, <2>7, ServerStep
  <2> QED
    BY <2>0, <2>1, <2>2, <2>3, <2>4, <2>5, <2>6, <2>7 DEF HybridNext
<1> QED
  BY <1>1, <1>2

(* The inductive invariant holds with any number of puts of the peer, and  *)
(* wherever the peer is lost.                                              *)
THEOREM HybridInvariance == MCSpec => []HybridInv
BY InitInv, NextInv, PTL DEF MCSpec

(* With the local pool on the CPU, no chunk is ever cached, stored or      *)
(* returned under another one's key: neither a header nor the bytes of     *)
(* another chunk are taken for a chunk, as long as one thread alone writes *)
(* to a connection.                                                        *)
THEOREM HybridNeverLies ==
    ASSUME LocalDevice = "cpu"
    PROVE  MCSpec => []NeverLies
<1>1. HybridInv => NeverLies
  <2> SUFFICES ASSUME HybridInv PROVE NeverLies
    OBVIOUS
  <2>1. StoreInv /\ CallInv /\ ServerInv
    BY DEF HybridInv
  <2>2. \A k \in DOMAIN dict : mem_pool[dict[k]] = k
    BY <2>1 DEF StoreInv, EntriesInv
  <2>3. \A k \in DOMAIN stored : stored[k] = k
    BY <2>1 DEF ServerInv
  <2>4. ASSUME call.pc # "idle", NEW k \in DOMAIN call.got PROVE Seen(call.got[k]) = k
    <3>1. call.got \in Results
      BY <2>4, InCall
    <3>2. call.got[k] = [data |-> k]
      BY <3>1 DEF Results, TensorsOf
    <3>3. "view" \notin DOMAIN [data |-> k]
      OBVIOUS
    <3> QED
      BY <3>2, <3>3 DEF Seen
  <2> QED
    BY <2>2, <2>3, <2>4 DEF NeverLies
<1> QED
  BY <1>1, HybridInvariance, PTL

(* What is cached locally is at the server, or on its way there, or the    *)
(* call that put it has not returned.                                      *)
THEOREM PutsAreWrittenThrough == MCSpec => []WriteThrough
<1>1. HybridInv => WriteThrough
  BY DEF HybridInv, SafeInv
<1> QED
  BY <1>1, HybridInvariance, PTL

(* The connector takes the reply it waits for, and none is left over.      *)
THEOREM RepliesAlwaysFit == MCSpec => []RepliesFit
<1>1. HybridInv => RepliesFit
  <2> SUFFICES ASSUME HybridInv PROVE RepliesFit
    OBVIOUS
  <2>1. TalkInv
    BY DEF HybridInv
  <2>2. CASE Waits
    <3>1. Awaited = {"meta"}
      BY <2>2 DEF Waits, Awaited
    <3>2. Yes.kind = "meta" /\ No.kind = "meta"
      BY DEF Yes, No, Frame
    <3>3. replies[Self] # <<>> => Head(replies[Self]).kind = "meta"
      BY <2>1, <2>2, <3>2 DEF TalkInv, Asked, Taken, Answered
    <3> QED
      BY <3>1, <3>3 DEF RepliesFit
  <2>3. CASE call.pc \in {"list_data", "get_data"}
    <3>1. Awaited = {"data"}
      BY <2>3 DEF Awaited
    <3>2. \E x : replies[Self] = <<Frame("data", x)>>
      BY <2>1, <2>3 DEF TalkInv
    <3>3. replies[Self] # <<>> /\ Head(replies[Self]).kind = "data"
      BY <3>2 DEF Frame
    <3> QED
      BY <3>1, <3>3 DEF RepliesFit
  <2>4. CASE ~Waits /\ call.pc \notin {"list_data", "get_data"}
    <3>1. Awaited = {}
      BY <2>4 DEF Waits, Awaited
    <3>2. replies[Self] = <<>>
      BY <2>1, <2>4 DEF TalkInv, Silent
    <3> QED
      BY <3>1, <3>2 DEF RepliesFit
  <2> QED
    BY <2>2, <2>3, <2>4
<1> QED
  BY <1>1, HybridInvariance, PTL

(* What a caller stored or read once is in the results of every later      *)
(* read, although the local store evicts and no PUT is acknowledged.       *)
THEOREM NothingIsForgotten == MCSpec => []NothingForgotten
<1>1. HybridInv => NothingForgotten
  <2> SUFFICES ASSUME HybridInv, Returning, call.op # "prefetch"
               PROVE  known \cap Range(call.keys) \subseteq DOMAIN call.got
    BY DEF NothingForgotten
  <2>1. call.pc = "query" /\ call.todo = <<>> /\ call.pc # "idle"
    BY DEF Returning
  <2>2. call \in Calls /\ CallShape /\ SafeInv
    BY <2>1, InCall
  <2>3. ~IsPut
    BY <2>1, <2>2 DEF CallShape, WritePcs
  <2>4. call.op \in {"get", "batch"}
    BY <2>2, <2>3 DEF Calls, IsPut
  <2>5. Range(call.todo) = {}
    BY <2>1 DEF Range
  <2> QED
    BY <2>1, <2>2, <2>4, <2>5 DEF SafeInv, Covered
<1> QED
  BY <1>1, HybridInvariance, PTL
=============================================================================
