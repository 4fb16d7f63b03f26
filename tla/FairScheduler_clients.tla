----------------------- MODULE FairScheduler_clients -----------------------
(***************************************************************************)
(* Proofs about what the clients of FairScheduler get: every prefill is    *)
(* billed once, the scoreboard bounds how far a client runs ahead of one   *)
(* that waits for it, and the requests of a client stay in their order.    *)
(***************************************************************************)
EXTENDS FairScheduler_proofs

(* A request whose first prefill is still to come.                         *)
Fresh(r) ==
    /\ ~ preempted[r]
    /\ status[r] \in {"NEW", "WAITING"} \/ r \in Range(batch.prefills)

(* A request that is not fresh has a token of its own, and none has more   *)
(* than it may generate.  Tokens are there exactly if the prefill was      *)
(* billed.                                                                 *)
WellBilled(r) ==
    /\ bills[r] \in {0, 1}
    /\ length[r] > PromptLen[r] => bills[r] = 1
    /\ status[r] # "FINISHED" =>
          /\ length[r] < PromptLen[r] + MaxTokens
          /\ IF Fresh(r) THEN length[r] = PromptLen[r] /\ bills[r] = 0
                         ELSE length[r] > PromptLen[r]
BillInv == \A r \in Requests : WellBilled(r)

(* The groups that hold a seat, on the GPU or swapped out.  A prefill is   *)
(* admitted only while no group is swapped out, so they are never more     *)
(* than max_num_seqs.                                                      *)
Seated == Having(status, {"RUNNING", "SWAPPED"})
LiveInv == Cardinality(Seated) <= MaxNumSeqs

(* The token of the current step is accounted for: by the prefill, or by   *)
(* the decode charge.                                                      *)
Paid(r) ==
    \/ r \in Range(batch.prefills)
    \/ phase = "execute" /\ r \in Range(batch.decodes)

(* The decodes that a group may still be charged for, and the charge that  *)
(* a scheduled prefill may still bring.                                    *)
Left(r) ==
    IF r \in Seated
    THEN MaxTokens - (length[r] - PromptLen[r]) - (IF Paid(r) THEN 1 ELSE 0)
    ELSE 0
TokensLeft == [r \in Requests |-> Left(r)]
PrefillDue ==
    [r \in Requests |->
        IF r \in Range(batch.prefills) /\ ~ preempted[r] THEN PrefillWeight * PromptLen[r] ELSE 0]

(* What the groups of a client that hold a seat may still cost it.         *)
Due(c) == Held(PrefillDue, OwnedBy(c)) + DecodeWeight * Held(TokensLeft, OwnedBy(c))

(* FairShare with the charges that are still to come.                      *)
ShareInv ==
    \A c \in Clients : \A d \in overtaken[c] :
        /\ d \in Backlogged(client_waiting_queues) /\ c # d
        /\ c \in DOMAIN served
        /\ served[c] + Due(c) <= served[d] + Slack

FairInv == SchedInv /\ BillInv /\ LiveInv /\ ShareInv
-----------------------------------------------------------------------------
(***************************************************************************)
(* The steps by what they do to the requests.                              *)
(***************************************************************************)
(* No request changes its status.  The step that ends scheduling is one of *)
(* them.                                                                   *)
Quiet ==
    /\ phase # "execute"
    /\ UNCHANGED <<status, length, preempted>>
    /\ batch'.prefills = batch.prefills
    /\ Commit \/ (phase' # "execute" /\ served' = served)

(* One request changes its status.                                         *)
Moves(x, st) ==
    /\ phase # "execute" /\ phase' # "execute"
    /\ status' = [status EXCEPT ![x] = st]
    /\ UNCHANGED <<length, served>>

Changes ==
    {<<"WAITING", "FINISHED">>, <<"RUNNING", "FINISHED">>, <<"SWAPPED", "FINISHED">>,
     <<"RUNNING", "SWAPPED">>, <<"SWAPPED", "RUNNING">>}

(* ... neither by a prefill nor by recomputation ...                       *)
Turns(x, st) ==
    /\ Moves(x, st) /\ <<status[x], st>> \in Changes
    /\ x \notin Range(batch.prefills)
    /\ preempted' = preempted /\ batch'.prefills = batch.prefills

(* ... or by a prefill ...                                                 *)
Admits(x) ==
    /\ Moves(x, "RUNNING") /\ AdmitPrefill
    /\ status[x] = "WAITING" /\ phase = "prefills"
    /\ preempted' = preempted
    /\ batch.prefills = <<>> /\ batch'.prefills = <<x>>
    /\ ClientOf[x] \in HeadClients(client_waiting_queues, served)
    /\ client_waiting_queues' = PopLeft(client_waiting_queues, ClientOf[x])

(* ... or by recomputation.                                                *)
Recomputes(x) ==
    /\ Moves(x, "WAITING")
    /\ status[x] = "RUNNING"
    /\ preempted' = [preempted EXCEPT ![x] = TRUE]
    /\ batch.prefills = <<>> /\ batch'.prefills = <<>>

(* Adding a request changes nothing but its status and the queues.         *)
LEMMA AddShape ==
    ASSUME SchedInv, NEW x \in Requests, AddSeqGroup(x)
    PROVE  /\ phase # "execute" /\ phase' # "execute" /\ status[x] = "NEW"
           /\ status' = [status EXCEPT ![x] = "WAITING"]
           /\ UNCHANGED <<length, preempted, batch>>
           /\ x \notin Range(batch.prefills)
<1>1. /\ phase = "idle" /\ phase' = phase /\ status[x] = "NEW"
      /\ status' = [status EXCEPT ![x] = "WAITING"] /\ UNCHANGED <<length, preempted, batch>>
  BY DEF AddSeqGroup
<1>2. batch.prefills = <<>>
  BY <1>1 DEF SchedInv, PhaseInv, NoBatch
<1> QED
  BY <1>1, <1>2 DEF Range

(* Aborting a request.                                                     *)
LEMMA AbortShape ==
    ASSUME SchedInv, NEW x \in Requests, AbortSeqGroup(x)
    PROVE  Turns(x, "FINISHED")
<1>1. /\ phase = "idle" /\ phase' = phase /\ status[x] \in {"WAITING", "RUNNING", "SWAPPED"}
      /\ status' = [status EXCEPT ![x] = "FINISHED"]
      /\ UNCHANGED <<length, preempted, batch, served>>
  BY DEF AbortSeqGroup
<1>2. batch.prefills = <<>>
  BY <1>1 DEF SchedInv, PhaseInv, NoBatch
<1> QED
  BY <1>1, <1>2 DEF Range, Turns, Moves, Changes

(* The steps of _schedule_prefills that take a request.                    *)
LEMMA PrefillShape ==
    ASSUME SchedInv
    PROVE  /\ IgnorePrompt => \E x \in Requests : Turns(x, "FINISHED")
           /\ AdmitPrefill => \E x \in Requests : Admits(x)
<1> USE DEF SchedInv
<1>1. ASSUME IgnorePrompt PROVE \E x \in Requests : Turns(x, "FINISHED")
  <2>1. PICK c \in HeadClients(client_waiting_queues, served) :
            status' = [status EXCEPT ![Head(client_waiting_queues[c])] = "FINISHED"]
    BY <1>1 DEF IgnorePrompt
  <2>2. phase = "prefills" /\ UNCHANGED <<served, length, preempted, phase, batch>>
    BY <1>1 DEF IgnorePrompt
  <2>3. PICK x : x = Head(client_waiting_queues[c])
    OBVIOUS
  <2>4. x \in Requests /\ status[x] = "WAITING"
    BY <2>3, HeadWaits
  <2>5. x \notin Range(batch.prefills)
    BY <2>4, WhereIs
  <2> QED
    BY <2>1, <2>2, <2>3, <2>4, <2>5 DEF Turns, Moves, Changes
<1>2. ASSUME AdmitPrefill PROVE \E x \in Requests : Admits(x)
  <2>1. PICK c \in HeadClients(client_waiting_queues, served) :
            /\ status' = [status EXCEPT ![Head(client_waiting_queues[c])] = "RUNNING"]
            /\ batch' = [batch EXCEPT !.prefills = <<Head(client_waiting_queues[c])>>]
            /\ client_waiting_queues' = PopLeft(client_waiting_queues, c)
    BY <1>2 DEF AdmitPrefill
  <2>2. phase = "prefills" /\ batch.prefills = <<>> /\ UNCHANGED <<served, length, preempted, phase>>
    BY <1>2 DEF AdmitPrefill
  <2>3. PICK x : x = Head(client_waiting_queues[c])
    OBVIOUS
  <2>4. x \in Requests /\ status[x] = "WAITING" /\ ClientOf[x] = c
    BY <2>3, HeadWaits
  <2>5. batch'.prefills = <<x>>
    BY <2>1, <2>3, ListType
  <2> QED
    BY <1>2, <2>1, <2>2, <2>3, <2>4, <2>5 DEF Admits, Moves
<1> QED
  BY <1>1, <1>2

(* The steps of _schedule_running and _schedule_swapped that take one.     *)
LEMMA QueueShape ==
    ASSUME SchedInv
    PROVE  /\ PreemptByRecompute => \E x \in Requests : Recomputes(x)
           /\ PreemptBySwap => \E x \in Requests : Turns(x, "SWAPPED")
           /\ SwapIn => \E x \in Requests : Turns(x, "RUNNING")
           /\ FailSwapped => \E x \in Requests : Turns(x, "FINISHED")
<1>0. Range(<<>>) = {} /\ DOMAIN batch = {"prefills", "decodes", "preempted", "swapped_out"}
  BY ListType DEF SchedInv, Range
<1>1. ASSUME PreemptByRecompute PROVE \E x \in Requests : Recomputes(x)
  <2>1. PICK x : x = Last(running)
    OBVIOUS
  <2>2. /\ phase = "running" /\ running # <<>>
        /\ status' = [status EXCEPT ![x] = "WAITING"]
        /\ preempted' = [preempted EXCEPT ![x] = TRUE]
        /\ batch' = [batch EXCEPT !.preempted = Append(batch.preempted, x)]
        /\ UNCHANGED <<served, length, phase>>
    BY <1>1, <2>1 DEF PreemptByRecompute, queueVars
  <2>3. x \in Requests /\ status[x] = "RUNNING" /\ batch.prefills = <<>>
    BY <2>1, <2>2, VictimIs
  <2>4. batch'.prefills = batch.prefills
    BY <1>0, <2>2
  <2> QED
    BY <2>2, <2>3, <2>4 DEF Recomputes, Moves
<1>2. ASSUME PreemptBySwap PROVE \E x \in Requests : Turns(x, "SWAPPED")
  <2>1. PICK x : x = Last(running)
    OBVIOUS
  <2>2. /\ phase = "running" /\ running # <<>>
        /\ status' = [status EXCEPT ![x] = "SWAPPED"]
        /\ batch' = [batch EXCEPT !.swapped_out = Append(batch.swapped_out, x)]
        /\ UNCHANGED <<served, length, preempted, phase>>
    BY <1>2, <2>1 DEF PreemptBySwap, queueVars
  <2>3. x \in Requests /\ status[x] = "RUNNING" /\ batch.prefills = <<>>
    BY <2>1, <2>2, VictimIs
  <2>4. batch'.prefills = batch.prefills
    BY <1>0, <2>2
  <2> QED
    BY <1>0, <2>2, <2>3, <2>4 DEF Turns, Moves, Changes
<1>3. ASSUME SwapIn PROVE \E x \in Requests : Turns(x, "RUNNING")
  <2>1. PICK x : x = Head(swapped)
    OBVIOUS
  <2>2. /\ phase = "swapped" /\ swapped # <<>>
        /\ status' = [status EXCEPT ![x] = "RUNNING"]
        /\ batch' = [batch EXCEPT !.decodes = Append(batch.decodes, x)]
        /\ UNCHANGED <<served, length, preempted, phase>>
    BY <1>3, <2>1 DEF SwapIn, queueVars
  <2>3. x \in Requests /\ status[x] = "SWAPPED" /\ batch.prefills = <<>>
    BY <2>1, <2>2, SwappedHead
  <2>4. batch'.prefills = batch.prefills
    BY <1>0, <2>2
  <2> QED
    BY <1>0, <2>2, <2>3, <2>4 DEF Turns, Moves, Changes
<1>4. ASSUME FailSwapped PROVE \E x \in Requests : Turns(x, "FINISHED")
  <2>1. PICK x : x = Head(swapped)
    OBVIOUS
  <2>2. /\ phase = "swapped" /\ swapped # <<>>
        /\ status' = [status EXCEPT ![x] = "FINISHED"]
        /\ UNCHANGED <<served, length, preempted, phase, batch>>
    BY <1>4, <2>1 DEF FailSwapped, queueVars
  <2>3. x \in Requests /\ status[x] = "SWAPPED" /\ batch.prefills = <<>>
    BY <2>1, <2>2, SwappedHead
  <2> QED
    BY <1>0, <2>2, <2>3 DEF Turns, Moves, Changes
<1> QED
  BY <1>1, <1>2, <1>3, <1>4

(* The other steps before the model runs.                                  *)
LEMMA QuietShape ==
    ASSUME SchedInv,
           \/ BeginSchedule \/ EndPrefills \/ ScheduleDecode \/ FailSwapOut \/ EndRunning
           \/ EndSwapped \/ Commit \/ Terminated
    PROVE  Quiet
<1>0. DOMAIN batch = {"prefills", "decodes", "preempted", "swapped_out"}
  BY ListType DEF SchedInv
<1>1. CASE BeginSchedule
  <2>1. /\ phase = "idle" /\ phase' \in {"prefills", "running"} /\ batch' = NoBatch
        /\ UNCHANGED <<status, length, preempted, served>>
    BY <1>1 DEF BeginSchedule, queueVars
  <2>2. batch = NoBatch
    BY <2>1 DEF SchedInv, PhaseInv
  <2> QED
    BY <2>1, <2>2 DEF Quiet
<1>2. CASE EndPrefills \/ FailSwapOut \/ EndRunning \/ EndSwapped
  BY <1>2 DEF EndPrefills, FailSwapOut, EndRunning, EndSwapped, Quiet, queueVars
<1>3. CASE ScheduleDecode
  <2>1. /\ phase = "running" /\ UNCHANGED <<status, length, preempted, phase, served>>
        /\ batch' = [batch EXCEPT !.decodes = Append(batch.decodes, Head(running))]
    BY <1>3 DEF ScheduleDecode, queueVars
  <2>2. batch'.prefills = batch.prefills
    BY <1>0, <2>1
  <2> QED
    BY <2>1, <2>2 DEF Quiet
<1>4. CASE Commit
  <2>1. /\ phase = "commit" /\ UNCHANGED <<status, length, preempted>>
        /\ batch' = [batch EXCEPT !.preempted = <<>>, !.swapped_out = <<>>]
    BY <1>4 DEF Commit
  <2>2. batch'.prefills = batch.prefills
    BY <1>0, <2>1
  <2> QED
    BY <1>4, <2>1, <2>2 DEF Quiet
<1>5. CASE Terminated
  BY <1>5 DEF Terminated, vars, Quiet
<1> QED
  BY <1>1, <1>2, <1>3, <1>4, <1>5

(* Every step is of one of the kinds.                                      *)
LEMMA StepShape ==
    ASSUME SchedInv, Next
    PROVE  \/ \E x \in Requests : AddSeqGroup(x)
           \/ Quiet
           \/ \E x \in Requests, st \in {"FINISHED", "SWAPPED", "RUNNING"} : Turns(x, st)
           \/ \E x \in Requests : Admits(x) \/ Recomputes(x)
           \/ ExecutePrefill \/ ExecuteDecode
  BY AbortShape, PrefillShape, QueueShape, QuietShape DEF Next, EngineStep
-----------------------------------------------------------------------------
(***************************************************************************)
(* One bill for every prefill.                                             *)
(***************************************************************************)
(* What the history records of a step.                                     *)
LEMMA RecordIs ==
    ASSUME SchedInv, Record, bills \in [Requests -> Nat]
    PROVE  /\ bills' \in [Requests -> Nat]
           /\ phase # "execute" => bills' = bills
           /\ \A r \in Requests :
                bills'[r] = bills[r] + (IF phase = "execute" /\ r \in Range(batch.prefills) /\ ~ preempted[r]
                                        THEN 1 ELSE 0)
<1>1. batch.prefills \in Seq(Requests)
  BY ListType DEF SchedInv
<1>2. \A r \in Requests : Contains(batch.prefills, r) <=> r \in Range(batch.prefills)
  BY <1>1 DEF Contains, Range
<1>3. bills' = [r \in Requests |->
                  bills[r] + (IF phase = "execute" /\ r \in Range(batch.prefills) /\ ~ preempted[r]
                              THEN 1 ELSE 0)]
  BY <1>2 DEF Record, IsBilled
<1> QED
  BY <1>3

(* The model runs: the scheduled groups get a token, some of them stop.    *)
LEMMA OutputShape ==
    ASSUME SchedInv, ExecutePrefill \/ ExecuteDecode
    PROVE  \E B, stopped :
             /\ phase = "execute" /\ phase' = "idle"
             /\ B = Range(batch.prefills) \cup Range(batch.decodes)
             /\ stopped \subseteq B /\ B \subseteq Requests
             /\ \A r \in B : status[r] = "RUNNING" /\ (MustStop(r) => r \in stopped)
             /\ length' = [r \in Requests |-> IF r \in B THEN length[r] + 1 ELSE length[r]]
             /\ status' = [r \in Requests |-> IF r \in stopped THEN "FINISHED" ELSE status[r]]
             /\ preempted' = preempted /\ batch' = NoBatch
             /\ ExecuteDecode => served' = served
             /\ client_waiting_queues' = client_waiting_queues
<1> USE DEF SchedInv
<1>1. PICK B : B = Range(batch.prefills) \cup Range(batch.decodes)
  OBVIOUS
<1>2. phase = "execute" /\ ProcessOutputs(B) /\ (ExecuteDecode => served' = served)
  <2>1. CASE ExecutePrefill
    <3>1. batch.prefills # <<>>
      BY <2>1 DEF ExecutePrefill
    <3>2. Range(batch.decodes) = {}
      BY <3>1 DEF PhaseInv, Range
    <3>3. B = Range(batch.prefills)
      BY <1>1, <3>2
    <3> QED
      BY <2>1, <3>1, <3>3 DEF ExecutePrefill, ExecuteDecode
  <2>2. CASE ExecuteDecode
    <3>1. Range(batch.prefills) = {}
      BY <2>2 DEF ExecuteDecode, Range
    <3>2. B = Range(batch.decodes)
      BY <1>1, <3>1
    <3> QED
      BY <2>2, <3>2 DEF ExecuteDecode
  <2> QED
    BY <2>1, <2>2
<1>3. batch.prefills \in Seq(Requests) /\ batch.decodes \in Seq(Requests)
  BY ListType
<1>4. B \subseteq Requests
  BY <1>1, <1>3 DEF Range
<1>5. \A r \in B : status[r] = "RUNNING"
  BY <1>1, WhereIs
<1>6. PICK stopped \in SUBSET B :
        /\ {r \in B : MustStop(r)} \subseteq stopped
        /\ length' = [r \in Requests |-> IF r \in B THEN length[r] + 1 ELSE length[r]]
        /\ status' = [r \in Requests |-> IF r \in stopped THEN "FINISHED" ELSE status[r]]
        /\ phase' = "idle" /\ batch' = NoBatch
        /\ UNCHANGED <<client_waiting_queues, preempted>>
  BY <1>2 DEF ProcessOutputs
<1> QED
  BY <1>1, <1>2, <1>4, <1>5, <1>6

(* The bills stay right.                                                   *)
LEMMA BillKeeps ==
    ASSUME SchedInv, BillInv, bills \in [Requests -> Nat], Next, Record
    PROVE  BillInv' /\ bills' \in [Requests -> Nat]
<1>1. /\ bills' \in [Requests -> Nat]
      /\ phase # "execute" => bills' = bills
      /\ \A r \in Requests :
           bills'[r] = bills[r] + (IF phase = "execute" /\ r \in Range(batch.prefills) /\ ~ preempted[r]
                                   THEN 1 ELSE 0)
  BY RecordIs
<1>2. /\ length \in [Requests -> Nat] /\ PromptLen \in [Requests -> Nat \ {0}]
      /\ MaxTokens \in Nat \ {0} /\ status \in [Requests -> Statuses]
      /\ preempted \in [Requests -> BOOLEAN]
  BY SchedulerAssumption DEF SchedInv, TypeOK
<1>3. ASSUME NEW x \in Requests, AddSeqGroup(x) PROVE BillInv'
  <2>1. /\ phase # "execute" /\ status[x] = "NEW"
        /\ status' = [status EXCEPT ![x] = "WAITING"] /\ UNCHANGED <<length, preempted, batch>>
    BY <1>3, AddShape
  <2>2. ASSUME NEW r \in Requests
        PROVE  (Fresh(r)' <=> Fresh(r)) /\ (status'[r] # "FINISHED" <=> status[r] # "FINISHED")
    BY <1>2, <2>1 DEF Fresh
  <2> QED
    BY <1>1, <2>1, <2>2 DEF BillInv, WellBilled
<1>4. CASE Quiet
  <2>1. \A r \in Requests : Fresh(r)' <=> Fresh(r)
    BY <1>4 DEF Fresh, Quiet
  <2> QED
    BY <1>1, <1>4, <2>1 DEF BillInv, WellBilled, Quiet
<1>5. ASSUME NEW x \in Requests, NEW st, Turns(x, st) PROVE BillInv'
  <2>1. /\ phase # "execute" /\ status' = [status EXCEPT ![x] = st] /\ length' = length
        /\ <<status[x], st>> \in Changes /\ x \notin Range(batch.prefills)
        /\ preempted' = preempted /\ batch'.prefills = batch.prefills
    BY <1>5 DEF Turns, Moves
  <2>2. ASSUME NEW r \in Requests, status'[r] # "FINISHED"
        PROVE  (Fresh(r)' <=> Fresh(r)) /\ status[r] # "FINISHED"
    BY <1>2, <2>1, <2>2 DEF Fresh, Changes
  <2> QED
    BY <1>1, <2>1, <2>2 DEF BillInv, WellBilled
<1>6. ASSUME NEW x \in Requests, Admits(x) PROVE BillInv'
  <2>1. /\ phase # "execute" /\ status' = [status EXCEPT ![x] = "RUNNING"] /\ length' = length
        /\ status[x] = "WAITING" /\ preempted' = preempted
        /\ batch.prefills = <<>> /\ batch'.prefills = <<x>>
    BY <1>6 DEF Admits, Moves
  <2>3. Range(batch.prefills) = {} /\ Range(batch'.prefills) = {x}
    BY <2>1 DEF Range
  <2>2. ASSUME NEW r \in Requests
        PROVE  (Fresh(r)' <=> Fresh(r)) /\ (status'[r] # "FINISHED" <=> status[r] # "FINISHED")
    BY <1>2, <2>1, <2>3 DEF Fresh
  <2> QED
    BY <1>1, <2>1, <2>2 DEF BillInv, WellBilled
<1>7. ASSUME NEW x \in Requests, Recomputes(x) PROVE BillInv'
  <2>1. /\ phase # "execute" /\ status' = [status EXCEPT ![x] = "WAITING"] /\ length' = length
        /\ status[x] = "RUNNING" /\ preempted' = [preempted EXCEPT ![x] = TRUE]
        /\ batch.prefills = <<>> /\ batch'.prefills = <<>>
    BY <1>7 DEF Recomputes, Moves
  <2>3. Range(batch.prefills) = {} /\ Range(batch'.prefills) = {}
    BY <2>1 DEF Range
  <2>2. ASSUME NEW r \in Requests
        PROVE  (Fresh(r)' <=> Fresh(r)) /\ (status'[r] # "FINISHED" <=> status[r] # "FINISHED")
    BY <1>2, <2>1, <2>3 DEF Fresh
  <2> QED
    BY <1>1, <2>1, <2>2 DEF BillInv, WellBilled
<1>8. CASE ExecutePrefill \/ ExecuteDecode
  <2>1. PICK B, stopped :
             /\ phase = "execute" /\ phase' = "idle"
             /\ B = Range(batch.prefills) \cup Range(batch.decodes)
             /\ stopped \subseteq B /\ B \subseteq Requests
             /\ \A r \in B : status[r] = "RUNNING" /\ (MustStop(r) => r \in stopped)
             /\ length' = [r \in Requests |-> IF r \in B THEN length[r] + 1 ELSE length[r]]
             /\ status' = [r \in Requests |-> IF r \in stopped THEN "FINISHED" ELSE status[r]]
             /\ preempted' = preempted /\ batch' = NoBatch
    BY <1>8, OutputShape
  <2>2. Range(batch'.prefills) = {}
    BY <2>1 DEF NoBatch, Range
  <2>3. ASSUME NEW r \in Requests
        PROVE  WellBilled(r)'
    <3>1. /\ length[r] \in Nat /\ PromptLen[r] \in Nat /\ length'[r] \in Nat
          /\ length[r] >= PromptLen[r]
      BY <1>2, <2>1 DEF SchedInv, TableInv
    <3>2. CASE r \in B
      <4>1. status[r] = "RUNNING" /\ length'[r] = length[r] + 1
        BY <2>1, <3>2
      <4>2. Fresh(r) <=> (r \in Range(batch.prefills) /\ ~ preempted[r])
        BY <4>1 DEF Fresh
      <4>3. bills'[r] = 1
        BY <1>1, <2>1, <4>1, <4>2 DEF BillInv, WellBilled
      <4>4. ASSUME status'[r] # "FINISHED" PROVE length'[r] < PromptLen[r] + MaxTokens /\ ~ Fresh(r)'
        <5>1. r \notin stopped /\ status'[r] = "RUNNING"
          BY <2>1, <4>1, <4>4
        <5>2. ~ (length[r] + 1 - PromptLen[r] >= MaxTokens)
          BY <2>1, <3>2, <5>1 DEF MustStop
        <5> QED
          BY <1>2, <2>2, <3>1, <4>1, <5>1, <5>2 DEF Fresh
      <4> QED
        BY <3>1, <4>1, <4>3, <4>4 DEF WellBilled
    <3>3. CASE r \notin B
      <4>1. r \notin Range(batch.prefills) /\ r \notin stopped
        BY <2>1, <3>3
      <4>2. length'[r] = length[r] /\ status'[r] = status[r] /\ bills'[r] = bills[r]
        BY <1>1, <1>2, <2>1, <3>3, <4>1 DEF BillInv, WellBilled
      <4>3. Fresh(r)' <=> Fresh(r)
        BY <2>1, <2>2, <4>1, <4>2 DEF Fresh
      <4> QED
        BY <4>2, <4>3 DEF BillInv, WellBilled
    <3> QED
      BY <3>2, <3>3
  <2> QED
    BY <1>1, <2>3 DEF BillInv
<1> QED
  BY <1>1, <1>3, <1>4, <1>5, <1>6, <1>7, <1>8, StepShape
-----------------------------------------------------------------------------
(***************************************************************************)
(* Sums.  Held(f, G) is the sum of f over the requests in G.               *)
(***************************************************************************)
(* The elements that are counted.                                          *)
LEMMA HeldElements ==
    ASSUME NEW f, NEW G, NEW x
    PROVE  x \in BlocksIn(f, G) <=> \E r \in G : \E n \in 1 .. f[r] : x = <<r, n>>
  BY DEF BlocksIn

(* A sum grows with its terms.                                             *)
LEMMA HeldMonotone ==
    ASSUME NEW f \in [Requests -> Nat], NEW g \in [Requests -> Nat], NEW G, G \subseteq Requests,
           \A r \in G : f[r] <= g[r]
    PROVE  Held(f, G) <= Held(g, G)
<1>1. ASSUME NEW x \in BlocksIn(f, G) PROVE x \in BlocksIn(g, G)
  <2>1. PICK r \in G : \E n \in 1 .. f[r] : x = <<r, n>>
    BY HeldElements
  <2>2. PICK n \in 1 .. f[r] : x = <<r, n>>
    BY <2>1
  <2>3. f[r] \in Nat /\ g[r] \in Nat /\ f[r] <= g[r]
    OBVIOUS
  <2>4. n \in 1 .. g[r]
    BY <2>3
  <2> QED
    BY <2>2, <2>4, HeldElements
<1>2. BlocksIn(f, G) \in SUBSET BlocksIn(g, G)
  BY <1>1
<1>3. IsFiniteSet(BlocksIn(g, G))
  BY HeldType
<1> QED
  BY <1>2, <1>3, FS_Subset DEF Held

(* A sum of at most n terms that are at most m each.                       *)
LEMMA HeldBound ==
    ASSUME NEW f \in [Requests -> Nat], NEW G, G \subseteq Requests,
           NEW S, IsFiniteSet(S), NEW n \in Nat, Cardinality(S) <= n, NEW m \in Nat,
           \A r \in G : f[r] # 0 => r \in S /\ f[r] <= m
    PROVE  Held(f, G) <= n * m
<1>1. IsFiniteSet(1 .. m) /\ Cardinality(1 .. m) = m
  BY FS_Interval
<1>2. IsFiniteSet(S \X (1 .. m)) /\ Cardinality(S \X (1 .. m)) = Cardinality(S) * Cardinality(1 .. m)
  BY <1>1, FS_Product
<1>3. ASSUME NEW x \in BlocksIn(f, G) PROVE x \in S \X (1 .. m)
  <2>1. PICK r \in G : \E k \in 1 .. f[r] : x = <<r, k>>
    BY HeldElements
  <2>2. PICK k \in 1 .. f[r] : x = <<r, k>>
    BY <2>1
  <2>3. f[r] \in Nat
    OBVIOUS
  <2>4. f[r] # 0
    BY <2>3
  <2>5. r \in S /\ f[r] <= m
    BY <2>4
  <2>6. k \in 1 .. m
    BY <2>3, <2>5
  <2> QED
    BY <2>2, <2>5, <2>6
<1>4. BlocksIn(f, G) \in SUBSET (S \X (1 .. m))
  BY <1>3
<1>5. Held(f, G) <= Cardinality(S) * m
  BY <1>1, <1>2, <1>4, FS_Subset DEF Held
<1>6. Cardinality(S) \in Nat
  BY FS_CardinalityType
<1>7. Held(f, G) \in Nat
  BY HeldType
<1>8. \A i, j \in Nat : i <= j => i * m <= j * m
  <2>1. ASSUME NEW i \in Nat, NEW j \in Nat, i <= j PROVE i * m <= j * m
    <3>1. j - i \in Nat
      BY <2>1
    <3>2. (j - i) * m \in Nat
      BY <3>1
    <3>3. j * m = i * m + (j - i) * m
      OBVIOUS
    <3> QED
      BY <3>2, <3>3
  <2> QED
    BY <2>1
<1>9. Cardinality(S) * m <= n * m
  BY <1>6, <1>8
<1>10. Cardinality(S) * m \in Nat /\ n * m \in Nat
  BY <1>6
<1> QED
  BY <1>5, <1>7, <1>9, <1>10

(* One term of a sum.                                                      *)
LEMMA HeldTerm ==
    ASSUME NEW f \in [Requests -> Nat], NEW G, G \subseteq Requests, NEW x \in G
    PROVE  f[x] <= Held(f, G)
<1>1. {x} \subseteq Requests /\ G \ {x} \subseteq Requests /\ {x} \cap (G \ {x}) = {}
      /\ {x} \cup (G \ {x}) = G
  OBVIOUS
<1>2. Held(f, {x} \cup (G \ {x})) = Held(f, {x}) + Held(f, G \ {x})
  BY <1>1, HeldSplit
<1>3. Held(f, {x}) = f[x]
  BY HeldOne
<1>4. Held(f, G \ {x}) \in Nat
  BY HeldType
<1>5. f[x] \in Nat
  OBVIOUS
<1>6. Held(f, G) = f[x] + Held(f, G \ {x})
  BY <1>1, <1>2, <1>3
<1> QED
  BY <1>4, <1>5, <1>6

(* Terms that go down by one: the sum goes down by their number.           *)
LEMMA HeldDecrease ==
    ASSUME NEW f \in [Requests -> Nat], NEW g \in [Requests -> Nat], NEW G, G \subseteq Requests,
           NEW list \in Seq(Requests), \A r \in Requests : Times(r, list) <= 1,
           \A r \in G \ Range(list) : g[r] <= f[r],
           \A r \in G \cap Range(list) : g[r] + 1 <= f[r]
    PROVE  Held(g, G) + Len(Kept(list, G)) <= Held(f, G)
<1>1. PICK I : I = {i \in DOMAIN list : list[i] \in G}
  OBVIOUS
<1>2. Len(Kept(list, G)) = Cardinality(I) /\ Len(Kept(list, G)) \in Nat
  BY <1>1, KeptTimes
<1>3. PICK T : T = {<<r, f[r]>> : r \in G \cap Range(list)}
  OBVIOUS
<1>4. PICK h : h = [i \in I |-> <<list[i], f[list[i]]>>]
  OBVIOUS
<1>5. ASSUME NEW i \in I, NEW j \in I, list[i] = list[j] PROVE i = j
  <2>1. PICK r \in Requests : r = list[i] /\ r = list[j]
    BY <1>1, <1>5
  <2>2. i \in Positions(r, list) /\ j \in Positions(r, list)
    BY <1>1, <2>1 DEF Positions
  <2>3. IsFiniteSet(Positions(r, list)) /\ Cardinality(Positions(r, list)) <= 1
    BY TimesType
  <2>4. {i, j} \in SUBSET Positions(r, list)
    BY <2>2
  <2>5. Cardinality({i, j}) <= Cardinality(Positions(r, list)) /\ IsFiniteSet({i, j})
    BY <2>3, <2>4, FS_Subset
  <2>6. Cardinality({i}) = 1 /\ IsFiniteSet({i})
    BY FS_Singleton
  <2>7. {i} \in SUBSET {i, j}
    OBVIOUS
  <2>8. /\ Cardinality({i}) <= Cardinality({i, j})
        /\ Cardinality({i, j}) = Cardinality({i}) => {i, j} = {i}
    BY <2>5, <2>7, FS_Subset
  <2>9. Cardinality({i, j}) \in Nat /\ Cardinality(Positions(r, list)) \in Nat
    BY <2>3, <2>5, FS_CardinalityType
  <2>10. Cardinality({i, j}) = 1
    BY <2>3, <2>5, <2>6, <2>8, <2>9
  <2> QED
    BY <2>6, <2>8, <2>10
<1>6. h \in Bijection(I, T)
  <2>1. \A i \in I : list[i] \in G \cap Range(list)
    BY <1>1 DEF Range
  <2>2. h \in [I -> T]
    BY <1>3, <1>4, <2>1
  <2>3. \A i, j \in I : h[i] = h[j] => i = j
    BY <1>4, <1>5
  <2>4. \A t \in T : \E i \in I : h[i] = t
    BY <1>1, <1>3, <1>4 DEF Range
  <2> QED
    BY <2>2, <2>3, <2>4 DEF Bijection, Injection, IsInjective, Surjection
<1>7. IsFiniteSet(I)
  <2>1. DOMAIN list = 1 .. Len(list) /\ Len(list) \in Nat
    OBVIOUS
  <2>2. IsFiniteSet(1 .. Len(list)) /\ I \in SUBSET (1 .. Len(list))
    BY <1>1, <2>1, FS_Interval
  <2> QED
    BY <2>2, FS_Subset
<1>8. IsFiniteSet(T) /\ Cardinality(T) = Cardinality(I)
  BY <1>6, <1>7, FS_Bijection DEF ExistsBijection
<1>9. IsFiniteSet(BlocksIn(g, G)) /\ IsFiniteSet(BlocksIn(f, G)) /\ Held(g, G) \in Nat /\ Held(f, G) \in Nat
  BY HeldType
<1>10. ASSUME NEW x \in BlocksIn(g, G) PROVE x \in BlocksIn(f, G) /\ x \notin T
  <2>1. PICK r \in G : \E n \in 1 .. g[r] : x = <<r, n>>
    BY HeldElements
  <2>2. PICK n \in 1 .. g[r] : x = <<r, n>>
    BY <2>1
  <2>3. f[r] \in Nat /\ g[r] \in Nat
    OBVIOUS
  <2>4. g[r] <= f[r] /\ (r \in Range(list) => n # f[r])
    <3>1. CASE r \in Range(list)
      <4>1. g[r] + 1 <= f[r]
        BY <3>1
      <4> QED
        BY <2>3, <4>1
    <3>2. CASE r \notin Range(list)
      BY <3>2
    <3> QED
      BY <3>1, <3>2
  <2>5. n \in 1 .. f[r]
    BY <2>3, <2>4
  <2>6. x \in BlocksIn(f, G)
    BY <2>2, <2>5, HeldElements
  <2> QED
    BY <1>3, <2>2, <2>4, <2>6
<1>11. ASSUME NEW x \in T PROVE x \in BlocksIn(f, G)
  <2>1. PICK r \in G \cap Range(list) : x = <<r, f[r]>>
    BY <1>3
  <2>2. f[r] \in Nat /\ g[r] \in Nat /\ g[r] + 1 <= f[r]
    OBVIOUS
  <2>3. f[r] \in 1 .. f[r]
    BY <2>2
  <2> QED
    BY <2>1, <2>3, HeldElements
<1>12. BlocksIn(g, G) \cup T \in SUBSET BlocksIn(f, G) /\ BlocksIn(g, G) \cap T = {}
  BY <1>10, <1>11
<1>13. /\ IsFiniteSet(BlocksIn(g, G) \cup T)
       /\ Cardinality(BlocksIn(g, G) \cup T) = Cardinality(BlocksIn(g, G)) + Cardinality(T) - Cardinality({})
  <2>1. /\ IsFiniteSet(BlocksIn(g, G) \cup T)
        /\ Cardinality(BlocksIn(g, G) \cup T)
             = Cardinality(BlocksIn(g, G)) + Cardinality(T) - Cardinality(BlocksIn(g, G) \cap T)
    BY <1>8, <1>9, FS_Union
  <2> QED
    BY <1>12, <2>1
<1>14. Cardinality(BlocksIn(g, G) \cup T) <= Cardinality(BlocksIn(f, G))
  BY <1>9, <1>12, FS_Subset
<1>15. Cardinality({}) = 0
  BY FS_EmptySet
<1>16. Cardinality(I) \in Nat
  BY <1>7, FS_CardinalityType
<1> QED
  BY <1>2, <1>8, <1>9, <1>13, <1>14, <1>15, <1>16 DEF Held

(* No prompt is longer than the longest.                                   *)
LEMMA LongestPrompt ==
    ASSUME NEW x \in Requests
    PROVE  Max(Range(PromptLen)) \in Nat /\ PromptLen[x] <= Max(Range(PromptLen))
<1>1. PromptLen \in [Requests -> Nat]
  BY SchedulerAssumption
<1>2. PICK R : R = Range(PromptLen)
  OBVIOUS
<1>3. R = {PromptLen[r] : r \in Requests} /\ R \subseteq Nat /\ PromptLen[x] \in R
  BY <1>1, <1>2 DEF Range
<1>4. PICK S : S = {n \in Nat : \A y \in R : y <= n}
  OBVIOUS
<1>5. S \subseteq Nat /\ S # {}
  <2>1. \A r \in Requests : PromptLen[r] <= Held(PromptLen, Requests)
    BY <1>1, HeldTerm
  <2>2. Held(PromptLen, Requests) \in Nat
    BY <1>1, HeldType
  <2> QED
    BY <1>3, <1>4, <2>1, <2>2
<1>6. PICK m \in S : \A n \in S : m <= n
  BY <1>5, LeastNat
<1>7. m \in R
  <2> SUFFICES ASSUME m \notin R PROVE FALSE
    OBVIOUS
  <2>1. m \in Nat /\ \A y \in R : y \in Nat /\ y <= m /\ y # m
    BY <1>3, <1>4
  <2>2. \A y \in R : y <= m - 1
    BY <2>1
  <2>3. m - 1 \in Nat
    BY <1>3, <2>1
  <2>4. m - 1 \in S
    BY <1>4, <2>2, <2>3
  <2> QED
    BY <1>6, <2>1, <2>4
<1>8. \A y \in R : m >= y
  BY <1>3, <1>4
<1>9. Max(R) \in R /\ \A y \in R : Max(R) >= y
  BY <1>7, <1>8 DEF Max
<1> QED
  BY <1>2, <1>3, <1>9
-----------------------------------------------------------------------------
(***************************************************************************)
(* What the seated groups may still cost.                                  *)
(***************************************************************************)
DueOK ==
    /\ TokensLeft \in [Requests -> Nat] /\ PrefillDue \in [Requests -> Nat]
    /\ \A c \in Clients : Due(c) \in Nat /\ (Requests # {} => Slack \in Nat /\ Due(c) <= Slack)

(* The requests of a client.                                               *)
LEMMA OwnedType ==
    ASSUME NEW c
    PROVE  OwnedBy(c) \subseteq Requests
  BY DEF OwnedBy

(* Sums within the limits of the groups add up to Slack at most.           *)
LEMMA SlackBound ==
    ASSUME NEW f \in [Requests -> Nat], NEW g \in [Requests -> Nat], NEW G, G \subseteq Requests,
           NEW S, IsFiniteSet(S), Cardinality(S) <= MaxNumSeqs,
           \A r \in G : f[r] # 0 => r \in S /\ f[r] <= MaxTokens - 1,
           NEW x \in Requests,
           \A r \in G : g[r] # 0 => r = x /\ g[r] <= PrefillWeight * PromptLen[r]
    PROVE  /\ Slack \in Nat
           /\ Held(g, G) + DecodeWeight * Held(f, G) <= Slack
<1>1. PICK m \in Nat, n \in Nat, w \in Nat, v \in Nat :
        m = MaxTokens - 1 /\ n = MaxNumSeqs /\ w = DecodeWeight /\ v = PrefillWeight
  <2>1. MaxTokens \in Nat \ {0} /\ MaxNumSeqs \in Nat /\ DecodeWeight \in Nat /\ PrefillWeight \in Nat
    BY SchedulerAssumption, QueueAssumption
  <2>2. MaxTokens - 1 \in Nat
    BY <2>1
  <2> QED
    BY <2>1, <2>2
<1>2. PICK p \in Nat : p = Max(Range(PromptLen)) /\ PromptLen[x] <= p
  BY LongestPrompt
<1>3. Held(f, G) <= n * m
  BY <1>1, HeldBound
<1>4. PICK q \in Nat : q = v * p
  BY <1>1, <1>2
<1>5. v * PromptLen[x] <= q
  <2>1. PromptLen[x] \in Nat /\ p - PromptLen[x] \in Nat
    BY <1>2, SchedulerAssumption
  <2>2. v * (p - PromptLen[x]) \in Nat
    BY <2>1
  <2>3. v * p = v * PromptLen[x] + v * (p - PromptLen[x])
    BY <2>1
  <2>4. v * PromptLen[x] \in Nat
    BY <2>1
  <2> QED
    BY <1>4, <2>2, <2>3, <2>4
<1>6. Held(g, G) <= 1 * q
  <2>5. IsFiniteSet({x}) /\ Cardinality({x}) = 1
    BY FS_Singleton
  <2>1. IsFiniteSet({x}) /\ Cardinality({x}) <= 1
    BY <2>5
  <2>2. ASSUME NEW r \in G, g[r] # 0 PROVE r \in {x} /\ g[r] <= q
    <3>1. r = x /\ g[r] <= PrefillWeight * PromptLen[r]
      BY <2>2
    <3>2. PICK k \in Nat : k = v * PromptLen[x]
      <4>1. PromptLen[x] \in Nat
        BY SchedulerAssumption
      <4> QED
        BY <4>1
    <3>3. g[r] <= k /\ k <= q /\ g[r] \in Nat
      BY <1>1, <1>5, <3>1, <3>2
    <3> QED
      BY <3>1, <3>3
  <2>3. PICK U : U = {x}
    OBVIOUS
  <2>4. IsFiniteSet(U) /\ Cardinality(U) <= 1 /\ 1 \in Nat /\ \A r \in G : g[r] # 0 => r \in U /\ g[r] <= q
    BY <2>1, <2>2, <2>3
  <2> QED
    BY <2>4, HeldBound
<1>7. Held(f, G) \in Nat /\ Held(g, G) \in Nat
  BY HeldType
<1>8. w * Held(f, G) <= (n * w) * m /\ w * Held(f, G) \in Nat /\ (n * w) * m \in Nat
  <2>1. PICK h \in Nat : h = Held(f, G)
    BY <1>7
  <2>2. PICK k \in Nat : k = n * m
    OBVIOUS
  <2>3. k - h \in Nat
    BY <1>3, <2>1, <2>2
  <2>4. w * (k - h) \in Nat /\ w * h \in Nat /\ w * k \in Nat
    BY <2>3
  <2>5. w * k = w * h + w * (k - h)
    OBVIOUS
  <2>6. w * (n * m) = (n * w) * m
    OBVIOUS
  <2> QED
    BY <2>1, <2>2, <2>4, <2>5, <2>6
<1>9. Slack = q + (n * w) * m
  BY <1>1, <1>2, <1>4 DEF Slack
<1>10. \A i, j, k, l \in Nat : i <= 1 * j /\ k <= l => i + k <= j + l
  OBVIOUS
<1>11. Held(g, G) + w * Held(f, G) <= q + (n * w) * m
  BY <1>6, <1>7, <1>8, <1>10
<1> QED
  BY <1>1, <1>8, <1>9, <1>11

(* The groups that hold a seat are finitely many.                          *)
LEMMA SeatedFinite == IsFiniteSet(Seated) /\ Cardinality(Seated) \in Nat /\ Seated \subseteq Requests
<1>1. Seated \in SUBSET Requests
  BY DEF Seated, Having
<1>2. IsFiniteSet(Seated)
  BY <1>1, QueueAssumption, FS_Subset
<1> QED
  BY <1>1, <1>2, FS_CardinalityType

(* The tokens left are never negative, nor more than the decodes of a      *)
(* group: its first token comes from the prefill.                          *)
LEMMA LeftBound ==
    ASSUME SchedInv, BillInv, NEW r \in Requests
    PROVE  Left(r) \in Nat /\ Left(r) <= MaxTokens - 1 /\ (Left(r) # 0 => r \in Seated)
<1>1. /\ length[r] \in Nat /\ PromptLen[r] \in Nat /\ MaxTokens \in Nat \ {0}
      /\ length[r] >= PromptLen[r]
  BY SchedulerAssumption DEF SchedInv, TypeOK, TableInv
<1>2. CASE r \in Seated
  <2>1. status[r] \in {"RUNNING", "SWAPPED"}
    BY <1>2 DEF Seated, Having
  <2>2. length[r] < PromptLen[r] + MaxTokens
    BY <2>1 DEF BillInv, WellBilled
  <2>3. CASE Paid(r)
    <3>1. Left(r) = MaxTokens - (length[r] - PromptLen[r]) - 1
      BY <1>2, <2>3 DEF Left
    <3> QED
      BY <1>1, <1>2, <2>2, <3>1
  <2>4. CASE ~ Paid(r)
    <3>1. Left(r) = MaxTokens - (length[r] - PromptLen[r]) - 0
      BY <1>2, <2>4 DEF Left
    <3>2. ~ Fresh(r)
      BY <2>1, <2>4 DEF Paid, Fresh
    <3>3. length[r] > PromptLen[r]
      BY <2>1, <3>2 DEF BillInv, WellBilled
    <3> QED
      BY <1>1, <1>2, <2>2, <3>1, <3>3
  <2> QED
    BY <2>3, <2>4
<1>3. CASE r \notin Seated
  BY <1>1, <1>3 DEF Left
<1> QED
  BY <1>2, <1>3

(* At any time, the groups of a client cost it no more than Slack.         *)
LEMMA DueLimit == SchedInv /\ BillInv /\ LiveInv => DueOK
<1> SUFFICES ASSUME SchedInv, BillInv, LiveInv PROVE DueOK
  OBVIOUS
<1>1. TokensLeft \in [Requests -> Nat]
  BY LeftBound DEF TokensLeft
<1>2. PrefillDue \in [Requests -> Nat]
  <2>1. \A r \in Requests : PromptLen[r] \in Nat
    BY SchedulerAssumption
  <2>2. PrefillWeight \in Nat
    BY QueueAssumption
  <2>3. \A r \in Requests : PrefillWeight * PromptLen[r] \in Nat
    BY <2>1, <2>2
  <2> QED
    BY <2>3 DEF PrefillDue
<1>3. \A c : Held(TokensLeft, OwnedBy(c)) \in Nat /\ Held(PrefillDue, OwnedBy(c)) \in Nat
  BY <1>1, <1>2, OwnedType, HeldType
<1>4. ASSUME NEW c \in Clients PROVE Due(c) \in Nat
  <2>1. DecodeWeight \in Nat
    BY QueueAssumption
  <2>2. DecodeWeight * Held(TokensLeft, OwnedBy(c)) \in Nat
    BY <1>3, <2>1
  <2> QED
    BY <1>3, <2>2 DEF Due
<1>5. ASSUME NEW c \in Clients, Requests # {} PROVE Slack \in Nat /\ Due(c) <= Slack
  <2>1. PICK x \in Requests : Range(batch.prefills) \subseteq {x}
    <3>1. batch.prefills \in Seq(Requests)
      BY ListType DEF SchedInv
    <3>2. CASE batch.prefills = <<>>
      BY <1>5, <3>2 DEF Range
    <3>3. CASE batch.prefills # <<>>
      <4>1. Len(batch.prefills) = 1
        BY <3>3 DEF SchedInv, PhaseInv
      <4>2. batch.prefills[1] \in Requests /\ Range(batch.prefills) = {batch.prefills[1]}
        BY <3>1, <4>1 DEF Range
      <4> QED
        BY <4>2
    <3> QED
      BY <3>2, <3>3
  <2>2. PICK f \in [Requests -> Nat], g \in [Requests -> Nat] : f = TokensLeft /\ g = PrefillDue
    BY <1>1, <1>2
  <2>3. IsFiniteSet(Seated) /\ Cardinality(Seated) <= MaxNumSeqs
    BY SeatedFinite DEF LiveInv
  <2>4. \A r \in OwnedBy(c) : f[r] # 0 => r \in Seated /\ f[r] <= MaxTokens - 1
    BY <2>2, OwnedType, LeftBound DEF TokensLeft
  <2>5. \A r \in OwnedBy(c) : g[r] # 0 => r = x /\ g[r] <= PrefillWeight * PromptLen[r]
    <3>1. ASSUME NEW r \in Requests, g[r] # 0 PROVE r = x /\ g[r] <= PrefillWeight * PromptLen[r]
      <4>1. r \in Range(batch.prefills) /\ g[r] = PrefillWeight * PromptLen[r]
        BY <2>2, <3>1 DEF PrefillDue
      <4> QED
        BY <2>1, <4>1
    <3> QED
      BY <3>1, OwnedType
  <2>6. OwnedBy(c) \subseteq Requests
    BY OwnedType
  <2>7. Slack \in Nat /\ Held(g, OwnedBy(c)) + DecodeWeight * Held(f, OwnedBy(c)) <= Slack
    BY <2>3, <2>4, <2>5, <2>6, SlackBound
  <2> QED
    BY <2>2, <2>7 DEF Due
<1> QED
  BY <1>1, <1>2, <1>4, <1>5 DEF DueOK

(* No more groups than seats.                                              *)
LEMMA LiveKeeps ==
    ASSUME SchedInv, LiveInv, Next
    PROVE  LiveInv'
<1>0. Seated' = {r \in Requests : status'[r] \in {"RUNNING", "SWAPPED"}}
      /\ Seated = {r \in Requests : status[r] \in {"RUNNING", "SWAPPED"}}
  BY DEF Seated, Having
<1>1. IsFiniteSet(Seated) /\ Cardinality(Seated) \in Nat /\ Cardinality(Seated) <= MaxNumSeqs
      /\ MaxNumSeqs \in Nat /\ status \in [Requests -> Statuses]
  BY SeatedFinite, SchedulerAssumption DEF LiveInv, SchedInv, TypeOK
<1>2. ASSUME Seated' \subseteq Seated PROVE LiveInv'
  <2>1. Seated' \in SUBSET Seated
    BY <1>2
  <2>2. Cardinality(Seated') <= Cardinality(Seated) /\ IsFiniteSet(Seated')
    BY <1>1, <2>1, FS_Subset
  <2>3. Cardinality(Seated') \in Nat
    BY <2>2, FS_CardinalityType
  <2> QED
    BY <1>1, <2>2, <2>3 DEF LiveInv
<1>3. ASSUME NEW x \in Requests, AddSeqGroup(x) PROVE Seated' \subseteq Seated
  BY <1>0, <1>1, <1>3, AddShape
<1>4. ASSUME Quiet PROVE Seated' \subseteq Seated
  BY <1>0, <1>4 DEF Quiet
<1>5. ASSUME NEW x \in Requests, NEW st, Turns(x, st) PROVE Seated' \subseteq Seated
  BY <1>0, <1>1, <1>5 DEF Turns, Moves, Changes
<1>6. ASSUME NEW x \in Requests, Recomputes(x) PROVE Seated' \subseteq Seated
  BY <1>0, <1>1, <1>6 DEF Recomputes, Moves
<1>7. ASSUME ExecutePrefill \/ ExecuteDecode PROVE Seated' \subseteq Seated
  <2>1. PICK stopped : status' = [r \in Requests |-> IF r \in stopped THEN "FINISHED" ELSE status[r]]
    BY <1>7, OutputShape
  <2> QED
    BY <1>0, <2>1
<1>8. ASSUME NEW x \in Requests, Admits(x) PROVE LiveInv'
  <2>1. /\ status' = [status EXCEPT ![x] = "RUNNING"] /\ phase = "prefills" /\ batch.prefills = <<>>
        /\ Len(running) + 1 <= MaxNumSeqs
    BY <1>8 DEF Admits, Moves, AdmitPrefill, CanSchedule
  <2>2. running \in Seq(Requests) /\ swapped = <<>> /\ batch.decodes = <<>> /\ batch.swapped_out = <<>>
    BY <2>1 DEF SchedInv, PhaseInv, TypeOK
  <2>3. Scheduled = <<>>
    <3>1. <<>> \o <<>> = <<>>
      OBVIOUS
    <3> QED
      BY <2>1, <2>2, <3>1 DEF Scheduled
  <2>4. Seated \subseteq Range(running)
    <3>1. Counts(client_waiting_queues, running, Scheduled, swapped,
                 batch.preempted, batch.swapped_out, status)
      BY PlacesNow DEF SchedInv
    <3>2. \A r : Times(r, <<>>) = 0
      BY TimesEmpty
    <3>3. ASSUME NEW r \in Seated PROVE Times(r, running) # 0
      <4>1. r \in Requests /\ Times(r, swapped) + Times(r, batch.swapped_out) = 0
        BY <1>0, <2>2, <3>2
      <4>2. status[r] = "RUNNING"
        BY <1>0, <3>1, <4>1 DEF Counts
      <4>3. Times(r, running) + Times(r, Scheduled) = 1
        BY <3>1, <4>1, <4>2 DEF Counts
      <4> QED
        BY <2>3, <3>2, <4>3
    <3>4. \A r : (Times(r, running) = 0) <=> (r \notin Range(running))
      BY <2>2, TimesType
    <3>5. \A r \in Seated : r \in Range(running)
      BY <3>3, <3>4
    <3> QED
      BY <3>5
  <2>5. Cardinality(Seated) <= Len(running) /\ Len(running) \in Nat
    <3>1. DOMAIN running = 1 .. Len(running) /\ Len(running) \in Nat
      BY <2>2
    <3>3. PICK n \in Nat : n = Len(running)
      BY <3>1
    <3>2. IsFiniteSet(1 .. n) /\ Cardinality(1 .. n) = n
      BY FS_Interval
    <3>4. \A r \in Range(running) : \E i \in 1 .. n : running[i] = r
      BY <3>1, <3>3 DEF Range
    <3>5. running \in [1 .. n -> Range(running)]
      <4>1. running = [i \in 1 .. n |-> running[i]]
        BY <2>2, <3>1, <3>3
      <4>2. \A i \in 1 .. n : running[i] \in Range(running)
        BY <3>1, <3>3 DEF Range
      <4> QED
        BY <4>1, <4>2
    <3>6. running \in Surjection(1 .. n, Range(running))
      BY <3>4, <3>5 DEF Surjection
    <3>7. IsFiniteSet(Range(running)) /\ Cardinality(Range(running)) <= n
      BY <3>2, <3>3, <3>6, FS_Surjection
    <3>8. Seated \in SUBSET Range(running)
      BY <2>4
    <3>9. Cardinality(Seated) <= Cardinality(Range(running))
      BY <3>7, <3>8, FS_Subset
    <3>10. Cardinality(Range(running)) \in Nat
      BY <3>7, FS_CardinalityType
    <3> QED
      BY <1>1, <3>1, <3>3, <3>7, <3>9, <3>10
  <2>6. Seated' = Seated \cup {x}
    BY <1>0, <1>1, <2>1
  <2>7. Cardinality(Seated \cup {x}) = IF x \in Seated THEN Cardinality(Seated) ELSE Cardinality(Seated) + 1
    BY <1>1, FS_AddElement
  <2>8. Cardinality(Seated \cup {x}) <= MaxNumSeqs
    BY <1>1, <2>1, <2>5, <2>7
  <2> QED
    BY <2>6, <2>8 DEF LiveInv
<1> QED
  BY <1>2, <1>3, <1>4, <1>5, <1>6, <1>7, <1>8, StepShape
-----------------------------------------------------------------------------
(***************************************************************************)
(* Bounded unfairness.                                                     *)
(***************************************************************************)
(* A client that waits is known to the scoreboard.                         *)
LEMMA WaitingClient ==
    ASSUME TypeOK, NEW d \in Backlogged(client_waiting_queues)
    PROVE  Requests # {} /\ d \in DOMAIN served /\ d \in Clients /\ served[d] \in Nat
<1>1. d \in DOMAIN client_waiting_queues /\ client_waiting_queues[d] # <<>>
  BY DEF Backlogged
<1>2. client_waiting_queues[d] \in Seq(Requests)
  BY <1>1 DEF TypeOK
<1>3. Head(client_waiting_queues[d]) \in Requests
  BY <1>1, <1>2
<1> QED
  BY <1>1, <1>3 DEF TypeOK

(* A group that is not seated anew, and for which no token is taken back,  *)
(* does not cost more than before.                                         *)
LEMMA CostsLess ==
    ASSUME SchedInv, BillInv, NEW r \in Requests, length'[r] = length[r],
           r \in Seated' => r \in Seated,
           Paid(r) => Paid(r)',
           r \in Range(batch'.prefills) /\ ~ preempted'[r] => r \in Range(batch.prefills) /\ ~ preempted[r]
    PROVE  TokensLeft'[r] <= TokensLeft[r] /\ PrefillDue'[r] <= PrefillDue[r]
<1>1. Left(r) \in Nat
  BY LeftBound
<1>2. length[r] \in Nat /\ PromptLen[r] \in Nat /\ MaxTokens \in Nat /\ PrefillWeight \in Nat
  BY SchedulerAssumption, QueueAssumption DEF SchedInv, TypeOK
<1>3. Left(r)' <= Left(r)
  <2>1. CASE r \in Seated'
    <3>1. /\ Left(r) = MaxTokens - (length[r] - PromptLen[r]) - (IF Paid(r) THEN 1 ELSE 0)
          /\ Left(r)' = MaxTokens - (length[r] - PromptLen[r]) - (IF Paid(r)' THEN 1 ELSE 0)
      BY <2>1 DEF Left
    <3> QED
      BY <1>2, <3>1
  <2>2. CASE r \notin Seated'
    <3>1. Left(r)' = 0
      BY <2>2 DEF Left
    <3> QED
      BY <1>1, <3>1
  <2> QED
    BY <2>1, <2>2
<1>4. PrefillDue'[r] <= PrefillDue[r]
  <2>1. PrefillWeight * PromptLen[r] \in Nat
    BY <1>2
  <2> QED
    BY <2>1 DEF PrefillDue
<1> QED
  BY <1>3, <1>4 DEF TokensLeft

(* If no group of a client costs more, all of them together do not.        *)
LEMMA DueLess ==
    ASSUME DueOK, DueOK', NEW c \in Clients,
           \A r \in OwnedBy(c) : TokensLeft'[r] <= TokensLeft[r] /\ PrefillDue'[r] <= PrefillDue[r]
    PROVE  Due(c)' <= Due(c)
<1>1. PICK f \in [Requests -> Nat], g \in [Requests -> Nat], p \in [Requests -> Nat], q \in [Requests -> Nat] :
        f = TokensLeft /\ g = TokensLeft' /\ p = PrefillDue /\ q = PrefillDue'
  BY DEF DueOK
<1>2. PICK G : G = OwnedBy(c) /\ G \subseteq Requests
  BY OwnedType
<1>3. Held(g, G) <= Held(f, G) /\ Held(q, G) <= Held(p, G)
  BY <1>1, <1>2, HeldMonotone
<1>4. Held(g, G) \in Nat /\ Held(f, G) \in Nat /\ Held(q, G) \in Nat /\ Held(p, G) \in Nat
  BY <1>2, HeldType
<1>5. PICK w \in Nat : w = DecodeWeight
  BY QueueAssumption
<1>6. \A i, j, k, l \in Nat : i <= j /\ k <= l => k + w * i <= l + w * j
  <2>1. ASSUME NEW i \in Nat, NEW j \in Nat, NEW k \in Nat, NEW l \in Nat, i <= j, k <= l
        PROVE  k + w * i <= l + w * j
    <3>1. j - i \in Nat
      BY <2>1
    <3>2. w * (j - i) \in Nat /\ w * i \in Nat /\ w * j \in Nat
      BY <3>1
    <3>3. w * j = w * i + w * (j - i)
      OBVIOUS
    <3> QED
      BY <2>1, <3>2, <3>3
  <2> QED
    BY <2>1
<1>7. Held(q, G) + w * Held(g, G) <= Held(p, G) + w * Held(f, G)
  BY <1>3, <1>4, <1>6
<1>8. Due(c) = Held(p, G) + w * Held(f, G) /\ Due(c)' = Held(q, G) + w * Held(g, G)
  BY <1>1, <1>2, <1>5 DEF Due, OwnedBy
<1> QED
  BY <1>7, <1>8

(* A step that admits nobody, and charges no client more than was due.     *)
LEMMA ShareFrame ==
    ASSUME SchedInv, SchedInv', DueOK, DueOK', ShareInv, ServedGrows,
           \A c \in Clients : c \in DOMAIN served => served'[c] + Due(c)' <= served[c] + Due(c),
           \A c \in Clients : overtaken'[c] \subseteq overtaken[c] \cap Backlogged(client_waiting_queues')
    PROVE  ShareInv'
<1> SUFFICES ASSUME NEW c \in Clients, NEW d \in overtaken'[c]
             PROVE  /\ d \in Backlogged(client_waiting_queues') /\ c # d
                    /\ c \in DOMAIN served'
                    /\ served'[c] + Due(c)' <= served'[d] + Slack
  BY DEF ShareInv
<1>1. /\ d \in Backlogged(client_waiting_queues) /\ c # d /\ c \in DOMAIN served
      /\ served[c] + Due(c) <= served[d] + Slack
  BY DEF ShareInv
<1>2. Requests # {} /\ d \in DOMAIN served /\ served[d] \in Nat
  BY <1>1, WaitingClient DEF SchedInv
<1>3. c \in DOMAIN served' /\ served[d] <= served'[d]
  BY <1>1, <1>2 DEF ServedGrows
<1>4. /\ served[c] \in Nat /\ served'[c] \in Nat /\ served'[d] \in Nat
      /\ Due(c) \in Nat /\ Due(c)' \in Nat /\ Slack \in Nat
  BY <1>1, <1>2, <1>3 DEF SchedInv, TypeOK, DueOK, ServedGrows
<1>5. served'[c] + Due(c)' <= served'[d] + Slack
  BY <1>1, <1>2, <1>3, <1>4
<1> QED
  BY <1>1, <1>3, <1>5
(* Who is overtaken after the step.                                        *)
LEMMA OvertakenIs ==
    ASSUME SchedInv, Next, Record
    PROVE  /\ overtaken' \in [Clients -> SUBSET Clients]
           /\ (\A x \in Requests : ~ Admits(x)) =>
                \A c \in Clients : overtaken'[c] = overtaken[c] \cap Backlogged(client_waiting_queues')
           /\ \A x \in Requests : Admits(x) =>
                \A c \in Clients :
                    overtaken'[c] = (IF c = ClientOf[x] THEN Clients \ {c} ELSE overtaken[c])
                                    \cap Backlogged(client_waiting_queues')
<1> DEFINE P(c) == (IF c \in Admitted THEN Clients \ {c} ELSE overtaken[c])
                   \cap Backlogged(client_waiting_queues')
<1>1. overtaken' = [c \in Clients |-> P(c)]
  BY DEF Record
<1>2. status \in [Requests -> Statuses]
  BY DEF SchedInv, TypeOK
<1>3. Backlogged(client_waiting_queues') \subseteq Clients
  <2>1. SchedInv'
    BY StepKeeps
  <2> QED
    BY <2>1 DEF SchedInv, TypeOK, Backlogged
<1>4. ASSUME \A x \in Requests : ~ Admits(x) PROVE Admitted = {}
  <2>1. SUFFICES ASSUME NEW q \in Requests, status[q] = "WAITING", status'[q] = "RUNNING" PROVE FALSE
    BY DEF Admitted
  <2>2. ASSUME NEW x \in Requests, AddSeqGroup(x) PROVE FALSE
    BY <1>2, <2>1, <2>2, AddShape
  <2>3. CASE Quiet
    BY <2>1, <2>3 DEF Quiet
  <2>4. ASSUME NEW x \in Requests, NEW st, Turns(x, st) PROVE FALSE
    BY <1>2, <2>1, <2>4 DEF Turns, Moves, Changes
  <2>5. ASSUME NEW x \in Requests, Recomputes(x) PROVE FALSE
    BY <1>2, <2>1, <2>5 DEF Recomputes, Moves
  <2>6. CASE ExecutePrefill \/ ExecuteDecode
    <3>1. PICK stopped : status' = [r \in Requests |-> IF r \in stopped THEN "FINISHED" ELSE status[r]]
      BY <2>6, OutputShape
    <3> QED
      BY <2>1, <3>1
  <2> QED
    BY <1>4, <2>2, <2>3, <2>4, <2>5, <2>6, StepShape
<1>5. ASSUME NEW x \in Requests, Admits(x) PROVE Admitted = {ClientOf[x]}
  <2>1. status' = [status EXCEPT ![x] = "RUNNING"] /\ status[x] = "WAITING"
    BY <1>5 DEF Admits, Moves
  <2>2. {q \in Requests : status[q] = "WAITING" /\ status'[q] = "RUNNING"} = {x}
    BY <1>2, <2>1
  <2> QED
    BY <2>2 DEF Admitted
<1>6. \A c \in Clients : overtaken'[c] = P(c)
  BY <1>1
<1>7. overtaken' \in [Clients -> SUBSET Clients]
  BY <1>1, <1>3
<1>8. ASSUME \A x \in Requests : ~ Admits(x), NEW c \in Clients
      PROVE  overtaken'[c] = overtaken[c] \cap Backlogged(client_waiting_queues')
  BY <1>4, <1>6, <1>8
<1>9. ASSUME NEW x \in Requests, Admits(x), NEW c \in Clients
      PROVE  overtaken'[c] = (IF c = ClientOf[x] THEN Clients \ {c} ELSE overtaken[c])
                             \cap Backlogged(client_waiting_queues')
  <2>1. c \in Admitted <=> c = ClientOf[x]
    BY <1>5, <1>9
  <2> QED
    BY <1>6, <2>1
<1> QED
  BY <1>7, <1>8, <1>9

(* The steps that neither admit nor charge nor lift.                       *)
LEMMA ShareQuiet ==
    ASSUME SchedInv, SchedInv', BillInv, DueOK, DueOK', ShareInv, ServedGrows, served' = served,
           \/ Quiet /\ phase' # "execute"
           \/ \E x \in Requests, st \in {"FINISHED", "SWAPPED", "RUNNING"} : Turns(x, st)
           \/ \E x \in Requests : Recomputes(x),
           \A c \in Clients : overtaken'[c] \subseteq overtaken[c] \cap Backlogged(client_waiting_queues')
    PROVE  ShareInv'
<1>0. /\ Seated' = {r \in Requests : status'[r] \in {"RUNNING", "SWAPPED"}}
      /\ Seated = {r \in Requests : status[r] \in {"RUNNING", "SWAPPED"}}
      /\ status \in [Requests -> Statuses] /\ preempted \in [Requests -> BOOLEAN]
  BY DEF Seated, Having, SchedInv, TypeOK
<1>1. ASSUME NEW r \in Requests
      PROVE  /\ length'[r] = length[r] /\ (r \in Seated' => r \in Seated)
             /\ Paid(r) => Paid(r)'
             /\ r \in Range(batch'.prefills) /\ ~ preempted'[r] =>
                    r \in Range(batch.prefills) /\ ~ preempted[r]
  <2>1. CASE Quiet /\ phase' # "execute"
    <3>1. /\ UNCHANGED <<status, length, preempted>> /\ batch'.prefills = batch.prefills
          /\ phase # "execute" /\ phase' # "execute"
      BY <2>1 DEF Quiet
    <3> QED
      BY <1>0, <3>1 DEF Paid
  <2>2. ASSUME NEW x \in Requests, NEW st, Turns(x, st)
        PROVE  /\ length'[r] = length[r] /\ (r \in Seated' => r \in Seated)
               /\ Paid(r) => Paid(r)'
               /\ r \in Range(batch'.prefills) /\ ~ preempted'[r] =>
                      r \in Range(batch.prefills) /\ ~ preempted[r]
    <3>1. /\ status' = [status EXCEPT ![x] = st] /\ UNCHANGED <<length, preempted>>
          /\ batch'.prefills = batch.prefills /\ phase # "execute" /\ phase' # "execute"
          /\ <<status[x], st>> \in Changes
      BY <2>2 DEF Turns, Moves
    <3>2. r \in Seated' => r \in Seated
      BY <1>0, <3>1 DEF Changes
    <3> QED
      BY <3>1, <3>2 DEF Paid
  <2>3. ASSUME NEW x \in Requests, Recomputes(x)
        PROVE  /\ length'[r] = length[r] /\ (r \in Seated' => r \in Seated)
               /\ Paid(r) => Paid(r)'
               /\ r \in Range(batch'.prefills) /\ ~ preempted'[r] =>
                      r \in Range(batch.prefills) /\ ~ preempted[r]
    <3>1. /\ status' = [status EXCEPT ![x] = "WAITING"] /\ length' = length /\ batch'.prefills = <<>>
          /\ batch.prefills = <<>> /\ phase # "execute" /\ phase' # "execute"
      BY <2>3 DEF Recomputes, Moves
    <3>2. r \in Seated' => r \in Seated
      BY <1>0, <3>1
    <3>3. Range(<<>>) = {}
      BY DEF Range
    <3> QED
      BY <3>1, <3>2, <3>3 DEF Paid
  <2> QED
    BY <2>1, <2>2, <2>3
<1>2. \A r \in Requests : TokensLeft'[r] <= TokensLeft[r] /\ PrefillDue'[r] <= PrefillDue[r]
  BY <1>1, CostsLess
<1>3. ASSUME NEW c \in Clients, c \in DOMAIN served PROVE served'[c] + Due(c)' <= served[c] + Due(c)
  <2>1. Due(c)' <= Due(c)
    BY <1>2, OwnedType, DueLess
  <2>2. Due(c) \in Nat /\ Due(c)' \in Nat /\ served[c] \in Nat
    BY <1>3 DEF DueOK, SchedInv, TypeOK
  <2> QED
    BY <2>1, <2>2
<1> QED
  BY <1>3, ShareFrame

(* Adding a request lifts its client, but not above one that waits.        *)
LEMMA ShareAdd ==
    ASSUME SchedInv, SchedInv', BillInv, DueOK, DueOK', ShareInv, ServedGrows,
           NEW x \in Requests, AddSeqGroup(x),
           \A c \in Clients : overtaken'[c] \subseteq overtaken[c] \cap Backlogged(client_waiting_queues')
    PROVE  ShareInv'
<1>0. /\ Seated' = {r \in Requests : status'[r] \in {"RUNNING", "SWAPPED"}}
      /\ Seated = {r \in Requests : status[r] \in {"RUNNING", "SWAPPED"}}
      /\ status \in [Requests -> Statuses]
  BY DEF Seated, Having, SchedInv, TypeOK
<1>1. /\ phase # "execute" /\ phase' # "execute"
      /\ status' = [status EXCEPT ![x] = "WAITING"] /\ UNCHANGED <<length, preempted, batch>>
  BY AddShape
<1>2. ASSUME NEW r \in Requests
      PROVE  TokensLeft'[r] <= TokensLeft[r] /\ PrefillDue'[r] <= PrefillDue[r]
  <2>1. r \in Seated' => r \in Seated
    BY <1>0, <1>1
  <2> QED
    BY <1>1, <2>1, CostsLess DEF Paid
<1>3. PICK c0 \in Clients : c0 = ClientOf[x]
  BY QueueAssumption
<1>4. PICK q : q = client_waiting_queues'
  OBVIOUS
<1>5. /\ served' = Lifted(q, served, c0) /\ q = Appended(client_waiting_queues, x)
  BY <1>3, <1>4 DEF AddSeqGroup
<1>6. DOMAIN q = DOMAIN served \cup {c0} /\ served \in [DOMAIN served -> Nat]
  <2>1. Queues(client_waiting_queues) /\ DOMAIN served = DOMAIN client_waiting_queues
        /\ served \in [DOMAIN served -> Nat]
    BY DEF SchedInv, TypeOK, Queues
  <2> QED
    BY <1>3, <1>5, <2>1, AppendedPlaces
<1>7. /\ \A d \in DOMAIN served \ {c0} : served'[d] = served[d]
      /\ served'[c0] = Lookup(served, c0, 0) \/ \A d \in Backlogged(q) \ {c0} : served'[c0] <= served[d]
  BY <1>5, <1>6, LiftedIs
<1> SUFFICES ASSUME NEW c \in Clients, NEW d \in overtaken'[c]
             PROVE  /\ d \in Backlogged(client_waiting_queues') /\ c # d
                    /\ c \in DOMAIN served'
                    /\ served'[c] + Due(c)' <= served'[d] + Slack
  BY DEF ShareInv
<1>8. /\ d \in Backlogged(client_waiting_queues) /\ c # d /\ c \in DOMAIN served /\ d \in Backlogged(q)
      /\ served[c] + Due(c) <= served[d] + Slack
  BY <1>4 DEF ShareInv
<1>9. Requests # {} /\ d \in DOMAIN served /\ served[d] \in Nat
  BY <1>8, WaitingClient DEF SchedInv
<1>10. c \in DOMAIN served' /\ served[d] <= served'[d]
  BY <1>8, <1>9 DEF ServedGrows
<1>11. /\ served[c] \in Nat /\ served'[c] \in Nat /\ served'[d] \in Nat
       /\ Due(c) \in Nat /\ Due(c)' \in Nat /\ Slack \in Nat /\ Due(c) <= Slack
  BY <1>8, <1>9, <1>10 DEF SchedInv, TypeOK, DueOK, ServedGrows
<1>12. Due(c)' <= Due(c)
  BY <1>2, OwnedType, DueLess
<1>13. served'[c] = served[c] \/ served'[c] <= served[d]
  BY <1>7, <1>8 DEF Lookup
<1>14. served'[c] + Due(c)' <= served'[d] + Slack
  BY <1>8, <1>9, <1>10, <1>11, <1>12, <1>13
<1> QED
  BY <1>4, <1>8, <1>10, <1>14

(* Admitting a prefill: its client is behind all that wait, and it can be  *)
(* charged Slack at most.                                                  *)
LEMMA ShareAdmit ==
    ASSUME SchedInv, SchedInv', BillInv, DueOK, DueOK', ShareInv, ServedGrows,
           NEW x \in Requests, Admits(x),
           \A c \in Clients :
              overtaken'[c] = (IF c = ClientOf[x] THEN Clients \ {c} ELSE overtaken[c])
                              \cap Backlogged(client_waiting_queues')
    PROVE  ShareInv'
<1>0. /\ Seated' = {r \in Requests : status'[r] \in {"RUNNING", "SWAPPED"}}
      /\ Seated = {r \in Requests : status[r] \in {"RUNNING", "SWAPPED"}}
      /\ status \in [Requests -> Statuses]
  BY DEF Seated, Having, SchedInv, TypeOK
<1>1. /\ phase # "execute" /\ phase' # "execute" /\ served' = served
      /\ status' = [status EXCEPT ![x] = "RUNNING"] /\ UNCHANGED <<length, preempted>>
      /\ batch.prefills = <<>> /\ batch'.prefills = <<x>>
      /\ ClientOf[x] \in HeadClients(client_waiting_queues, served)
      /\ client_waiting_queues' = PopLeft(client_waiting_queues, ClientOf[x])
  BY DEF Admits, Moves
<1>2. Range(batch.prefills) = {} /\ Range(batch'.prefills) = {x}
  BY <1>1 DEF Range
<1>3. ASSUME NEW r \in Requests, r # x
      PROVE  TokensLeft'[r] <= TokensLeft[r] /\ PrefillDue'[r] <= PrefillDue[r]
  <2>1. r \in Seated' => r \in Seated
    BY <1>0, <1>1, <1>3
  <2>2. /\ Paid(r) => Paid(r)'
        /\ r \notin Range(batch'.prefills)
    BY <1>1, <1>2, <1>3 DEF Paid
  <2> QED
    BY <1>1, <2>1, <2>2, CostsLess
<1>4. PICK c0 \in Clients : c0 = ClientOf[x]
  BY QueueAssumption
<1>5. /\ c0 \in DOMAIN client_waiting_queues
      /\ \A d \in Backlogged(client_waiting_queues) : served[c0] <= served[d]
  BY <1>1, <1>4 DEF HeadClients, Backlogged
<1>6. \A d \in Backlogged(client_waiting_queues') \ {c0} : d \in Backlogged(client_waiting_queues)
  BY <1>1, <1>4 DEF PopLeft, Backlogged
<1> SUFFICES ASSUME NEW c \in Clients, NEW d \in overtaken'[c]
             PROVE  /\ d \in Backlogged(client_waiting_queues') /\ c # d
                    /\ c \in DOMAIN served'
                    /\ served'[c] + Due(c)' <= served'[d] + Slack
  BY DEF ShareInv
<1>7. d \in Backlogged(client_waiting_queues')
  OBVIOUS
<1>8. CASE c = c0
  <2>1. d # c0 /\ d \in Backlogged(client_waiting_queues)
    BY <1>4, <1>6, <1>7, <1>8
  <2>2. Requests # {} /\ d \in DOMAIN served /\ served[d] \in Nat
    BY <2>1, WaitingClient DEF SchedInv
  <2>3. served[c0] <= served[d] /\ c0 \in DOMAIN served /\ served[c0] \in Nat
    BY <1>5, <2>1 DEF SchedInv, TypeOK
  <2>4. Due(c)' \in Nat /\ Due(c)' <= Slack /\ Slack \in Nat
    BY <2>2 DEF DueOK
  <2>5. served[c0] + Due(c)' <= served[d] + Slack
    BY <2>2, <2>3, <2>4
  <2> QED
    BY <1>1, <1>7, <1>8, <2>1, <2>3, <2>5
<1>9. CASE c # c0
  <2>1. d \in overtaken[c]
    BY <1>4, <1>9
  <2>2. /\ d \in Backlogged(client_waiting_queues) /\ c # d /\ c \in DOMAIN served
        /\ served[c] + Due(c) <= served[d] + Slack
    BY <2>1 DEF ShareInv
  <2>3. Requests # {} /\ d \in DOMAIN served /\ served[d] \in Nat
    BY <2>2, WaitingClient DEF SchedInv
  <2>4. \A r \in OwnedBy(c) : r \in Requests /\ r # x
    BY <1>4, <1>9 DEF OwnedBy
  <2>5. Due(c)' <= Due(c)
    BY <1>3, <2>4, DueLess
  <2>6. Due(c) \in Nat /\ Due(c)' \in Nat /\ Slack \in Nat /\ served[c] \in Nat
    BY <2>2, <2>3 DEF DueOK, SchedInv, TypeOK
  <2>7. served[c] + Due(c)' <= served[d] + Slack
    BY <2>2, <2>3, <2>5, <2>6
  <2> QED
    BY <1>1, <1>7, <2>2, <2>7
<1> QED
  BY <1>8, <1>9
(* The decode charge: what it adds to the scoreboard is no longer due.     *)
LEMMA ShareCommit ==
    ASSUME SchedInv, SchedInv', BillInv, DueOK, DueOK', ShareInv, ServedGrows, Commit,
           \A c \in Clients : overtaken'[c] \subseteq overtaken[c] \cap Backlogged(client_waiting_queues')
    PROVE  ShareInv'
<1>0. /\ Seated' = {r \in Requests : status'[r] \in {"RUNNING", "SWAPPED"}}
      /\ Seated = {r \in Requests : status[r] \in {"RUNNING", "SWAPPED"}}
  BY DEF Seated, Having
<1>1. /\ phase = "commit" /\ phase' = "execute" /\ UNCHANGED <<status, length, preempted>>
      /\ served' = IF batch.prefills = <<>> THEN DecodeCharged(served, batch.decodes) ELSE served
      /\ batch' = [batch EXCEPT !.preempted = <<>>, !.swapped_out = <<>>]
  BY DEF Commit
<1>2. /\ batch'.prefills = batch.prefills /\ batch'.decodes = batch.decodes
      /\ batch.decodes \in Seq(Requests)
  <2>1. DOMAIN batch = {"prefills", "decodes", "preempted", "swapped_out"}
        /\ batch.decodes \in Seq(Requests)
    BY ListType DEF SchedInv
  <2> QED
    BY <1>1, <2>1
<1>3. Seated' = Seated
  BY <1>0, <1>1
<1>4. ASSUME NEW r \in Requests
      PROVE  TokensLeft'[r] <= TokensLeft[r] /\ PrefillDue'[r] <= PrefillDue[r]
  <2>1. Paid(r) => Paid(r)'
    BY <1>1, <1>2 DEF Paid
  <2> QED
    BY <1>1, <1>2, <1>3, <2>1, CostsLess
<1>5. ASSUME NEW c \in Clients, c \in DOMAIN served PROVE served'[c] + Due(c)' <= served[c] + Due(c)
  <2>1. Due(c) \in Nat /\ Due(c)' \in Nat /\ served[c] \in Nat
    BY <1>5 DEF DueOK, SchedInv, TypeOK
  <2>2. CASE batch.prefills # <<>>
    <3>1. Due(c)' <= Due(c)
      BY <1>4, OwnedType, DueLess
    <3> QED
      BY <1>1, <2>1, <2>2, <3>1
  <2>3. CASE batch.prefills = <<>>
    <3>1. PICK f \in [Requests -> Nat], g \in [Requests -> Nat], p \in [Requests -> Nat], q \in [Requests -> Nat] :
            f = TokensLeft /\ g = TokensLeft' /\ p = PrefillDue /\ q = PrefillDue'
      BY DEF DueOK
    <3>2. PICK G : G = OwnedBy(c) /\ G \subseteq Requests
      BY OwnedType
    <3>3. PICK list \in Seq(Requests) : list = batch.decodes
      BY <1>2
    <3>4. \A r \in Requests : Times(r, list) <= 1
      <4>1. Counts(client_waiting_queues, running, Scheduled, swapped,
                   batch.preempted, batch.swapped_out, status)
        BY PlacesNow DEF SchedInv
      <4>2. Scheduled = list
        <5>1. <<>> \o list = list
          OBVIOUS
        <5> QED
          BY <1>1, <2>3, <3>3, <5>1 DEF Scheduled
      <4>3. ASSUME NEW r \in Requests PROVE Times(r, list) <= 1
        <5>1. Times(r, running) + Times(r, list) = IF status[r] = "RUNNING" THEN 1 ELSE 0
          BY <4>1, <4>2 DEF Counts
        <5>2. running \in Seq(Requests)
          BY DEF SchedInv, TypeOK
        <5>3. Times(r, running) \in Nat /\ Times(r, list) \in Nat
          BY <5>2, TimesType
        <5> QED
          BY <5>1, <5>3
      <4> QED
        BY <4>3
    <3>5. \A r \in G \ Range(list) : g[r] <= f[r]
      BY <1>4, <3>1, <3>2
    <3>6. ASSUME NEW r \in G \cap Range(list) PROVE g[r] + 1 <= f[r]
      <4>1. r \in Requests /\ r \in Range(batch.decodes)
        BY <3>2, <3>3
      <4>2. status[r] = "RUNNING"
        BY <4>1, WhereIs DEF SchedInv
      <4>3. r \in Seated /\ r \in Seated'
        BY <1>0, <1>3, <4>1, <4>2
      <4>4. Range(batch.prefills) = {}
        BY <2>3 DEF Range
      <4>5. ~ Paid(r) /\ Paid(r)'
        BY <1>1, <1>2, <4>1, <4>4 DEF Paid
      <4>6. length[r] \in Nat /\ PromptLen[r] \in Nat /\ MaxTokens \in Nat
        BY <4>1, SchedulerAssumption DEF SchedInv, TypeOK
      <4>7. /\ Left(r) = MaxTokens - (length[r] - PromptLen[r]) - 0
            /\ Left(r)' = MaxTokens - (length[r] - PromptLen[r]) - 1
        BY <1>1, <4>3, <4>5 DEF Left
      <4>8. f[r] = Left(r) /\ g[r] = Left(r)'
        BY <3>1, <4>1 DEF TokensLeft
      <4> QED
        BY <4>6, <4>7, <4>8
    <3>7. Held(g, G) + Len(Kept(list, G)) <= Held(f, G)
      BY <3>2, <3>4, <3>5, <3>6, HeldDecrease
    <3>8. Held(q, G) <= Held(p, G)
      BY <1>4, <3>1, <3>2, HeldMonotone
    <3>9. PICK w \in Nat : w = DecodeWeight
      BY QueueAssumption
    <3>10. Due(c) = Held(p, G) + w * Held(f, G) /\ Due(c)' = Held(q, G) + w * Held(g, G)
      BY <3>1, <3>2, <3>9 DEF Due, OwnedBy
    <3>11. served'[c] = served[c] + w * Len(Kept(list, G)) /\ Len(Kept(list, G)) \in Nat
      <4>1. served \in [DOMAIN served -> Nat]
        BY DEF SchedInv, TypeOK
      <4>2. /\ Len(Kept(list, OwnedBy(c))) \in Nat
            /\ DecodeCharged(served, list)[c] = served[c] + DecodeWeight * Len(Kept(list, OwnedBy(c)))
        BY <1>5, <4>1, DecodeChargedIs
      <4> QED
        BY <1>1, <2>3, <3>2, <3>3, <3>9, <4>2
    <3>12. Held(g, G) \in Nat /\ Held(f, G) \in Nat /\ Held(q, G) \in Nat /\ Held(p, G) \in Nat
      BY <3>2, HeldType
    <3>13. ASSUME NEW i \in Nat, NEW j \in Nat, NEW k \in Nat, NEW l \in Nat, NEW m \in Nat, NEW s \in Nat,
                  i + k <= j, l <= m
           PROVE  (s + w * k) + (l + w * i) <= s + (m + w * j)
      <4>1. j - (i + k) \in Nat
        BY <3>13
      <4>2. w * (j - (i + k)) \in Nat /\ w * k \in Nat /\ w * i \in Nat /\ w * j \in Nat
        BY <4>1
      <4>3. w * j = w * i + w * k + w * (j - (i + k))
        OBVIOUS
      <4>4. PICK e \in Nat, a0 \in Nat, b0 \in Nat, d0 \in Nat :
              e = w * (j - (i + k)) /\ a0 = w * k /\ b0 = w * i /\ d0 = w * j
        BY <4>2
      <4>5. d0 = b0 + a0 + e
        BY <4>3, <4>4
      <4>6. (s + a0) + (l + b0) <= s + (m + d0)
        BY <3>13, <4>5
      <4> QED
        BY <4>4, <4>6
    <3>14. (served[c] + w * Len(Kept(list, G))) + (Held(q, G) + w * Held(g, G))
             <= served[c] + (Held(p, G) + w * Held(f, G))
      BY <2>1, <3>7, <3>8, <3>11, <3>12, <3>13
    <3> QED
      BY <3>10, <3>11, <3>14
  <2> QED
    BY <2>2, <2>3
<1> QED
  BY <1>5, ShareFrame

(* The model runs: a token was paid for before, and the charge of a        *)
(* prefill is no longer due.                                               *)
LEMMA ShareExecute ==
    ASSUME SchedInv, SchedInv', BillInv, DueOK, DueOK', ShareInv, ServedGrows,
           ExecutePrefill \/ ExecuteDecode, HitWeight <= PrefillWeight,
           \A c \in Clients : overtaken'[c] \subseteq overtaken[c] \cap Backlogged(client_waiting_queues')
    PROVE  ShareInv'
<1>0. /\ Seated' = {r \in Requests : status'[r] \in {"RUNNING", "SWAPPED"}}
      /\ Seated = {r \in Requests : status[r] \in {"RUNNING", "SWAPPED"}}
  BY DEF Seated, Having
<1>1. PICK B, stopped :
             /\ phase = "execute" /\ phase' = "idle"
             /\ B = Range(batch.prefills) \cup Range(batch.decodes)
             /\ stopped \subseteq B /\ B \subseteq Requests
             /\ length' = [r \in Requests |-> IF r \in B THEN length[r] + 1 ELSE length[r]]
             /\ status' = [r \in Requests |-> IF r \in stopped THEN "FINISHED" ELSE status[r]]
             /\ preempted' = preempted /\ batch' = NoBatch
             /\ ExecuteDecode => served' = served
  BY OutputShape
<1>2. Range(batch'.prefills) = {} /\ Range(batch'.decodes) = {}
  BY <1>1 DEF NoBatch, Range
<1>3. ASSUME NEW r \in Requests
      PROVE  TokensLeft'[r] <= TokensLeft[r] /\ PrefillDue'[r] = 0 /\ PrefillDue[r] \in Nat
  <2>1. Paid(r) <=> r \in B
    BY <1>1 DEF Paid
  <2>2. ~ Paid(r)'
    BY <1>2 DEF Paid
  <2>3. Left(r) \in Nat
    BY LeftBound
  <2>4. length[r] \in Nat /\ PromptLen[r] \in Nat /\ MaxTokens \in Nat
    BY SchedulerAssumption DEF SchedInv, TypeOK
  <2>5. Left(r)' <= Left(r)
    <3>1. CASE r \in Seated'
      <4>1. r \in Seated
        BY <1>0, <1>1, <3>1
      <4>2. /\ Left(r) = MaxTokens - (length[r] - PromptLen[r]) - (IF Paid(r) THEN 1 ELSE 0)
            /\ Left(r)' = MaxTokens - (length'[r] - PromptLen[r]) - (IF Paid(r)' THEN 1 ELSE 0)
        BY <3>1, <4>1 DEF Left
      <4>3. length'[r] = length[r] + (IF Paid(r) THEN 1 ELSE 0)
        BY <1>1, <2>1, <2>4
      <4>4. CASE Paid(r)
        <5>1. Left(r)' = MaxTokens - ((length[r] + 1) - PromptLen[r]) - 0
          BY <2>2, <4>2, <4>3, <4>4
        <5>2. Left(r) = MaxTokens - (length[r] - PromptLen[r]) - 1
          BY <4>2, <4>4
        <5> QED
          BY <2>4, <5>1, <5>2
      <4>5. CASE ~ Paid(r)
        <5>1. length'[r] = length[r]
          BY <2>4, <4>3, <4>5
        <5>2. Left(r)' = Left(r)
          BY <2>2, <4>2, <4>5, <5>1
        <5> QED
          BY <2>3, <5>2
      <4> QED
        BY <4>4, <4>5
    <3>2. CASE r \notin Seated'
      <4>1. Left(r)' = 0
        BY <3>2 DEF Left
      <4> QED
        BY <2>3, <4>1
    <3> QED
      BY <3>1, <3>2
  <2>6. PrefillDue'[r] = 0
    BY <1>2 DEF PrefillDue
  <2> QED
    BY <2>5, <2>6 DEF TokensLeft, DueOK
<1>4. ASSUME NEW c \in Clients, c \in DOMAIN served, served'[c] = served[c]
      PROVE  served'[c] + Due(c)' <= served[c] + Due(c)
  <2>1. \A r \in Requests : PrefillDue'[r] <= PrefillDue[r]
    BY <1>3
  <2>2. Due(c)' <= Due(c)
    BY <1>3, <2>1, OwnedType, DueLess
  <2>3. Due(c) \in Nat /\ Due(c)' \in Nat /\ served[c] \in Nat
    BY <1>4 DEF DueOK, SchedInv, TypeOK
  <2> QED
    BY <1>4, <2>2, <2>3
<1>5. ASSUME ExecutePrefill, NEW c \in Clients, c \in DOMAIN served, served'[c] # served[c]
      PROVE  served'[c] + Due(c)' <= served[c] + Due(c)
  <2>1. PICK x : x = Head(batch.prefills)
    OBVIOUS
  <2>2. /\ x \in Requests /\ x \in Range(batch.prefills)
        /\ \A d \in DOMAIN served \ {ClientOf[x]} : served'[d] = served[d]
        /\ \/ served'[ClientOf[x]] = served[ClientOf[x]]
           \/ /\ ~ preempted[x]
              /\ \E adj \in 0 .. length[x], credit \in Nat :
                   served'[ClientOf[x]] = served[ClientOf[x]]
                     + NonNegative(PrefillCost(adj, length[x] - adj) - credit)
    BY <1>5, <2>1, PrefillCharge
  <2>3. c = ClientOf[x]
    BY <1>5, <2>2
  <2>4. PICK adj \in 0 .. length[x], credit \in Nat :
          ~ preempted[x] /\ served'[c] = served[c] + NonNegative(PrefillCost(adj, length[x] - adj) - credit)
    BY <1>5, <2>2, <2>3
  <2>5. length[x] = PromptLen[x] /\ PromptLen[x] \in Nat
    <3>1. status[x] = "RUNNING"
      BY <2>2, WhereIs DEF SchedInv
    <3>2. Fresh(x)
      BY <2>2, <2>4 DEF Fresh
    <3> QED
      BY <2>2, <3>1, <3>2, SchedulerAssumption DEF BillInv, WellBilled
  <2>6. PICK n \in Nat, h \in Nat, v \in Nat : n = PromptLen[x] /\ h = HitWeight /\ v = PrefillWeight /\ h <= v
    BY <2>5, QueueAssumption
  <2>7. PrefillCost(adj, length[x] - adj) = h * adj + v * (n - adj) /\ adj \in Nat /\ n - adj \in Nat
    BY <2>5, <2>6 DEF PrefillCost
  <2>8. PICK cost \in Nat : cost = h * adj + v * (n - adj) /\ cost <= v * n /\ v * n \in Nat
    <3>1. v - h \in Nat
      BY <2>6
    <3>2. (v - h) * adj \in Nat /\ h * adj \in Nat /\ v * (n - adj) \in Nat /\ v * n \in Nat
      BY <2>7, <3>1
    <3>3. v * n = h * adj + (v - h) * adj + v * (n - adj)
      BY <2>7
    <3>4. h * adj + v * (n - adj) \in Nat /\ h * adj + v * (n - adj) <= v * n
      BY <3>2, <3>3
    <3> QED
      BY <3>2, <3>4
  <2>9. NonNegative(cost - credit) \in Nat /\ NonNegative(cost - credit) <= v * n
    <3>1. cost - credit \in Int
      OBVIOUS
    <3>2. /\ NonNegative(cost - credit) \in Nat
          /\ NonNegative(cost - credit) = IF cost - credit < 0 THEN 0 ELSE cost - credit
      BY <3>1, NonNegativeIs
    <3> QED
      BY <2>8, <3>2
  <2>10. served'[c] = served[c] + NonNegative(cost - credit)
    BY <2>4, <2>7, <2>8
  <2>11. PICK f \in [Requests -> Nat], g \in [Requests -> Nat], p \in [Requests -> Nat], q \in [Requests -> Nat] :
            f = TokensLeft /\ g = TokensLeft' /\ p = PrefillDue /\ q = PrefillDue'
    BY DEF DueOK
  <2>12. PICK G : G = OwnedBy(c) /\ G \subseteq Requests /\ x \in G
    <3>1. x \in OwnedBy(c)
      BY <2>2, <2>3 DEF OwnedBy
    <3> QED
      BY <3>1, OwnedType
  <2>13. Held(g, G) <= Held(f, G)
    BY <1>3, <2>11, <2>12, HeldMonotone
  <2>14. Held(q, G) = 0
    BY <1>3, <2>11, <2>12, HeldNone
  <2>15. v * n <= Held(p, G)
    <3>1. p[x] = v * n
      BY <2>2, <2>4, <2>6, <2>11 DEF PrefillDue
    <3>2. p[x] <= Held(p, G)
      BY <2>12, HeldTerm
    <3> QED
      BY <3>1, <3>2
  <2>16. PICK w \in Nat : w = DecodeWeight
    BY QueueAssumption
  <2>17. Due(c) = Held(p, G) + w * Held(f, G) /\ Due(c)' = Held(q, G) + w * Held(g, G)
    BY <2>11, <2>12, <2>16 DEF Due, OwnedBy
  <2>18. Held(g, G) \in Nat /\ Held(f, G) \in Nat /\ Held(p, G) \in Nat /\ served[c] \in Nat
    BY <1>5, <2>12, HeldType DEF SchedInv, TypeOK
  <2>19. ASSUME NEW i \in Nat, NEW j \in Nat, NEW k \in Nat, NEW l \in Nat, NEW m \in Nat, NEW s \in Nat,
                i <= j, k <= l, l <= m
         PROVE  (s + k) + (0 + w * i) <= s + (m + w * j)
    <3>1. j - i \in Nat
      BY <2>19
    <3>2. w * (j - i) \in Nat /\ w * i \in Nat /\ w * j \in Nat
      BY <3>1
    <3>3. w * j = w * i + w * (j - i)
      OBVIOUS
    <3> QED
      BY <2>19, <3>2, <3>3
  <2>20. PICK k \in Nat, l \in Nat : k = NonNegative(cost - credit) /\ l = v * n /\ k <= l
    BY <2>8, <2>9
  <2>21. (served[c] + k) + (0 + w * Held(g, G)) <= served[c] + (Held(p, G) + w * Held(f, G))
    BY <2>13, <2>15, <2>18, <2>19, <2>20
  <2> QED
    BY <2>10, <2>14, <2>17, <2>20, <2>21
<1>6. ASSUME NEW c \in Clients, c \in DOMAIN served PROVE served'[c] + Due(c)' <= served[c] + Due(c)
  BY <1>1, <1>4, <1>5, <1>6
<1> QED
  BY <1>6, ShareFrame
-----------------------------------------------------------------------------
(***************************************************************************)
(* The theorems.                                                           *)
(***************************************************************************)
HistoryOK == bills \in [Requests -> Nat]

(* The history variables and the invariants at the start.                  *)
LEMMA FairInit ==
    ASSUME MCInit
    PROVE  SchedInv /\ HistoryOK /\ BillInv /\ LiveInv /\ ShareInv
<1>1. SchedInv
  BY InitHolds DEF MCInit
<1>2. /\ bills = [r \in Requests |-> 0] /\ overtaken = [c \in Clients |-> {}]
      /\ status = [r \in Requests |-> "NEW"] /\ length = PromptLen
      /\ preempted = [r \in Requests |-> FALSE]
  BY DEF MCInit, Init
<1>3. PromptLen \in [Requests -> Nat \ {0}] /\ MaxTokens \in Nat \ {0} /\ MaxNumSeqs \in Nat
  BY SchedulerAssumption
<1>4. BillInv /\ HistoryOK
  <2>1. ASSUME NEW r \in Requests PROVE WellBilled(r)
    BY <1>2, <1>3 DEF WellBilled, Fresh
  <2> QED
    BY <1>2, <2>1 DEF BillInv, HistoryOK
<1>5. LiveInv
  <2>1. Seated = {}
    BY <1>2 DEF Seated, Having
  <2>2. Cardinality({}) = 0
    BY FS_EmptySet
  <2> QED
    BY <1>3, <2>1, <2>2 DEF LiveInv
<1>6. ShareInv
  BY <1>2 DEF ShareInv
<1> QED
  BY <1>1, <1>4, <1>5, <1>6

(* The inductive step.  The bound on the shares needs that a hit is not    *)
(* charged more than a miss.                                               *)
LEMMA FairStep ==
    ASSUME SchedInv, HistoryOK, BillInv, LiveInv, [MCNext]_mcVars
    PROVE  /\ SchedInv' /\ HistoryOK' /\ BillInv' /\ LiveInv'
           /\ ShareInv /\ HitWeight <= PrefillWeight => ShareInv'
<1>1. CASE MCNext
  <2>1. Next /\ Record
    BY <1>1 DEF MCNext
  <2>2. SchedInv' /\ ServedGrows
    BY <2>1, StepKeeps
  <2>3. BillInv' /\ HistoryOK'
    BY <2>1, BillKeeps DEF HistoryOK
  <2>4. LiveInv'
    BY <2>1, LiveKeeps
  <2>5. DueOK
    BY DueLimit
  <2>6. DueOK'
    BY <2>2, <2>3, <2>4, DueLimit, PTL
  <2>7. ASSUME ShareInv, HitWeight <= PrefillWeight PROVE ShareInv'
    <3>1. ASSUME NEW x \in Requests, Admits(x) PROVE ShareInv'
      <4>1. \A c \in Clients :
              overtaken'[c] = (IF c = ClientOf[x] THEN Clients \ {c} ELSE overtaken[c])
                              \cap Backlogged(client_waiting_queues')
        BY <2>1, <3>1, OvertakenIs
      <4> QED
        BY <2>2, <2>5, <2>6, <2>7, <3>1, <4>1, ShareAdmit
    <3>2. ASSUME \A x \in Requests : ~ Admits(x) PROVE ShareInv'
      <4>1. \A c \in Clients :
              overtaken'[c] \subseteq overtaken[c] \cap Backlogged(client_waiting_queues')
        BY <2>1, <3>2, OvertakenIs
      <4>2. ASSUME NEW x \in Requests, AddSeqGroup(x) PROVE ShareInv'
        BY <2>2, <2>5, <2>6, <2>7, <4>1, <4>2, ShareAdd
      <4>3. CASE ExecutePrefill \/ ExecuteDecode
        BY <2>2, <2>5, <2>6, <2>7, <4>1, <4>3, ShareExecute
      <4>4. CASE Commit
        BY <2>2, <2>5, <2>6, <2>7, <4>1, <4>4, ShareCommit
      <4>5. CASE Quiet /\ ~ Commit
        <5>1. served' = served /\ phase' # "execute"
          BY <4>5 DEF Quiet
        <5> QED
          BY <2>2, <2>5, <2>6, <2>7, <4>1, <4>5, <5>1, ShareQuiet
      <4>6. ASSUME NEW x \in Requests, NEW st \in {"FINISHED", "SWAPPED", "RUNNING"}, Turns(x, st)
            PROVE  ShareInv'
        <5>1. served' = served
          BY <4>6 DEF Turns, Moves
        <5> QED
          BY <2>2, <2>5, <2>6, <2>7, <4>1, <4>6, <5>1, ShareQuiet
      <4>7. ASSUME NEW x \in Requests, Recomputes(x) PROVE ShareInv'
        <5>1. served' = served
          BY <4>7 DEF Recomputes, Moves
        <5> QED
          BY <2>2, <2>5, <2>6, <2>7, <4>1, <4>7, <5>1, ShareQuiet
      <4> QED
        BY <2>1, <3>2, <4>2, <4>3, <4>4, <4>5, <4>6, <4>7, StepShape
    <3> QED
      BY <3>1, <3>2
  <2> QED
    BY <2>2, <2>3, <2>4, <2>7
<1>2. CASE UNCHANGED mcVars
  <2>1. UNCHANGED vars /\ UNCHANGED <<bills, overtaken>>
    BY <1>2 DEF mcVars
  <2>2. UNCHANGED <<client_waiting_queues, served, status, length, preempted, phase, batch>>
    BY <2>1 DEF vars
  <2>3. SchedInv'
    BY <2>1, StepKeeps
  <2>4. HistoryOK' /\ LiveInv'
    BY <2>1, <2>2 DEF HistoryOK, LiveInv, Seated, Having
  <2>5. BillInv'
    BY <2>1, <2>2 DEF BillInv, WellBilled, Fresh
  <2>6. ASSUME ShareInv PROVE ShareInv'
    <3>1. \A c : Due(c)' = Due(c)
      BY <2>2 DEF Due, TokensLeft, PrefillDue, Left, Paid, Seated, Having
    <3> QED
      BY <2>1, <2>2, <2>6, <3>1 DEF ShareInv
  <2> QED
    BY <2>3, <2>4, <2>5, <2>6
<1> QED
  BY <1>1, <1>2

(* A prefill is billed once, when the request first runs, however often it *)
(* is preempted and computed again (lmcache_retrieve_kv looks at the mark  *)
(* that _preempt_by_recompute sets).                                       *)
THEOREM PrefillsAreBilledOnce == MCSpec => []BilledOnce
<1> DEFINE Inv == SchedInv /\ HistoryOK /\ BillInv /\ LiveInv
<1>1. MCInit => Inv
  BY FairInit
<1>2. Inv /\ [MCNext]_mcVars => Inv'
  BY FairStep
<1>3. Inv => BilledOnce
  BY DEF BillInv, WellBilled, BilledOnce
<1> QED
  BY <1>1, <1>2, <1>3, PTL DEF MCSpec

(* The purpose of the scoreboard: as long as client d waits and c is not   *)
(* admitted again, c is charged at most Slack more than d, whatever the    *)
(* arrivals, hits, credits, lifts, aborts and preemptions.  A hit must not *)
(* be charged more than a miss: hit_weight is 0.02 and prefill_weight 0.1  *)
(* (cpi_req_queue.py).                                                     *)
THEOREM SharesAreFair ==
    ASSUME HitWeight <= PrefillWeight
    PROVE  MCSpec => []FairShare
<1>1. MCInit => FairInv /\ HistoryOK
  BY FairInit DEF FairInv
<1>2. FairInv /\ HistoryOK /\ [MCNext]_mcVars => (FairInv /\ HistoryOK)'
  BY FairStep DEF FairInv
<1>3. ASSUME FairInv PROVE FairShare
  <2>1. DueOK
    BY <1>3, DueLimit DEF FairInv
  <2>2. ASSUME NEW c \in Clients, NEW d \in overtaken[c] PROVE served[c] <= served[d] + Slack
    <3>1. /\ d \in Backlogged(client_waiting_queues) /\ c \in DOMAIN served
          /\ served[c] + Due(c) <= served[d] + Slack
      BY <1>3 DEF FairInv, ShareInv
    <3>2. Requests # {} /\ served[d] \in Nat
      BY <1>3, <3>1, WaitingClient DEF FairInv, SchedInv
    <3>3. served[c] \in Nat /\ Due(c) \in Nat /\ Slack \in Nat
      BY <1>3, <2>1, <3>1, <3>2 DEF FairInv, SchedInv, TypeOK, DueOK
    <3> QED
      BY <3>1, <3>2, <3>3
  <2> QED
    BY <2>2 DEF FairShare
<1> QED
  BY <1>1, <1>2, <1>3, PTL DEF MCSpec
-----------------------------------------------------------------------------
(***************************************************************************)
(* The order of a client's requests.                                       *)
(***************************************************************************)
(* x arrived before y.                                                     *)
Older(arr, x, y) == \E i, j \in DOMAIN arr : i < j /\ arr[i] = x /\ arr[j] = y

(* The elements of s that are in S are in the order of arrival, or in the  *)
(* opposite order.                                                         *)
InOrder(arr, S, s) ==
    \A i, j \in DOMAIN s : i < j /\ s[i] \in S /\ s[j] \in S => Older(arr, s[i], s[j])
BackOrder(arr, S, s) ==
    \A i, j \in DOMAIN s : i < j /\ s[i] \in S /\ s[j] \in S => Older(arr, s[j], s[i])

(* Those of X are older than those of Y.                                   *)
Precede(arr, S, X, Y) == \A x \in X, y \in Y : x \in S /\ y \in S => Older(arr, x, y)

(* The groups that run, in the order in which _schedule_running goes       *)
(* through them: those that have their slot, those that wait for it, and   *)
(* the prefill.                                                            *)
Ran == IF phase = "execute" THEN running ELSE (batch.decodes \o running) \o batch.prefills

Waiting(c) == Lookup(client_waiting_queues, c, <<>>)

(* What runs is older than what was preempted in this step, the last one   *)
(* first, and that is older than what waits.                               *)
OrderOf(arr, S, ran, pre, q) ==
    /\ InOrder(arr, S, ran) /\ BackOrder(arr, S, pre) /\ InOrder(arr, S, q)
    /\ Precede(arr, S, Range(ran), Range(pre))
    /\ Precede(arr, S, Range(ran), Range(q))
    /\ Precede(arr, S, Range(pre), Range(q))

(* Every request that was added arrived once.                              *)
ArrivalInv ==
    /\ arrivals \in Seq(Requests)
    /\ \A i, j \in DOMAIN arrivals : arrivals[i] = arrivals[j] => i = j
    /\ Range(arrivals) = {r \in Requests : status[r] # "NEW"}

OrderInv ==
    \A c \in Clients : OrderOf(arrivals, OwnedBy(c), Ran, batch.preempted, Waiting(c))
(* A later position has a higher rank.                                     *)
LEMMA RankMonotone ==
    ASSUME NEW m \in Nat, NEW I, I \subseteq 1 .. m, NEW i \in I, NEW j \in I, i <= j
    PROVE  Rank(I, i) <= Rank(I, j)
<1>1. IsFiniteSet(I)
  BY RankNumbers
<1>2. {k \in I : k <= i} \subseteq {k \in I : k <= j} /\ {k \in I : k <= j} \subseteq I
  <2>1. \A k \in I : k \in Int
    OBVIOUS
  <2>2. \A k \in I : k <= i => k <= j
    BY <2>1
  <2> QED
    BY <2>2
<1>3. IsFiniteSet({k \in I : k <= j})
  BY <1>1, <1>2, FS_Subset
<1> QED
  BY <1>2, <1>3, FS_Subset DEF Rank

(* The positions that Kept takes are taken in their order, and it takes    *)
(* all of them.                                                            *)
LEMMA KeptOrder ==
    ASSUME NEW s \in Seq(Requests), NEW S
    PROVE  \E f \in [DOMAIN Kept(s, S) -> DOMAIN s] :
             /\ \A i, j \in DOMAIN Kept(s, S) : i < j => f[i] < f[j]
             /\ \A i \in DOMAIN Kept(s, S) : Kept(s, S)[i] = s[f[i]] /\ s[f[i]] \in S
             /\ \A i \in DOMAIN s : s[i] \in S => \E n \in DOMAIN Kept(s, S) : f[n] = i
<1>1. DOMAIN s = 1 .. Len(s) /\ Len(s) \in Nat
  OBVIOUS
<1>2. PICK I : I = {i \in DOMAIN s : s[i] \in S}
  OBVIOUS
<1>3. I \subseteq 1 .. Len(s)
  BY <1>1, <1>2
<1>4. /\ IsFiniteSet(I) /\ Cardinality(I) \in Nat
      /\ \A i \in I : Rank(I, i) \in 1 .. Cardinality(I)
      /\ \A i, j \in I : Rank(I, i) = Rank(I, j) => i = j
      /\ \A n \in 1 .. Cardinality(I) : \E i \in I : Rank(I, i) = n
  BY <1>1, <1>3, RankNumbers
<1>5. PICK nth : nth = [n \in 1 .. Cardinality(I) |-> CHOOSE i \in I : Rank(I, i) = n]
  OBVIOUS
<1>6. \A n \in 1 .. Cardinality(I) : nth[n] \in I /\ Rank(I, nth[n]) = n
  BY <1>4, <1>5
<1>7. Kept(s, S) = [n \in 1 .. Cardinality(I) |-> s[nth[n]]]
  BY <1>2, <1>5 DEF Kept, Rank
<1>8. DOMAIN Kept(s, S) = 1 .. Cardinality(I)
  BY <1>7
<1>13. PICK D : D = DOMAIN Kept(s, S) /\ D = 1 .. Cardinality(I)
  BY <1>8
<1>9. nth \in [1 .. Cardinality(I) -> DOMAIN s]
  BY <1>2, <1>5, <1>6
<1>10. ASSUME NEW i \in 1 .. Cardinality(I), NEW j \in 1 .. Cardinality(I), i < j
       PROVE  nth[i] < nth[j]
  <2>1. SUFFICES ASSUME nth[j] <= nth[i] PROVE FALSE
    BY <1>1, <1>9
  <2>2. nth[i] \in I /\ nth[j] \in I /\ Rank(I, nth[i]) = i /\ Rank(I, nth[j]) = j
    BY <1>6
  <2>3. Rank(I, nth[j]) <= Rank(I, nth[i])
    BY <1>1, <1>3, <2>1, <2>2, RankMonotone
  <2> QED
    BY <1>4, <1>10, <2>2, <2>3
<1>11. \A n \in 1 .. Cardinality(I) : Kept(s, S)[n] = s[nth[n]] /\ s[nth[n]] \in S
  BY <1>2, <1>6, <1>7
<1>12. ASSUME NEW i \in DOMAIN s, s[i] \in S PROVE \E n \in 1 .. Cardinality(I) : nth[n] = i
  <2>1. i \in I
    BY <1>2, <1>12
  <2> QED
    BY <1>4, <1>6, <2>1
<1>14. /\ nth \in [D -> DOMAIN s]
       /\ \A i, j \in D : i < j => nth[i] < nth[j]
       /\ \A i \in D : Kept(s, S)[i] = s[nth[i]] /\ s[nth[i]] \in S
       /\ \A i \in DOMAIN s : s[i] \in S => \E n \in D : nth[n] = i
  BY <1>9, <1>10, <1>11, <1>12, <1>13
<1> QED
  BY <1>13, <1>14

(* Increasing maps, and maps with the same values.                         *)
Increasing(f, D) == \A i, j \in D : i < j => f[i] < f[j]
Numbers(f, D) == \A i \in D : f[i] \in Int
Covered(f, D, g, E) == \A i \in D : \E j \in E : g[j] = f[i]

(* An increasing map of 1 .. m onto 1 .. n is the identity.                *)
LEMMA IncreasingOnto ==
    ASSUME NEW m \in Nat, NEW n \in Nat, NEW f \in [1 .. m -> 1 .. n],
           Increasing(f, 1 .. m), \A j \in 1 .. n : \E i \in 1 .. m : f[i] = j
    PROVE  m = n /\ \A i \in 1 .. m : f[i] = i
<1> USE DEF Increasing
<1>1. SUFFICES ASSUME NEW x \in 1 .. m, f[x] # x PROVE FALSE
  <2>1. SUFFICES ASSUME \A i \in 1 .. m : f[i] = i PROVE m = n
    OBVIOUS
  <2>2. CASE m < n
    <3>1. n \in 1 .. n
      BY <2>2
    <3>2. PICK i \in 1 .. m : f[i] = n
      BY <3>1
    <3> QED
      BY <2>1, <2>2, <3>2
  <2>3. CASE n < m
    <3>1. m \in 1 .. m
      BY <2>3
    <3>2. f[m] = m /\ f[m] \in 1 .. n
      BY <2>1, <3>1
    <3> QED
      BY <2>3, <3>2
  <2> QED
    BY <2>2, <2>3
<1>2. \E i \in Nat : i \in 1 .. m /\ f[i] # i
  BY <1>1
<1>3. PICK i \in Nat : i \in 1 .. m /\ f[i] # i /\ \A j \in 1 .. m : f[j] # j => i <= j
  <2>1. PICK B : B = {j \in Nat : j \in 1 .. m /\ f[j] # j}
    OBVIOUS
  <2>2. B \subseteq Nat /\ B # {}
    BY <1>2, <2>1
  <2>3. PICK j \in B : \A h \in B : j <= h
    BY <2>2, LeastNat
  <2> QED
    BY <2>1, <2>3
<1>4. \A j \in 1 .. m : j < i => f[j] = j
  BY <1>3
<1>5. f[i] > i
  <2>1. CASE f[i] < i
    <3>1. f[i] \in 1 .. m /\ f[i] < i
      BY <1>3, <2>1
    <3>2. f[f[i]] = f[i] /\ f[f[i]] < f[i]
      BY <1>3, <1>4, <3>1
    <3> QED
      BY <1>3, <3>1, <3>2
  <2> QED
    BY <1>3, <2>1
<1>6. i \in 1 .. n
  BY <1>3, <1>5
<1>7. PICK h \in 1 .. m : f[h] = i
  BY <1>6
<1>8. CASE h < i
  BY <1>3, <1>4, <1>7, <1>8
<1>9. CASE h = i
  BY <1>3, <1>7, <1>9
<1>10. CASE h > i
  <2>1. f[i] < f[h]
    BY <1>3, <1>7, <1>10
  <2> QED
    BY <1>3, <1>5, <1>7, <2>1
<1> QED
  BY <1>3, <1>7, <1>8, <1>9, <1>10

(* Two increasing numberings of the same numbers are equal: the map from   *)
(* one to the other is increasing and onto.                                *)
LEMMA SameNumbering ==
    ASSUME NEW m \in Nat, NEW n \in Nat, NEW p, NEW k,
           Increasing(p, 1 .. m), Increasing(k, 1 .. n),
           Numbers(p, 1 .. m), Numbers(k, 1 .. n),
           Covered(p, 1 .. m, k, 1 .. n), Covered(k, 1 .. n, p, 1 .. m)
    PROVE  m = n /\ \A i \in 1 .. m : p[i] = k[i]
<1>3. PICK f : f = [i \in 1 .. m |-> CHOOSE j \in 1 .. n : k[j] = p[i]]
  OBVIOUS
<1>4. \A i \in 1 .. m : f[i] \in 1 .. n /\ k[f[i]] = p[i]
  BY <1>3 DEF Covered
<1>5. Increasing(f, 1 .. m)
  <2>1. ASSUME NEW i \in 1 .. m, NEW j \in 1 .. m, i < j, ~ (f[i] < f[j]) PROVE FALSE
    <3>1. p[i] < p[j] /\ p[i] \in Int /\ p[j] \in Int
      BY <2>1 DEF Increasing, Numbers
    <3>2. f[i] = f[j] \/ f[j] < f[i]
      BY <1>4, <2>1
    <3>3. k[f[i]] = k[f[j]] \/ k[f[j]] < k[f[i]]
      BY <1>4, <3>2 DEF Increasing
    <3> QED
      BY <1>4, <3>1, <3>3
  <2> QED
    BY <2>1 DEF Increasing
<1>6. \A j \in 1 .. n : \E i \in 1 .. m : f[i] = j
  <2>1. ASSUME NEW j \in 1 .. n PROVE \E i \in 1 .. m : f[i] = j
    <3>1. PICK i \in 1 .. m : k[j] = p[i]
      BY DEF Covered
    <3>2. k[f[i]] = k[j] /\ f[i] \in 1 .. n /\ k[j] \in Int
      BY <1>4, <3>1 DEF Numbers
    <3>3. CASE f[i] < j
      BY <3>2, <3>3 DEF Increasing
    <3>4. CASE j < f[i]
      BY <3>2, <3>4 DEF Increasing
    <3> QED
      BY <3>2, <3>3, <3>4
  <2> QED
    BY <2>1
<1>8. f \in [1 .. m -> 1 .. n]
  BY <1>3, <1>4
<1>7. m = n /\ \A i \in 1 .. m : f[i] = i
  BY <1>5, <1>6, <1>8, IncreasingOnto, SMTT(30)
<1> QED
  <2>1. ASSUME NEW i \in 1 .. m PROVE p[i] = k[i]
    <3>1. f[i] = i
      BY <1>7
    <3> QED
      BY <1>4, <3>1
  <2> QED
    BY <1>7, <2>1

(* A sequence without repetitions that is in the order of another one is   *)
(* what Kept takes from it.                                                *)
LEMMA OrderedIsKept ==
    ASSUME NEW arr \in Seq(Requests), NEW s \in Seq(Requests),
           \A i, j \in DOMAIN arr : arr[i] = arr[j] => i = j,
           Range(s) \subseteq Range(arr),
           \A i, j \in DOMAIN s : i < j => Older(arr, s[i], s[j])
    PROVE  s = Kept(arr, Range(s))
<1>1. PICK t \in Seq(Requests) : t = Kept(arr, Range(s))
  BY KeptTimes
<1>2. PICK m \in Nat : m = Len(s) /\ DOMAIN s = 1 .. m
  OBVIOUS
<1>3. PICK n \in Nat : n = Len(t) /\ DOMAIN t = 1 .. n
  OBVIOUS
<1>4. PICK S : S = Range(s)
  OBVIOUS
<1>5. PICK k \in [DOMAIN Kept(arr, S) -> DOMAIN arr] :
        /\ \A i, j \in DOMAIN Kept(arr, S) : i < j => k[i] < k[j]
        /\ \A i \in DOMAIN Kept(arr, S) : Kept(arr, S)[i] = arr[k[i]] /\ arr[k[i]] \in S
        /\ \A i \in DOMAIN arr : arr[i] \in S => \E l \in DOMAIN Kept(arr, S) : k[l] = i
  BY KeptOrder
<1>6. DOMAIN Kept(arr, S) = 1 .. n /\ Kept(arr, S) = t
  BY <1>1, <1>3, <1>4
<1>7. /\ k \in [1 .. n -> DOMAIN arr]
      /\ \A i, j \in 1 .. n : i < j => k[i] < k[j]
      /\ \A i \in 1 .. n : t[i] = arr[k[i]] /\ arr[k[i]] \in S
      /\ \A i \in DOMAIN arr : arr[i] \in S => \E l \in 1 .. n : k[l] = i
  BY <1>5, <1>6
<1>8. PICK p : p = [i \in 1 .. m |-> CHOOSE j \in DOMAIN arr : arr[j] = s[i]]
  OBVIOUS
<1>9. ASSUME NEW i \in 1 .. m PROVE p[i] \in DOMAIN arr /\ arr[p[i]] = s[i] /\ s[i] \in S
  <2>1. s[i] \in Range(s)
    BY <1>2 DEF Range
  <2>2. PICK y : y = s[i]
    OBVIOUS
  <2>3. \E j \in DOMAIN arr : arr[j] = y
    BY <2>1, <2>2 DEF Range
  <2>4. p[i] = CHOOSE j \in DOMAIN arr : arr[j] = y
    BY <1>8, <2>2
  <2>5. p[i] \in DOMAIN arr /\ arr[p[i]] = y
    BY <2>3, <2>4
  <2> QED
    BY <1>4, <2>1, <2>2, <2>5
<1>10. Increasing(p, 1 .. m)
  <2>1. ASSUME NEW i \in 1 .. m, NEW j \in 1 .. m, i < j PROVE p[i] < p[j]
    <3>3. Older(arr, s[i], s[j])
      BY <1>2, <2>1
    <3>1. PICK x \in DOMAIN arr, y \in DOMAIN arr : x < y /\ arr[x] = s[i] /\ arr[y] = s[j]
      BY <3>3 DEF Older
    <3>2. x = p[i] /\ y = p[j]
      BY <1>9, <3>1
    <3> QED
      BY <3>1, <3>2
  <2> QED
    BY <2>1 DEF Increasing
<1>11. Increasing(k, 1 .. n)
  BY <1>7 DEF Increasing
<1>12. Numbers(p, 1 .. m)
  BY <1>9 DEF Numbers
<1>13. Numbers(k, 1 .. n)
  BY <1>7 DEF Numbers
<1>14. Covered(p, 1 .. m, k, 1 .. n)
  <2>1. ASSUME NEW i \in 1 .. m PROVE \E l \in 1 .. n : k[l] = p[i]
    BY <1>7, <1>9
  <2> QED
    BY <2>1 DEF Covered
<1>15. Covered(k, 1 .. n, p, 1 .. m)
  <2>1. ASSUME NEW l \in 1 .. n PROVE \E i \in 1 .. m : p[i] = k[l]
    <3>1. k[l] \in DOMAIN arr /\ arr[k[l]] \in Range(s)
      BY <1>4, <1>7
    <3>2. PICK i \in 1 .. m : s[i] = arr[k[l]]
      BY <1>2, <3>1 DEF Range
    <3>3. arr[p[i]] = arr[k[l]] /\ p[i] \in DOMAIN arr
      BY <1>9, <3>2
    <3> QED
      BY <3>1, <3>3
  <2> QED
    BY <2>1 DEF Covered
<1>16. m = n /\ \A i \in 1 .. m : p[i] = k[i]
  BY <1>10, <1>11, <1>12, <1>13, <1>14, <1>15, SameNumbering
<1>17. ASSUME NEW i \in 1 .. Len(s) PROVE s[i] = t[i]
  <2>1. i \in 1 .. m /\ i \in 1 .. n /\ p[i] = k[i]
    BY <1>2, <1>16
  <2> QED
    BY <1>7, <1>9, <2>1
<1>18. Len(s) = Len(t)
  BY <1>2, <1>3, <1>16
<1> QED
  BY <1>1, <1>17, <1>18, SeqEqual
(* t is s without some of its elements.                                    *)
Thin(t, s) ==
    \E f \in [DOMAIN t -> DOMAIN s] :
        Increasing(f, DOMAIN t) /\ \A i \in DOMAIN t : t[i] = s[f[i]]

(* What Kept leaves, and the whole of s.                                   *)
LEMMA ThinKept ==
    ASSUME NEW s \in Seq(Requests), NEW S
    PROVE  Thin(Kept(s, S), s) /\ Thin(s, s)
<1>1. PICK f \in [DOMAIN Kept(s, S) -> DOMAIN s] :
         /\ \A i, j \in DOMAIN Kept(s, S) : i < j => f[i] < f[j]
         /\ \A i \in DOMAIN Kept(s, S) : Kept(s, S)[i] = s[f[i]]
  BY KeptOrder
<1>2. Increasing(f, DOMAIN Kept(s, S))
  BY <1>1 DEF Increasing
<1>3. PICK g \in [DOMAIN s -> DOMAIN s] : g = [i \in DOMAIN s |-> i]
  OBVIOUS
<1>4. Increasing(g, DOMAIN s) /\ \A i \in DOMAIN s : s[i] = s[g[i]]
  BY <1>3 DEF Increasing
<1> QED
  BY <1>1, <1>2, <1>4 DEF Thin

(* All but the first and all but the last element.                         *)
LEMMA ThinEnds ==
    ASSUME NEW s \in Seq(Requests), s # <<>>
    PROVE  Thin(Tail(s), s) /\ Thin(Front(s), s)
<1>1. PICK m \in Nat : m = Len(s) /\ DOMAIN s = 1 .. m /\ m > 0
  BY EmptySeq
<1>2. Tail(s) \in Seq(Requests) /\ Len(Tail(s)) = m - 1 /\ \A i \in 1 .. m - 1 : Tail(s)[i] = s[i + 1]
  BY <1>1
<1>3. DOMAIN Tail(s) = 1 .. m - 1
  BY <1>2
<1>4. PICK f : f = [i \in 1 .. m - 1 |-> i + 1]
  OBVIOUS
<1>5. f \in [1 .. m - 1 -> 1 .. m] /\ Increasing(f, 1 .. m - 1)
  BY <1>1, <1>4 DEF Increasing
<1>6. \A i \in 1 .. m - 1 : Tail(s)[i] = s[f[i]]
  BY <1>2, <1>4
<1>7. Front(s) = [i \in 1 .. m - 1 |-> s[i]]
  BY <1>1 DEF Front
<1>8. PICK g : g = [i \in 1 .. m - 1 |-> i]
  OBVIOUS
<1>9. g \in [1 .. m - 1 -> 1 .. m] /\ Increasing(g, 1 .. m - 1)
  BY <1>1, <1>8 DEF Increasing
<1>10. DOMAIN Front(s) = 1 .. m - 1 /\ \A i \in 1 .. m - 1 : Front(s)[i] = s[g[i]]
  BY <1>7, <1>8
<1> QED
  BY <1>1, <1>3, <1>5, <1>6, <1>9, <1>10, SMTT(30) DEF Thin

(* Leaving elements out keeps the order of the others.                     *)
LEMMA ThinOrder ==
    ASSUME NEW arr, NEW S, NEW s, NEW t, Thin(t, s)
    PROVE  /\ InOrder(arr, S, s) => InOrder(arr, S, t)
           /\ BackOrder(arr, S, s) => BackOrder(arr, S, t)
           /\ Range(t) \subseteq Range(s)
<1>1. PICK f \in [DOMAIN t -> DOMAIN s] :
         Increasing(f, DOMAIN t) /\ \A i \in DOMAIN t : t[i] = s[f[i]]
  BY DEF Thin
<1>2. \A i, j \in DOMAIN t : i < j => f[i] < f[j]
  BY <1>1 DEF Increasing
<1>3. ASSUME InOrder(arr, S, s) PROVE InOrder(arr, S, t)
  BY <1>1, <1>2, <1>3 DEF InOrder
<1>4. ASSUME BackOrder(arr, S, s) PROVE BackOrder(arr, S, t)
  BY <1>1, <1>2, <1>4 DEF BackOrder
<1>5. Range(t) \subseteq Range(s)
  BY <1>1 DEF Range
<1> QED
  BY <1>3, <1>4, <1>5

(* The same for the three parts of a client's line.                        *)
LEMMA OrderThin ==
    ASSUME NEW arr, NEW S, NEW ran, NEW pre, NEW q, NEW ran2, NEW pre2, NEW q2,
           OrderOf(arr, S, ran, pre, q), Thin(ran2, ran), Thin(pre2, pre), Thin(q2, q)
    PROVE  OrderOf(arr, S, ran2, pre2, q2)
<1>1. InOrder(arr, S, ran2) /\ BackOrder(arr, S, pre2) /\ InOrder(arr, S, q2)
  BY ThinOrder DEF OrderOf
<1>2. /\ Range(ran2) \subseteq Range(ran) /\ Range(pre2) \subseteq Range(pre)
      /\ Range(q2) \subseteq Range(q)
  BY ThinOrder
<1> QED
  BY <1>1, <1>2 DEF OrderOf, Precede

(* The order of two sequences in a row.                                    *)
LEMMA OrderCat ==
    ASSUME NEW arr, NEW S, NEW s \in Seq(Requests), NEW t \in Seq(Requests),
           InOrder(arr, S, s), InOrder(arr, S, t), Precede(arr, S, Range(s), Range(t))
    PROVE  InOrder(arr, S, s \o t) /\ Range(s \o t) = Range(s) \cup Range(t)
<1>1. PICK m \in Nat, n \in Nat : m = Len(s) /\ n = Len(t)
  OBVIOUS
<1>2. DOMAIN s = 1 .. m /\ DOMAIN t = 1 .. n /\ DOMAIN (s \o t) = 1 .. (m + n)
  BY <1>1
<1>3. \A i \in 1 .. (m + n) :
        \/ i \in 1 .. m /\ (s \o t)[i] = s[i]
        \/ i - m \in 1 .. n /\ (s \o t)[i] = t[i - m] /\ i > m
  BY <1>1
<1>4. ASSUME NEW i \in 1 .. (m + n), NEW j \in 1 .. (m + n), i < j,
             (s \o t)[i] \in S, (s \o t)[j] \in S
      PROVE  Older(arr, (s \o t)[i], (s \o t)[j])
  <2>1. CASE i \in 1 .. m /\ (s \o t)[i] = s[i]
    <3>1. CASE j \in 1 .. m /\ (s \o t)[j] = s[j]
      BY <1>2, <1>4, <2>1, <3>1 DEF InOrder
    <3>2. CASE j - m \in 1 .. n /\ (s \o t)[j] = t[j - m] /\ j > m
      <4>1. s[i] \in Range(s) /\ t[j - m] \in Range(t)
        BY <1>2, <2>1, <3>2 DEF Range
      <4> QED
        BY <1>4, <2>1, <3>2, <4>1 DEF Precede
    <3> QED
      BY <1>3, <3>1, <3>2
  <2>2. CASE i - m \in 1 .. n /\ (s \o t)[i] = t[i - m] /\ i > m
    <3>1. ~ (j \in 1 .. m)
      BY <1>4, <2>2
    <3>2. j - m \in 1 .. n /\ (s \o t)[j] = t[j - m] /\ j > m
      BY <1>3, <3>1
    <3>3. i - m < j - m
      BY <1>4
    <3> QED
      BY <1>2, <1>4, <2>2, <3>2, <3>3 DEF InOrder
  <2> QED
    BY <1>3, <2>1, <2>2
<1>5. Range(s \o t) = Range(s) \cup Range(t)
  BY RangeConcatenation
<1> QED
  BY <1>2, <1>4, <1>5 DEF InOrder
(* One element is in order.                                                *)
LEMMA OrderOne ==
    ASSUME NEW arr, NEW S, NEW x \in Requests
    PROVE  /\ InOrder(arr, S, <<x>>) /\ Range(<<x>>) = {x} /\ <<x>> \in Seq(Requests)
           /\ InOrder(arr, S, <<>>) /\ BackOrder(arr, S, <<>>) /\ Range(<<>>) = {}
<1>1. DOMAIN <<x>> = {1} /\ <<x>>[1] = x
  OBVIOUS
<1>2. \A i, j \in {1} : ~ (i < j)
  OBVIOUS
<1>3. Range(<<x>>) = {x}
  BY <1>1 DEF Range
<1>4. InOrder(arr, S, <<x>>)
  BY <1>1, <1>2 DEF InOrder
<1>5. InOrder(arr, S, <<>>) /\ BackOrder(arr, S, <<>>) /\ Range(<<>>) = {}
  BY DEF InOrder, BackOrder, Range
<1> QED
  BY <1>3, <1>4, <1>5

(* A new arrival is younger than all the others.                           *)
LEMMA OrderAdd ==
    ASSUME NEW arr \in Seq(Requests), NEW S, NEW x \in Requests,
           NEW ran \in Seq(Requests), NEW pre \in Seq(Requests), NEW q \in Seq(Requests),
           (Range(ran) \cup Range(pre) \cup Range(q)) \subseteq Range(arr),
           OrderOf(arr, S, ran, pre, q)
    PROVE  /\ OrderOf(arr \o <<x>>, S, ran, pre, q)
           /\ OrderOf(arr \o <<x>>, S, ran, pre, Append(q, x))
<1>1. PICK m \in Nat : m = Len(arr)
  OBVIOUS
<1>14. PICK one \in Seq(Requests) : one = <<x>>
  BY OrderOne
<1>15. arr \o one \in Seq(Requests)
  OBVIOUS
<1>2. PICK new \in Seq(Requests) : new = arr \o <<x>>
  BY <1>14, <1>15
<1>3. DOMAIN arr = 1 .. m /\ DOMAIN new = 1 .. (m + 1)
  BY <1>1, <1>2
<1>4. new[m + 1] = x /\ \A i \in 1 .. m : new[i] = arr[i]
  BY <1>1, <1>2
<1>5. ASSUME NEW y, NEW z, Older(arr, y, z) PROVE Older(new, y, z)
  <2>1. PICK i \in 1 .. m, j \in 1 .. m : i < j /\ arr[i] = y /\ arr[j] = z
    BY <1>3, <1>5 DEF Older
  <2>2. i \in 1 .. (m + 1) /\ j \in 1 .. (m + 1) /\ new[i] = y /\ new[j] = z
    BY <1>4, <2>1
  <2> QED
    BY <1>3, <2>1, <2>2 DEF Older
<1>6. ASSUME NEW y \in Range(arr) PROVE Older(new, y, x)
  <2>1. PICK i \in 1 .. m : arr[i] = y
    BY <1>3 DEF Range
  <2>2. i \in 1 .. (m + 1) /\ m + 1 \in 1 .. (m + 1) /\ i < m + 1 /\ new[i] = y
    BY <1>4, <2>1
  <2> QED
    BY <1>3, <1>4, <2>2 DEF Older
<1>7. OrderOf(new, S, ran, pre, q)
  <2>1. InOrder(new, S, ran) /\ BackOrder(new, S, pre) /\ InOrder(new, S, q)
    BY <1>5 DEF OrderOf, InOrder, BackOrder
  <2> QED
    BY <1>5, <2>1 DEF OrderOf, Precede
<1>8. Append(q, x) = q \o <<x>>
  BY AppendIsConcat
<1>9. InOrder(new, S, <<x>>) /\ Range(<<x>>) = {x} /\ <<x>> \in Seq(Requests)
  BY OrderOne
<1>10. Precede(new, S, Range(q), Range(<<x>>))
  BY <1>6, <1>9 DEF Precede
<1>11. InOrder(new, S, q)
  BY <1>7 DEF OrderOf
<1>12. InOrder(new, S, q \o <<x>>) /\ Range(q \o <<x>>) = Range(q) \cup Range(<<x>>)
  <2>1. InOrder(new, S, one) /\ Precede(new, S, Range(q), Range(one))
    BY <1>9, <1>10, <1>14
  <2>2. InOrder(new, S, q \o one) /\ Range(q \o one) = Range(q) \cup Range(one)
    BY <1>11, <2>1, OrderCat
  <2> QED
    BY <1>14, <2>2
<1>13. OrderOf(new, S, ran, pre, q \o <<x>>)
  <2>1. Range(q \o <<x>>) = Range(q) \cup {x}
    BY <1>9, <1>12
  <2>2. Precede(new, S, Range(ran), Range(q \o <<x>>)) /\ Precede(new, S, Range(pre), Range(q \o <<x>>))
    BY <1>6, <1>7, <2>1 DEF OrderOf, Precede
  <2> QED
    BY <1>7, <1>12, <2>2 DEF OrderOf
<1> QED
  BY <1>2, <1>7, <1>8, <1>13

(* The head of a queue is admitted: it joins what runs.  For the other     *)
(* clients it is not there.                                                *)
LEMMA OrderAdmit ==
    ASSUME NEW arr, NEW S, NEW x \in Requests,
           NEW ran \in Seq(Requests), NEW q \in Seq(Requests), NEW q2 \in Seq(Requests),
           OrderOf(arr, S, ran, <<>>, q),
           \/ q # <<>> /\ x = Head(q) /\ q2 = Tail(q)
           \/ x \notin S /\ q2 = q
    PROVE  OrderOf(arr, S, ran \o <<x>>, <<>>, q2)
<1>1. /\ InOrder(arr, S, <<x>>) /\ Range(<<x>>) = {x} /\ <<x>> \in Seq(Requests)
      /\ BackOrder(arr, S, <<>>) /\ Range(<<>>) = {}
  BY OrderOne
<1>2. x \in S => x \in Range(q)
  <2>1. CASE q # <<>> /\ x = Head(q)
    <3>1. 1 \in DOMAIN q /\ q[1] = x
      BY <2>1
    <3> QED
      BY <3>1 DEF Range
  <2> QED
    BY <2>1
<1>3. Precede(arr, S, Range(ran), Range(<<x>>))
  BY <1>1, <1>2 DEF OrderOf, Precede
<1>4. InOrder(arr, S, ran \o <<x>>) /\ Range(ran \o <<x>>) = Range(ran) \cup {x}
  <2>1. PICK one \in Seq(Requests) : one = <<x>>
    BY <1>1
  <2>2. InOrder(arr, S, one) /\ InOrder(arr, S, ran) /\ Precede(arr, S, Range(ran), Range(one))
    BY <1>1, <1>3, <2>1 DEF OrderOf
  <2>3. InOrder(arr, S, ran \o one) /\ Range(ran \o one) = Range(ran) \cup Range(one)
    BY <2>2, OrderCat
  <2> QED
    BY <1>1, <2>1, <2>3
<1>5. /\ InOrder(arr, S, q2) /\ Range(q2) \subseteq Range(q)
      /\ \A y \in Range(q2) : x \in S /\ y \in S => Older(arr, x, y)
  <2>1. CASE x \notin S /\ q2 = q
    BY <2>1 DEF OrderOf
  <2>2. CASE q # <<>> /\ x = Head(q) /\ q2 = Tail(q)
    <3>1. InOrder(arr, S, q2) /\ Range(q2) \subseteq Range(q)
      BY <2>2, ThinEnds, ThinOrder DEF OrderOf
    <3>2. ASSUME NEW y \in Range(q2), x \in S, y \in S PROVE Older(arr, x, y)
      <4>1. PICK i \in DOMAIN q2 : y = q2[i]
        BY DEF Range
      <4>2. q2[i] = q[i + 1] /\ 1 \in DOMAIN q /\ i + 1 \in DOMAIN q /\ 1 < i + 1 /\ q[1] = x
        BY <2>2
      <4>3. InOrder(arr, S, q)
        BY DEF OrderOf
      <4> QED
        BY <3>2, <4>1, <4>2, <4>3 DEF InOrder
    <3> QED
      BY <3>1, <3>2
  <2> QED
    BY <2>1, <2>2
<1>6. Precede(arr, S, Range(ran \o <<x>>), Range(q2))
  <2>1. Precede(arr, S, Range(ran), Range(q2))
    BY <1>5 DEF OrderOf, Precede
  <2> QED
    BY <1>4, <1>5, <2>1 DEF Precede
<1>7. Precede(arr, S, Range(ran \o <<x>>), Range(<<>>)) /\ Precede(arr, S, Range(<<>>), Range(q2))
  BY <1>1 DEF Precede
<1> QED
  BY <1>1, <1>4, <1>5, <1>6, <1>7 DEF OrderOf
(* The last group is preempted: it is older than those that were preempted *)
(* before it.                                                              *)
LEMMA OrderPreempt ==
    ASSUME NEW arr, NEW S, NEW ran \in Seq(Requests), ran # <<>>, NEW x, x = Last(ran),
           NEW pre \in Seq(Requests), NEW q, OrderOf(arr, S, ran, pre, q)
    PROVE  OrderOf(arr, S, Front(ran), Append(pre, x), q)
<1>1. PICK m \in Nat : m = Len(ran) /\ m > 0 /\ DOMAIN ran = 1 .. m
  BY EmptySeq
<1>2. x = ran[m] /\ x \in Range(ran) /\ x \in Requests
  <2>1. m \in DOMAIN ran /\ x = ran[m]
    BY <1>1 DEF Last
  <2> QED
    BY <2>1 DEF Range
<1>3. Front(ran) = [i \in 1 .. m - 1 |-> ran[i]]
  BY <1>1 DEF Front
<1>4. InOrder(arr, S, Front(ran)) /\ Range(Front(ran)) \subseteq Range(ran)
  BY ThinEnds, ThinOrder DEF OrderOf
<1>5. ASSUME NEW y \in Range(Front(ran)), y \in S, x \in S PROVE Older(arr, y, x)
  <2>1. PICK i \in 1 .. m - 1 : y = ran[i]
    BY <1>3 DEF Range
  <2>2. i \in DOMAIN ran /\ m \in DOMAIN ran /\ i < m
    BY <1>1, <2>1
  <2>3. InOrder(arr, S, ran)
    BY DEF OrderOf
  <2> QED
    BY <1>2, <1>5, <2>1, <2>2, <2>3 DEF InOrder
<1>6. PICK k \in Nat : k = Len(pre) /\ DOMAIN pre = 1 .. k
  OBVIOUS
<1>7. PICK new : new = Append(pre, x)
  OBVIOUS
<1>8. DOMAIN new = 1 .. (k + 1) /\ new[k + 1] = x /\ \A i \in 1 .. k : new[i] = pre[i]
  BY <1>2, <1>6, <1>7
<1>9. Range(new) = Range(pre) \cup {x}
  <2>1. \A i \in 1 .. (k + 1) : i \in 1 .. k \/ i = k + 1
    OBVIOUS
  <2>2. \A i \in 1 .. k : i \in 1 .. (k + 1)
    OBVIOUS
  <2>3. k + 1 \in 1 .. (k + 1)
    OBVIOUS
  <2> QED
    BY <1>6, <1>8, <2>1, <2>2, <2>3 DEF Range
<1>10. BackOrder(arr, S, new)
  <2>1. ASSUME NEW i \in 1 .. (k + 1), NEW j \in 1 .. (k + 1), i < j, new[i] \in S, new[j] \in S
        PROVE  Older(arr, new[j], new[i])
    <3>1. i \in 1 .. k /\ new[i] = pre[i] /\ new[i] \in Range(pre)
      <4>1. i \in 1 .. k
        BY <2>1
      <4> QED
        BY <1>6, <1>8, <4>1 DEF Range
    <3>2. CASE j = k + 1
      BY <1>2, <1>8, <2>1, <3>1, <3>2 DEF OrderOf, Precede
    <3>3. CASE j # k + 1
      <4>1. j \in 1 .. k
        BY <3>3
      <4>2. new[j] = pre[j] /\ BackOrder(arr, S, pre)
        BY <1>8, <4>1 DEF OrderOf
      <4> QED
        BY <1>6, <2>1, <3>1, <4>1, <4>2 DEF BackOrder
    <3> QED
      BY <3>2, <3>3
  <2> QED
    BY <1>8, <2>1 DEF BackOrder
<1>11. Precede(arr, S, Range(Front(ran)), Range(new))
  BY <1>4, <1>5, <1>9 DEF OrderOf, Precede
<1>12. Precede(arr, S, Range(Front(ran)), Range(q)) /\ Precede(arr, S, Range(new), Range(q))
  BY <1>2, <1>4, <1>9 DEF OrderOf, Precede
<1>13. InOrder(arr, S, q)
  BY DEF OrderOf
<1> QED
  BY <1>4, <1>7, <1>10, <1>11, <1>12, <1>13 DEF OrderOf

(* extendleft puts the preempted groups of a client, the last one first,   *)
(* at the head of its queue.                                               *)
LEMMA OrderCommit ==
    ASSUME NEW arr, NEW S, NEW ran, NEW pre \in Seq(Requests), NEW q \in Seq(Requests),
           OrderOf(arr, S, ran, pre, q)
    PROVE  OrderOf(arr, S, ran, <<>>, Reverse(Kept(pre, S)) \o q)
<1>1. PICK k \in Seq(Requests) : k = Kept(pre, S)
  BY KeptTimes
<1>2. Thin(k, pre)
  BY <1>1, ThinKept
<1>3. BackOrder(arr, S, k) /\ Range(k) \subseteq Range(pre)
  BY <1>2, ThinOrder DEF OrderOf
<1>4. PICK m \in Nat : m = Len(k) /\ DOMAIN k = 1 .. m
  OBVIOUS
<1>5. PICK v \in Seq(Requests) : v = Reverse(k)
  BY TimesReverse
<1>6. v = [i \in 1 .. m |-> k[(m - i) + 1]]
  BY <1>4, <1>5 DEF Reverse
<1>7. DOMAIN v = 1 .. m /\ \A i \in 1 .. m : v[i] = k[(m - i) + 1] /\ (m - i) + 1 \in 1 .. m
  BY <1>6
<1>8. Range(v) \subseteq Range(k)
  <2>1. ASSUME NEW x \in Range(v) PROVE x \in Range(k)
    <3>1. PICK i \in 1 .. m : x = v[i]
      BY <1>7 DEF Range
    <3>2. PICK j \in DOMAIN k : j = (m - i) + 1
      BY <1>4, <1>7
    <3> QED
      BY <1>7, <3>1, <3>2 DEF Range
  <2> QED
    BY <2>1
<1>9. InOrder(arr, S, v)
  <2>1. ASSUME NEW i \in 1 .. m, NEW j \in 1 .. m, i < j, v[i] \in S, v[j] \in S
        PROVE  Older(arr, v[i], v[j])
    <3>1. (m - j) + 1 < (m - i) + 1
      BY <2>1
    <3> QED
      BY <1>3, <1>4, <1>7, <2>1, <3>1 DEF BackOrder
  <2> QED
    BY <1>7, <2>1 DEF InOrder
<1>10. Precede(arr, S, Range(v), Range(q))
  BY <1>3, <1>8 DEF OrderOf, Precede
<1>11. InOrder(arr, S, q)
  BY DEF OrderOf
<1>12. InOrder(arr, S, v \o q) /\ Range(v \o q) = Range(v) \cup Range(q)
  BY <1>9, <1>10, <1>11, OrderCat
<1>13. BackOrder(arr, S, <<>>) /\ Range(<<>>) = {}
  BY DEF BackOrder, Range
<1>14. Precede(arr, S, Range(ran), Range(v \o q))
  BY <1>3, <1>8, <1>12 DEF OrderOf, Precede
<1>15. Precede(arr, S, Range(ran), Range(<<>>)) /\ Precede(arr, S, Range(<<>>), Range(v \o q))
  BY <1>13 DEF Precede
<1>16. InOrder(arr, S, ran)
  BY DEF OrderOf
<1> QED
  BY <1>1, <1>5, <1>12, <1>13, <1>14, <1>15, <1>16 DEF OrderOf
-----------------------------------------------------------------------------
(* The lists of requests, and that none of them is new.                    *)
LEMMA LineType ==
    ASSUME SchedInv
    PROVE  /\ Ran \in Seq(Requests) /\ batch.preempted \in Seq(Requests)
           /\ \A c \in Clients : Waiting(c) \in Seq(Requests)
           /\ \A x \in Range(Ran) \cup Range(batch.preempted) : x \in Requests /\ status[x] # "NEW"
           /\ \A c \in Clients : \A x \in Range(Waiting(c)) : x \in Requests /\ status[x] # "NEW"
<1> USE DEF SchedInv
<1>1. /\ batch.preempted \in Seq(Requests) /\ batch.prefills \in Seq(Requests)
      /\ batch.decodes \in Seq(Requests) /\ running \in Seq(Requests)
  BY ListType DEF TypeOK
<1>2. Ran \in Seq(Requests)
  BY <1>1 DEF Ran
<1>3. ASSUME NEW c \in Clients PROVE Waiting(c) \in Seq(Requests)
  BY EmptySeq DEF Waiting, Lookup, TypeOK
<1>4. /\ \A x \in Range(running) : status[x] = "RUNNING"
      /\ \A x \in Range(batch.prefills) \cup Range(batch.decodes) : status[x] = "RUNNING"
      /\ \A c \in DOMAIN client_waiting_queues : \A x \in Range(client_waiting_queues[c]) :
           status[x] = "WAITING"
  BY WhereIs
<1>5. ASSUME NEW x \in Range(Ran) PROVE x \in Requests /\ status[x] # "NEW"
  <2>1. x \in Requests
    BY <1>2 DEF Range
  <2>2. Range(Ran) \subseteq Range(running) \cup Range(batch.prefills) \cup Range(batch.decodes)
    <3>1. CASE phase = "execute"
      BY <3>1 DEF Ran
    <3>2. CASE phase # "execute"
      <4>4. batch.decodes \o running \in Seq(Requests)
        BY <1>1
      <4>1. PICK d \in Seq(Requests) : d = batch.decodes \o running
        BY <4>4
      <4>2. Range(d) = Range(batch.decodes) \cup Range(running)
        BY <1>1, <4>1, RangeConcatenation
      <4>3. Range(d \o batch.prefills) = Range(d) \cup Range(batch.prefills)
        BY <1>1, RangeConcatenation
      <4> QED
        BY <3>2, <4>1, <4>2, <4>3 DEF Ran
    <3> QED
      BY <3>1, <3>2
  <2> QED
    BY <1>4, <2>1, <2>2
<1>6. ASSUME NEW x \in Range(batch.preempted) PROVE x \in Requests /\ status[x] # "NEW"
  <2>1. x \in Requests
    BY <1>1 DEF Range
  <2>2. Times(x, batch.preempted) \in Nat /\ Times(x, batch.preempted) # 0
    BY <1>1, <2>1, TimesType
  <2>3. InQueue(client_waiting_queues, x) + Times(x, batch.preempted)
          = IF status[x] = "WAITING" THEN 1 ELSE 0
    BY <2>1, PlacesNow DEF Counts
  <2>4. InQueue(client_waiting_queues, x) \in Nat
    BY <2>1, TimesType DEF InQueue, TypeOK
  <2> QED
    BY <2>1, <2>2, <2>3, <2>4
<1>7. ASSUME NEW c \in Clients, NEW x \in Range(Waiting(c)) PROVE x \in Requests /\ status[x] # "NEW"
  <2>1. x \in Requests
    BY <1>3 DEF Range
  <2>2. c \in DOMAIN client_waiting_queues /\ Waiting(c) = client_waiting_queues[c]
    <3>1. Range(<<>>) = {}
      BY DEF Range
    <3> QED
      BY <3>1 DEF Waiting, Lookup
  <2> QED
    BY <1>4, <2>1, <2>2
<1> QED
  BY <1>1, <1>2, <1>3, <1>5, <1>6, <1>7

(* SetToSeq of at most one element.                                        *)
LEMMA SmallSetToSeq ==
    ASSUME NEW x
    PROVE  SetToSeq({}) = <<>> /\ SetToSeq({x}) = <<x>>
<1>1. Cardinality({}) = 0
  BY FS_EmptySet
<1>2. Cardinality({x}) = 1
  BY FS_Singleton
<1>3. SetToSeq({}) = <<>>
  <2>1. 1 .. 0 = {}
    OBVIOUS
  <2>2. PICK e : e = [i \in {} |-> i]
    OBVIOUS
  <2>3. e \in [{} -> {}] /\ IsInjective(e) /\ \A f \in [{} -> {}] : f = e
    BY <2>2 DEF IsInjective
  <2>4. SetToSeq({}) = CHOOSE f \in [{} -> {}] : IsInjective(f)
    BY <1>1, <2>1 DEF SetToSeq
  <2>5. SetToSeq({}) = e
    BY <2>3, <2>4
  <2>6. e = <<>>
    BY <2>2
  <2> QED
    BY <2>5, <2>6
<1>4. SetToSeq({x}) = <<x>>
  <2>1. 1 .. 1 = {1}
    OBVIOUS
  <2>2. PICK e : e = [i \in {1} |-> x]
    OBVIOUS
  <2>3. e \in [{1} -> {x}] /\ IsInjective(e) /\ \A f \in [{1} -> {x}] : f = e
    BY <2>2 DEF IsInjective
  <2>4. SetToSeq({x}) = CHOOSE f \in [{1} -> {x}] : IsInjective(f)
    BY <1>2, <2>1 DEF SetToSeq
  <2>5. SetToSeq({x}) = e
    BY <2>3, <2>4
  <2>6. e = <<x>>
    BY <2>1, <2>2
  <2> QED
    BY <2>5, <2>6
<1> QED
  BY <1>3, <1>4

(* The order of arrival: add_seq_group appends to it, and nothing else     *)
(* changes it.                                                             *)
LEMMA ArrivalKeeps ==
    ASSUME SchedInv, ArrivalInv, Next, Record
    PROVE  /\ ArrivalInv'
           /\ \A x \in Requests : AddSeqGroup(x) => arrivals' = arrivals \o <<x>>
           /\ (\A x \in Requests : ~ AddSeqGroup(x)) => arrivals' = arrivals
<1> USE DEF SchedInv
<1>1. PICK N : N = {r \in Requests : status[r] = "NEW" /\ status'[r] = "WAITING"}
  OBVIOUS
<1>2. arrivals' = arrivals \o SetToSeq(N)
  BY <1>1 DEF Record
<1>3. status \in [Requests -> Statuses]
  BY DEF TypeOK
<1>4. ASSUME NEW x \in Requests, AddSeqGroup(x)
      PROVE  arrivals' = arrivals \o <<x>> /\ ArrivalInv'
  <2>1. status[x] = "NEW" /\ status' = [status EXCEPT ![x] = "WAITING"]
    BY <1>4 DEF AddSeqGroup
  <2>2. N = {x}
    BY <1>1, <1>3, <2>1
  <2>3. arrivals' = arrivals \o <<x>>
    BY <1>2, <2>2, SmallSetToSeq
  <2>4. PICK arr \in Seq(Requests) : arr = arrivals
    BY DEF ArrivalInv
  <2>5. PICK one \in Seq(Requests) : one = <<x>>
    BY OrderOne
  <2>16. arr \o one \in Seq(Requests)
    OBVIOUS
  <2>6. PICK new \in Seq(Requests) : new = arr \o one
    BY <2>16
  <2>7. PICK m \in Nat : m = Len(arr) /\ DOMAIN arr = 1 .. m
    OBVIOUS
  <2>8. DOMAIN new = 1 .. (m + 1) /\ new[m + 1] = x /\ \A i \in 1 .. m : new[i] = arr[i]
    BY <2>5, <2>6, <2>7
  <2>9. Range(new) = Range(arr) \cup {x}
    <3>1. Range(one) = {x}
      BY <2>5, OrderOne
    <3>2. Range(new) = Range(arr) \cup Range(one)
      BY <2>6, RangeConcatenation
    <3> QED
      BY <3>1, <3>2
  <2>10. {r \in Requests : status'[r] # "NEW"} = {r \in Requests : status[r] # "NEW"} \cup {x}
    BY <1>3, <2>1
  <2>11. Range(arr) = {r \in Requests : status[r] # "NEW"}
         /\ \A i, j \in DOMAIN arr : arr[i] = arr[j] => i = j
    BY <2>4 DEF ArrivalInv
  <2>12. \A i \in 1 .. m : arr[i] # x
    BY <2>1, <2>7, <2>11 DEF Range
  <2>13. \A i \in 1 .. (m + 1) : i \in 1 .. m \/ i = m + 1
    OBVIOUS
  <2>14. \A i, j \in DOMAIN new : new[i] = new[j] => i = j
    BY <2>7, <2>8, <2>11, <2>12, <2>13
  <2>15. arrivals' = new
    BY <2>3, <2>4, <2>5, <2>6
  <2> QED
    BY <2>3, <2>9, <2>10, <2>11, <2>14, <2>15 DEF ArrivalInv
<1>5. ASSUME \A x \in Requests : ~ AddSeqGroup(x)
      PROVE  arrivals' = arrivals /\ ArrivalInv'
  <2> DEFINE SameNew == \A r \in Requests : status[r] = "NEW" <=> status'[r] = "NEW"
  <2>1. SameNew
    <3>1. CASE Quiet
      BY <3>1 DEF Quiet
    <3>2. ASSUME NEW x \in Requests, NEW st \in {"FINISHED", "SWAPPED", "RUNNING"}, Turns(x, st)
          PROVE  SameNew
      <4>1. status' = [status EXCEPT ![x] = st] /\ status[x] # "NEW"
        BY <3>2 DEF Turns, Moves, Changes
      <4> QED
        BY <1>3, <4>1
    <3>3. ASSUME NEW x \in Requests, Admits(x) \/ Recomputes(x) PROVE SameNew
      <4>1. PICK st : st \in {"RUNNING", "WAITING"}
                      /\ status' = [status EXCEPT ![x] = st] /\ status[x] # "NEW"
        BY <3>3 DEF Admits, Recomputes, Moves
      <4> QED
        BY <1>3, <4>1
    <3>4. CASE ExecutePrefill \/ ExecuteDecode
      <4>1. PICK B, stopped :
              /\ stopped \subseteq B
              /\ \A r \in B : status[r] = "RUNNING"
              /\ status' = [r \in Requests |-> IF r \in stopped THEN "FINISHED" ELSE status[r]]
        BY <3>4, OutputShape DEF SchedInv
      <4> QED
        BY <1>3, <4>1
    <3> QED
      BY <1>5, <3>1, <3>2, <3>3, <3>4, StepShape
  <2>2. N = {}
    BY <1>1, <2>1
  <2>3. arrivals \o <<>> = arrivals
    BY ConcatEmptySeq DEF ArrivalInv
  <2>4. arrivals' = arrivals
    BY <1>2, <2>2, <2>3, SmallSetToSeq
  <2>5. {r \in Requests : status'[r] # "NEW"} = {r \in Requests : status[r] # "NEW"}
    BY <2>1
  <2> QED
    BY <2>4, <2>5 DEF ArrivalInv
<1> QED
  BY <1>4, <1>5
(* add_seq_group: a new request is the youngest of its client.             *)
LEMMA OrderWithNew ==
    ASSUME SchedInv, ArrivalInv, OrderInv, NEW x \in Requests, AddSeqGroup(x),
           arrivals' = arrivals \o <<x>>
    PROVE  OrderInv'
<1> USE DEF SchedInv
<1>1. /\ phase = "idle" /\ phase' = "idle" /\ batch' = batch /\ running' = running
      /\ client_waiting_queues' = Appended(client_waiting_queues, x)
  BY DEF AddSeqGroup
<1>2. Ran' = Ran /\ batch'.preempted = batch.preempted
  BY <1>1 DEF Ran
<1>3. /\ Ran \in Seq(Requests) /\ batch.preempted \in Seq(Requests) /\ arrivals \in Seq(Requests)
      /\ Range(Ran) \subseteq Range(arrivals) /\ Range(batch.preempted) \subseteq Range(arrivals)
  BY LineType DEF ArrivalInv
<1>4. ASSUME NEW c \in Clients
      PROVE  OrderOf(arrivals', OwnedBy(c), Ran', batch'.preempted, Waiting(c)')
  <2>1. /\ Waiting(c) \in Seq(Requests) /\ Range(Waiting(c)) \subseteq Range(arrivals)
        /\ OrderOf(arrivals, OwnedBy(c), Ran, batch.preempted, Waiting(c))
    BY LineType DEF ArrivalInv, OrderInv
  <2>2. Waiting(c)' = Waiting(c) \/ Waiting(c)' = Append(Waiting(c), x)
    BY <1>1 DEF Waiting, Lookup, Appended, Assoc
  <2>3. /\ OrderOf(arrivals \o <<x>>, OwnedBy(c), Ran, batch.preempted, Waiting(c))
        /\ OrderOf(arrivals \o <<x>>, OwnedBy(c), Ran, batch.preempted, Append(Waiting(c), x))
    BY <1>3, <2>1, OrderAdd
  <2> QED
    BY <1>2, <2>2, <2>3
<1> QED
  BY <1>4 DEF OrderInv

(* A step that only leaves requests out of the lines.                      *)
LEMMA OrderLeave ==
    ASSUME OrderInv, arrivals' = arrivals, Thin(Ran', Ran), Thin(batch'.preempted, batch.preempted),
           \A c \in Clients : Thin(Waiting(c)', Waiting(c))
    PROVE  OrderInv'
<1>1. ASSUME NEW c \in Clients
      PROVE  OrderOf(arrivals', OwnedBy(c), Ran', batch'.preempted, Waiting(c)')
  <2>1. OrderOf(arrivals, OwnedBy(c), Ran, batch.preempted, Waiting(c))
    BY DEF OrderInv
  <2>2. OrderOf(arrivals, OwnedBy(c), Ran', batch'.preempted, Waiting(c)')
    BY <2>1, OrderThin
  <2> QED
    BY <2>2
<1> QED
  BY <1>1 DEF OrderInv

(* Empty lists add nothing to the running queue.                           *)
LEMMA NoneAdded ==
    ASSUME NEW s \in Seq(Requests)
    PROVE  (<<>> \o s) \o <<>> = s
<1>1. <<>> \o s = s
  BY ConcatEmptySeq
<1>2. s \o <<>> = s
  BY ConcatEmptySeq
<1> QED
  BY <1>1, <1>2

(* abort_seq_group, an ignored prompt, and the groups that stop.           *)
LEMMA OrderRemoves ==
    ASSUME SchedInv, SchedInv', OrderInv, arrivals' = arrivals,
           \/ \E x \in Requests : AbortSeqGroup(x)
           \/ IgnorePrompt \/ ExecutePrefill \/ ExecuteDecode
    PROVE  OrderInv'
<1> USE DEF SchedInv
<1>1. /\ Ran \in Seq(Requests) /\ batch.preempted \in Seq(Requests) /\ running \in Seq(Requests)
      /\ \A c \in Clients : Waiting(c) \in Seq(Requests)
  BY LineType DEF TypeOK
<1>2. /\ Thin(Ran, Ran) /\ Thin(batch.preempted, batch.preempted)
      /\ \A c \in Clients : Thin(Waiting(c), Waiting(c))
  BY <1>1, ThinKept
<1>6. running' \in Seq(Requests)
  BY DEF TypeOK
<1>3. ASSUME NEW x \in Requests, AbortSeqGroup(x) PROVE OrderInv'
  <2>1. /\ phase = "idle" /\ batch' = batch
        /\ client_waiting_queues' = Removed(client_waiting_queues, x)
        /\ running' = Kept(running, Requests \ {x})
    BY <1>3 DEF AbortSeqGroup
  <2>2. batch.prefills = <<>> /\ batch.decodes = <<>>
    BY <2>1 DEF PhaseInv, NoBatch
  <2>3. Ran = running
    BY <1>1, <2>2, NoneAdded DEF Ran
  <2>4. Ran' = running'
    BY <1>6, <2>1, <2>2, NoneAdded DEF Ran
  <2>5. Thin(Ran', Ran)
    BY <1>1, <2>1, <2>3, <2>4, ThinKept
  <2>6. ASSUME NEW c \in Clients PROVE Thin(Waiting(c)', Waiting(c))
    <3>1. CASE c \in DOMAIN client_waiting_queues
      <4>1. Waiting(c)' = Kept(client_waiting_queues[c], Requests \ {x})
            /\ Waiting(c) = client_waiting_queues[c]
        BY <2>1, <3>1 DEF Waiting, Lookup, Removed
      <4> QED
        BY <1>1, <4>1, ThinKept
    <3>2. CASE c \notin DOMAIN client_waiting_queues
      BY <1>2, <2>1, <3>2 DEF Waiting, Lookup, Removed
    <3> QED
      BY <3>1, <3>2
  <2> QED
    BY <1>2, <2>1, <2>5, <2>6, OrderLeave
<1>4. CASE IgnorePrompt
  <2>1. PICK d \in HeadClients(client_waiting_queues, served) :
          client_waiting_queues' = PopLeft(client_waiting_queues, d)
    BY <1>4 DEF IgnorePrompt
  <2>2. UNCHANGED <<running, phase, batch>>
    BY <1>4 DEF IgnorePrompt
  <2>3. Ran' = Ran /\ batch'.preempted = batch.preempted
    BY <2>2 DEF Ran
  <2>4. ASSUME NEW c \in Clients PROVE Thin(Waiting(c)', Waiting(c))
    <3>1. CASE c = d
      <4>1. d \in DOMAIN client_waiting_queues /\ client_waiting_queues[d] # <<>>
        BY DEF HeadClients, Backlogged
      <4>2. Waiting(c)' = Tail(Waiting(c)) /\ Waiting(c) # <<>>
        BY <2>1, <3>1, <4>1 DEF PopLeft, Waiting, Lookup
      <4> QED
        BY <1>1, <4>2, ThinEnds
    <3>2. CASE c # d
      <4>1. Waiting(c)' = Waiting(c)
        BY <2>1, <3>2 DEF PopLeft, Waiting, Lookup
      <4> QED
        BY <1>2, <4>1
    <3> QED
      BY <3>1, <3>2
  <2> QED
    BY <1>2, <2>3, <2>4, OrderLeave
<1>5. CASE ExecutePrefill \/ ExecuteDecode
  <2>1. PICK B : ProcessOutputs(B)
    BY <1>5 DEF ExecutePrefill, ExecuteDecode
  <2>2. PICK stopped : /\ running' = Kept(running, Requests \ stopped) /\ batch' = NoBatch
                       /\ client_waiting_queues' = client_waiting_queues
    BY <2>1 DEF ProcessOutputs
  <2>3. phase = "execute"
    BY <1>5 DEF ExecutePrefill, ExecuteDecode
  <2>4. Ran = running
    BY <2>3 DEF Ran
  <2>5. Ran' = running'
    <3>1. batch'.prefills = <<>> /\ batch'.decodes = <<>>
      BY <2>2 DEF NoBatch
    <3> QED
      BY <1>6, <3>1, NoneAdded DEF Ran
  <2>6. Thin(Ran', Ran)
    BY <1>1, <2>2, <2>4, <2>5, ThinKept
  <2>7. batch'.preempted = batch.preempted
    BY <2>2, <2>3 DEF NoBatch, PhaseInv
  <2>8. \A c \in Clients : Waiting(c)' = Waiting(c)
    BY <2>2 DEF Waiting
  <2> QED
    BY <1>2, <2>6, <2>7, <2>8, OrderLeave
<1> QED
  BY <1>3, <1>4, <1>5
(* _schedule_prefills admits the head of a queue.                          *)
LEMMA OrderPrefill ==
    ASSUME SchedInv, OrderInv, arrivals' = arrivals, AdmitPrefill
    PROVE  OrderInv'
<1> USE DEF SchedInv
<1>1. PICK d \in HeadClients(client_waiting_queues, served) :
        /\ client_waiting_queues' = PopLeft(client_waiting_queues, d)
        /\ batch' = [batch EXCEPT !.prefills = <<Head(client_waiting_queues[d])>>]
  BY DEF AdmitPrefill
<1>2. PICK x : x = Head(client_waiting_queues[d])
  OBVIOUS
<1>3. x \in Requests /\ ClientOf[x] = d /\ d \in DOMAIN client_waiting_queues
  BY <1>2, HeadWaits
<1>4. client_waiting_queues[d] # <<>>
  BY DEF HeadClients, Backlogged
<1>5. phase = "prefills" /\ batch.prefills = <<>> /\ running' = running /\ phase' = phase
  BY DEF AdmitPrefill
<1>6. batch.preempted = <<>>
  BY <1>5 DEF PhaseInv
<1>7. /\ batch.decodes \in Seq(Requests) /\ running \in Seq(Requests)
      /\ DOMAIN batch = {"prefills", "decodes", "preempted", "swapped_out"}
      /\ Ran \in Seq(Requests) /\ \A c \in Clients : Waiting(c) \in Seq(Requests)
  BY ListType, LineType DEF TypeOK
<1>8. batch'.prefills = <<x>> /\ batch'.decodes = batch.decodes /\ batch'.preempted = <<>>
  BY <1>1, <1>2, <1>6, <1>7
<1>9. batch.decodes \o running \in Seq(Requests)
  BY <1>7
<1>10. Ran = batch.decodes \o running
  <2>1. (batch.decodes \o running) \o <<>> = batch.decodes \o running
    BY <1>9, ConcatEmptySeq
  <2> QED
    BY <1>5, <2>1 DEF Ran
<1>11. Ran' = Ran \o <<x>>
  BY <1>5, <1>8, <1>10 DEF Ran
<1>12. ASSUME NEW c \in Clients
       PROVE  OrderOf(arrivals', OwnedBy(c), Ran', batch'.preempted, Waiting(c)')
  <2>1. OrderOf(arrivals, OwnedBy(c), Ran, <<>>, Waiting(c)) /\ Waiting(c) \in Seq(Requests)
    BY <1>6, <1>7 DEF OrderInv
  <2>2. CASE c = d
    <3>1. Waiting(c)' = Tail(Waiting(c)) /\ Waiting(c) # <<>> /\ x = Head(Waiting(c))
      BY <1>1, <1>2, <1>3, <1>4, <2>2 DEF PopLeft, Waiting, Lookup
    <3>2. Tail(Waiting(c)) \in Seq(Requests)
      BY <2>1, <3>1
    <3>3. OrderOf(arrivals, OwnedBy(c), Ran \o <<x>>, <<>>, Tail(Waiting(c)))
      BY <1>3, <1>7, <2>1, <3>1, <3>2, OrderAdmit
    <3> QED
      BY <1>8, <1>11, <3>1, <3>3
  <2>3. CASE c # d
    <3>1. Waiting(c)' = Waiting(c)
      BY <1>1, <2>3 DEF PopLeft, Waiting, Lookup
    <3>2. x \notin OwnedBy(c)
      BY <1>3, <2>3 DEF OwnedBy
    <3>3. OrderOf(arrivals, OwnedBy(c), Ran \o <<x>>, <<>>, Waiting(c))
      BY <1>3, <1>7, <2>1, <3>2, OrderAdmit
    <3> QED
      BY <1>8, <1>11, <3>1, <3>3
  <2> QED
    BY <2>2, <2>3
<1> QED
  BY <1>12 DEF OrderInv

(* _schedule_running: a group gets its slot and keeps its place.           *)
LEMMA OrderDecode ==
    ASSUME SchedInv, OrderInv, arrivals' = arrivals, ScheduleDecode
    PROVE  OrderInv'
<1> USE DEF SchedInv
<1>1. /\ phase = "running" /\ phase' = "running" /\ running # <<>> /\ running' = Tail(running)
      /\ client_waiting_queues' = client_waiting_queues
      /\ batch' = [batch EXCEPT !.decodes = Append(@, Head(running))]
  BY DEF ScheduleDecode, queueVars
<1>2. /\ batch.decodes \in Seq(Requests) /\ running \in Seq(Requests)
      /\ DOMAIN batch = {"prefills", "decodes", "preempted", "swapped_out"}
  BY ListType DEF TypeOK
<1>3. /\ batch'.decodes = Append(batch.decodes, Head(running))
      /\ batch'.prefills = batch.prefills /\ batch'.preempted = batch.preempted
  BY <1>1, <1>2
<1>4. PICK s \in Seq(Requests), d \in Seq(Requests) : s = running /\ d = batch.decodes
  BY <1>2
<1>5. PICK h \in Requests : h = Head(s)
  BY <1>1, <1>4
<1>14. Tail(s) \in Seq(Requests)
  BY <1>1, <1>4
<1>6. PICK t \in Seq(Requests) : t = Tail(s)
  BY <1>14
<1>7. PICK one \in Seq(Requests) : one = <<h>>
  BY OrderOne
<1>8. s = one \o t
  BY <1>1, <1>4, <1>5, <1>6, <1>7
<1>9. Append(d, h) = d \o one
  BY <1>7, AppendIsConcat
<1>10. (d \o one) \o t = d \o (one \o t)
  BY ConcatAssociative
<1>11. batch'.decodes \o running' = batch.decodes \o running
  BY <1>1, <1>3, <1>4, <1>5, <1>6, <1>8, <1>9, <1>10
<1>15. Ran' = (batch'.decodes \o running') \o batch'.prefills
  BY <1>1 DEF Ran
<1>16. Ran = (batch.decodes \o running) \o batch.prefills
  BY <1>1 DEF Ran
<1>12. Ran' = Ran
  BY <1>3, <1>11, <1>15, <1>16
<1>13. \A c \in Clients : Waiting(c)' = Waiting(c)
  BY <1>1 DEF Waiting
<1> QED
  BY <1>3, <1>12, <1>13 DEF OrderInv

(* _preempt_by_recompute: the last group leaves the running queue.         *)
LEMMA OrderRecompute ==
    ASSUME SchedInv, SchedInv', OrderInv, arrivals' = arrivals, PreemptByRecompute
    PROVE  OrderInv'
<1> USE DEF SchedInv
<1>1. PICK x : x = Last(running)
  OBVIOUS
<1>2. /\ phase = "running" /\ phase' = "running" /\ running # <<>> /\ running' = Front(running)
      /\ client_waiting_queues' = client_waiting_queues
      /\ batch' = [batch EXCEPT !.preempted = Append(@, x)]
  BY <1>1 DEF PreemptByRecompute, queueVars
<1>3. /\ batch.decodes \in Seq(Requests) /\ running \in Seq(Requests)
      /\ batch.preempted \in Seq(Requests) /\ batch.prefills = <<>>
      /\ DOMAIN batch = {"prefills", "decodes", "preempted", "swapped_out"}
      /\ running' \in Seq(Requests)
  BY <1>2, ListType DEF TypeOK, PhaseInv
<1>4. /\ batch'.preempted = Append(batch.preempted, x)
      /\ batch'.prefills = <<>> /\ batch'.decodes = batch.decodes
  BY <1>2, <1>3
<1>5. PICK s \in Seq(Requests), d \in Seq(Requests), f \in Seq(Requests) :
        s = running /\ d = batch.decodes /\ f = running'
  BY <1>3
<1>6. PICK m \in Nat, k \in Nat : m = Len(s) /\ k = Len(d)
  OBVIOUS
<1>7. m > 0 /\ f = [i \in 1 .. m - 1 |-> s[i]] /\ x = s[m]
  <2>1. m > 0
    BY <1>2, <1>5, <1>6, EmptySeq
  <2>2. f = SubSeq(s, 1, m - 1)
    BY <1>2, <1>5, <1>6 DEF Front
  <2>3. x = s[m]
    BY <1>1, <1>5, <1>6 DEF Last
  <2> QED
    BY <1>6, <2>1, <2>2, <2>3
<1>8. d \o s \in Seq(Requests) /\ d \o f \in Seq(Requests)
  OBVIOUS
<1>9. PICK ran \in Seq(Requests), ran2 \in Seq(Requests) : ran = d \o s /\ ran2 = d \o f
  BY <1>8
<1>10. Ran = ran
  BY <1>2, <1>3, <1>5, <1>9, ConcatEmptySeq DEF Ran
<1>11. Ran' = ran2
  BY <1>2, <1>4, <1>5, <1>9, ConcatEmptySeq DEF Ran
<1>12. Len(f) = m - 1
  BY <1>7
<1>13. /\ Len(ran) = k + m /\ Len(ran2) = k + (m - 1)
       /\ \A i \in 1 .. k + m : ran[i] = IF i <= k THEN d[i] ELSE s[i - k]
       /\ \A i \in 1 .. k + (m - 1) : ran2[i] = IF i <= k THEN d[i] ELSE f[i - k]
  BY <1>6, <1>9, <1>12
<1>14. Last(ran) = x /\ ran # <<>>
  <2>1. k + m \in 1 .. k + m /\ ~ (k + m <= k) /\ (k + m) - k = m
    BY <1>7
  <2>2. ran[k + m] = x
    BY <1>7, <1>13, <2>1
  <2>3. Len(ran) # 0
    BY <1>7, <1>13
  <2> QED
    BY <1>13, <2>2, <2>3, EmptySeq DEF Last
<1>15. Front(ran) = ran2
  <2>1. PICK g \in Seq(Requests) : g = Front(ran)
    BY <1>14, TimesFront
  <2>2. g = SubSeq(ran, 1, (k + m) - 1)
    BY <1>13, <2>1 DEF Front
  <2>3. Len(g) = k + (m - 1) /\ \A i \in 1 .. k + (m - 1) : g[i] = ran[i]
    BY <1>7, <1>13, <2>2
  <2>4. ASSUME NEW i \in 1 .. Len(g) PROVE g[i] = ran2[i]
    <3>1. i \in 1 .. k + (m - 1) /\ i \in 1 .. k + m
      BY <1>7, <2>3
    <3>2. ~ (i <= k) => i - k \in 1 .. m - 1
      BY <3>1
    <3>3. ~ (i <= k) => f[i - k] = s[i - k]
      BY <1>7, <3>2
    <3> QED
      BY <1>13, <2>3, <3>1, <3>3
  <2>5. Len(g) = Len(ran2)
    BY <1>13, <2>3
  <2> QED
    BY <2>1, <2>4, <2>5, SeqEqual
<1>16. ASSUME NEW c \in Clients
       PROVE  OrderOf(arrivals', OwnedBy(c), Ran', batch'.preempted, Waiting(c)')
  <2>1. OrderOf(arrivals, OwnedBy(c), ran, batch.preempted, Waiting(c))
    BY <1>10 DEF OrderInv
  <2>2. OrderOf(arrivals, OwnedBy(c), ran2, Append(batch.preempted, x), Waiting(c))
    BY <1>3, <1>14, <1>15, <2>1, OrderPreempt
  <2>3. Waiting(c)' = Waiting(c)
    BY <1>2 DEF Waiting
  <2> QED
    BY <1>4, <1>11, <2>2, <2>3
<1> QED
  BY <1>16 DEF OrderInv
(* The end of _schedule_default: the scheduled groups join the running     *)
(* queue, the preempted ones their client's queue.                         *)
LEMMA OrderOfBatch ==
    ASSUME SchedInv, OrderInv, arrivals' = arrivals, Commit
    PROVE  OrderInv'
<1> USE DEF SchedInv
<1>1. /\ phase = "commit" /\ phase' = "execute"
      /\ running' = (running \o batch.prefills) \o batch.decodes
      /\ client_waiting_queues' = ExtendedLeft(client_waiting_queues, batch.preempted)
      /\ batch' = [batch EXCEPT !.preempted = <<>>, !.swapped_out = <<>>]
  BY DEF Commit
<1>2. /\ batch.decodes \in Seq(Requests) /\ running \in Seq(Requests)
      /\ batch.prefills \in Seq(Requests) /\ batch.preempted \in Seq(Requests)
      /\ DOMAIN batch = {"prefills", "decodes", "preempted", "swapped_out"}
      /\ \A c \in Clients : Waiting(c) \in Seq(Requests)
      /\ Ran \in Seq(Requests)
  BY ListType, LineType DEF TypeOK
<1>3. batch'.preempted = <<>>
  BY <1>1, <1>2
<1>4. Ran' = Ran
  <2>1. Ran' = (running \o batch.prefills) \o batch.decodes
    BY <1>1 DEF Ran
  <2>2. Ran = (batch.decodes \o running) \o batch.prefills
    BY <1>1 DEF Ran
  <2>3. CASE batch.prefills = <<>>
    <3>1. running = <<>>
      BY <1>1, <2>3 DEF PhaseInv
    <3>2. (<<>> \o <<>>) \o batch.decodes = batch.decodes
      BY <1>2
    <3>3. (batch.decodes \o <<>>) \o <<>> = batch.decodes
      BY <1>2
    <3> QED
      BY <2>1, <2>2, <2>3, <3>1, <3>2, <3>3
  <2>4. CASE batch.prefills # <<>>
    <3>1. batch.decodes = <<>>
      BY <2>4 DEF PhaseInv
    <3>2. running \o batch.prefills \in Seq(Requests)
      BY <1>2
    <3>3. (running \o batch.prefills) \o <<>> = running \o batch.prefills
      BY <3>2, ConcatEmptySeq
    <3>4. <<>> \o running = running
      BY <1>2, ConcatEmptySeq
    <3> QED
      BY <2>1, <2>2, <3>1, <3>3, <3>4
  <2> QED
    BY <2>3, <2>4
<1>5. ASSUME NEW c \in Clients
      PROVE  OrderOf(arrivals', OwnedBy(c), Ran', batch'.preempted, Waiting(c)')
  <2>1. OrderOf(arrivals, OwnedBy(c), Ran, batch.preempted, Waiting(c)) /\ Waiting(c) \in Seq(Requests)
    BY <1>2 DEF OrderInv
  <2>2. CASE c \in DOMAIN client_waiting_queues
    <3>1. Waiting(c)' = Reverse(Kept(batch.preempted, OwnedBy(c))) \o Waiting(c)
      BY <1>1, <2>2 DEF Waiting, Lookup, ExtendedLeft
    <3>2. OrderOf(arrivals, OwnedBy(c), Ran, <<>>, Reverse(Kept(batch.preempted, OwnedBy(c))) \o Waiting(c))
      BY <1>2, <2>1, OrderCommit
    <3> QED
      BY <1>3, <1>4, <3>1, <3>2
  <2>3. CASE c \notin DOMAIN client_waiting_queues
    <3>1. Waiting(c)' = Waiting(c)
      BY <1>1, <2>3 DEF Waiting, Lookup, ExtendedLeft
    <3>2. Thin(<<>>, batch.preempted)
      <4>1. PICK f : f = [i \in {} |-> i]
        OBVIOUS
      <4>2. f \in [{} -> DOMAIN batch.preempted]
        BY <4>1
      <4>3. DOMAIN <<>> = {}
        OBVIOUS
      <4> QED
        BY <4>2, <4>3 DEF Thin, Increasing
    <3>3. Thin(Ran, Ran) /\ Thin(Waiting(c), Waiting(c))
      BY <1>2, <2>1, ThinKept
    <3>4. OrderOf(arrivals, OwnedBy(c), Ran, <<>>, Waiting(c))
      BY <2>1, <3>2, <3>3, OrderThin
    <3> QED
      BY <1>3, <1>4, <3>1, <3>4
  <2> QED
    BY <2>2, <2>3
<1> QED
  BY <1>5 DEF OrderInv

(* The steps that only go on to the next phase.                            *)
LEMMA OrderPhase ==
    ASSUME SchedInv, OrderInv, arrivals' = arrivals,
           \/ BeginSchedule \/ EndPrefills \/ EndRunning \/ EndSwapped \/ FailSwapOut
           \/ Terminated \/ UNCHANGED vars
    PROVE  OrderInv'
<1> USE DEF SchedInv
<1>1. /\ client_waiting_queues' = client_waiting_queues /\ running' = running
      /\ batch' = batch \/ (BeginSchedule /\ batch' = NoBatch)
      /\ phase' = phase \/ (phase # "execute" /\ phase' # "execute")
  BY DEF BeginSchedule, EndPrefills, EndRunning, EndSwapped, FailSwapOut, Terminated, vars, queueVars
<1>2. batch' = batch
  BY <1>1 DEF BeginSchedule, PhaseInv
<1>3. Ran' = Ran
  BY <1>1, <1>2 DEF Ran
<1>4. \A c \in Clients : Waiting(c)' = Waiting(c)
  BY <1>1 DEF Waiting
<1> QED
  BY <1>2, <1>3, <1>4 DEF OrderInv

(* With recomputation nothing is ever swapped out.                         *)
LEMMA NothingSwapped ==
    ASSUME SchedInv, PreemptionMode = "recompute"
    PROVE  swapped = <<>>
<1> USE DEF SchedInv
<1>1. swapped \in Seq(Requests)
  BY DEF TypeOK
<1>2. SUFFICES ASSUME swapped # <<>> PROVE FALSE
  OBVIOUS
<1>3. PICK x \in Requests : x \in Range(swapped)
  <2>1. Head(swapped) \in Requests /\ 1 \in DOMAIN swapped /\ swapped[1] = Head(swapped)
    BY <1>1, <1>2
  <2> QED
    BY <2>1 DEF Range
<1>4. status[x] = "SWAPPED"
  BY <1>3, WhereIs
<1> QED
  BY <1>3, <1>4 DEF TableInv

(* The inductive step.                                                     *)
LEMMA OrderKeeps ==
    ASSUME PreemptionMode = "recompute", SchedInv, ArrivalInv, OrderInv, [MCNext]_mcVars
    PROVE  SchedInv' /\ ArrivalInv' /\ OrderInv'
<1>1. CASE MCNext
  <2>1. Next /\ Record
    BY <1>1 DEF MCNext
  <2>2. SchedInv'
    BY <2>1, StepKeeps
  <2>3. /\ ArrivalInv'
        /\ \A x \in Requests : AddSeqGroup(x) => arrivals' = arrivals \o <<x>>
        /\ (\A x \in Requests : ~ AddSeqGroup(x)) => arrivals' = arrivals
    BY <2>1, ArrivalKeeps
  <2>4. ASSUME NEW x \in Requests, AddSeqGroup(x) PROVE OrderInv'
    BY <2>3, <2>4, OrderWithNew
  <2>5. ASSUME \A x \in Requests : ~ AddSeqGroup(x) PROVE OrderInv'
    <3>1. arrivals' = arrivals
      BY <2>3, <2>5
    <3>2. ~ PreemptBySwap /\ ~ SwapIn /\ ~ FailSwapped
      BY NothingSwapped DEF PreemptBySwap, SwapIn, FailSwapped
    <3>3. ASSUME \/ \E x \in Requests : AbortSeqGroup(x)
                 \/ IgnorePrompt \/ ExecutePrefill \/ ExecuteDecode
          PROVE  OrderInv'
      BY <2>2, <3>1, <3>3, OrderRemoves
    <3>4. CASE AdmitPrefill
      BY <3>1, <3>4, OrderPrefill
    <3>5. CASE ScheduleDecode
      BY <3>1, <3>5, OrderDecode
    <3>6. CASE PreemptByRecompute
      BY <2>2, <3>1, <3>6, OrderRecompute
    <3>7. CASE Commit
      BY <3>1, <3>7, OrderOfBatch
    <3>8. CASE BeginSchedule \/ EndPrefills \/ EndRunning \/ EndSwapped \/ FailSwapOut \/ Terminated
      BY <3>1, <3>8, OrderPhase
    <3> QED
      BY <2>1, <2>5, <3>2, <3>3, <3>4, <3>5, <3>6, <3>7, <3>8 DEF Next, EngineStep
  <2> QED
    BY <2>2, <2>3, <2>4, <2>5
<1>2. CASE UNCHANGED mcVars
  <2>1. UNCHANGED vars /\ arrivals' = arrivals
    BY <1>2 DEF mcVars
  <2>2. SchedInv'
    BY <2>1, StepKeeps
  <2>3. OrderInv'
    BY <2>1, OrderPhase
  <2>4. ArrivalInv'
    BY <2>1 DEF ArrivalInv, vars
  <2> QED
    BY <2>2, <2>3, <2>4
<1> QED
  BY <1>1, <1>2

(* With recomputation, a client's requests stay in the order in which they *)
(* arrived, whatever is preempted, aborted or ignored: extendleft returns  *)
(* the preempted ones, last first, to the head of their client's queue     *)
(* (_schedule_running, CPIReqQueue.extendleft).                            *)
THEOREM ClientsAreFifo ==
    ASSUME PreemptionMode = "recompute"
    PROVE  MCSpec => []ClientFifo
<1>1. MCInit => SchedInv /\ ArrivalInv /\ OrderInv
  <2>1. SUFFICES ASSUME MCInit PROVE SchedInv /\ ArrivalInv /\ OrderInv
    OBVIOUS
  <2>2. /\ arrivals = <<>> /\ running = <<>> /\ batch = NoBatch /\ phase = "idle"
        /\ status = [r \in Requests |-> "NEW"] /\ DOMAIN client_waiting_queues = {}
    BY <2>1 DEF MCInit, Init
  <2>3. SchedInv
    BY <2>1, InitHolds DEF MCInit
  <2>4. Range(<<>>) = {} /\ DOMAIN <<>> = {}
    BY DEF Range
  <2>5. ArrivalInv
    <3>1. arrivals \in Seq(Requests)
      BY <2>2, EmptySeq
    <3>2. {r \in Requests : status[r] # "NEW"} = {}
      BY <2>2
    <3> QED
      BY <2>2, <2>4, <3>1, <3>2 DEF ArrivalInv
  <2>6. Ran = <<>>
    BY <2>2 DEF Ran, NoBatch
  <2>7. batch.preempted = <<>> /\ \A c \in Clients : Waiting(c) = <<>>
    BY <2>2 DEF NoBatch, Waiting, Lookup
  <2>8. OrderInv
    BY <2>4, <2>6, <2>7 DEF OrderInv, OrderOf, InOrder, BackOrder, Precede
  <2> QED
    BY <2>3, <2>5, <2>8
<1>2. SchedInv /\ ArrivalInv /\ OrderInv /\ [MCNext]_mcVars => (SchedInv /\ ArrivalInv /\ OrderInv)'
  BY OrderKeeps
<1>3. ASSUME SchedInv, ArrivalInv, OrderInv PROVE ClientFifo
  <2>1. SUFFICES ASSUME NEW c \in DOMAIN client_waiting_queues, phase = "idle",
                        NEW own, own = Kept(running, OwnedBy(c)) \o client_waiting_queues[c]
                 PROVE  own = Kept(arrivals, Range(own))
    BY DEF ClientFifo
  <2>2. /\ c \in Clients /\ running \in Seq(Requests) /\ arrivals \in Seq(Requests)
        /\ client_waiting_queues[c] \in Seq(Requests)
    BY <1>3 DEF SchedInv, TypeOK, ArrivalInv
  <2>3. PICK k \in Seq(Requests) : k = Kept(running, OwnedBy(c))
    BY <2>2, KeptTimes
  <2>4. PICK q \in Seq(Requests) : q = client_waiting_queues[c]
    BY <2>2
  <2>5. Ran = running /\ Waiting(c) = q
    <3>1. batch.prefills = <<>> /\ batch.decodes = <<>>
      BY <1>3, <2>1 DEF SchedInv, PhaseInv, NoBatch
    <3> QED
      BY <2>2, <2>4, <3>1, NoneAdded DEF Ran, Waiting, Lookup
  <2>6. PICK S : S = OwnedBy(c)
    OBVIOUS
  <2>7. /\ InOrder(arrivals, S, running) /\ InOrder(arrivals, S, q)
        /\ Precede(arrivals, S, Range(running), Range(q))
    BY <1>3, <2>2, <2>5, <2>6 DEF OrderInv, OrderOf
  <2>8. InOrder(arrivals, S, k) /\ Range(k) \subseteq Range(running)
    BY <2>2, <2>3, <2>6, <2>7, ThinKept, ThinOrder
  <2>9. Precede(arrivals, S, Range(k), Range(q))
    BY <2>7, <2>8 DEF Precede
  <2>10. PICK o \in Seq(Requests) : o = k \o q
    <3>1. k \o q \in Seq(Requests)
      OBVIOUS
    <3> QED
      BY <3>1
  <2>11. InOrder(arrivals, S, o) /\ Range(o) = Range(k) \cup Range(q)
    BY <2>7, <2>8, <2>9, <2>10, OrderCat
  <2>12. ASSUME NEW x \in Range(o) PROVE x \in S /\ x \in Range(arrivals)
    <3>1. CASE x \in Range(k)
      <4>1. PICK f \in [DOMAIN Kept(running, S) -> DOMAIN running] :
               \A i \in DOMAIN Kept(running, S) : Kept(running, S)[i] = running[f[i]] /\ running[f[i]] \in S
        BY <2>2, KeptOrder
      <4>2. x \in S
        BY <2>3, <2>6, <3>1, <4>1 DEF Range
      <4>3. x \in Range(Ran)
        BY <2>5, <2>8, <3>1
      <4>4. x \in Requests /\ status[x] # "NEW"
        BY <1>3, <4>3, LineType
      <4> QED
        BY <1>3, <4>2, <4>4 DEF ArrivalInv
    <3>2. CASE x \in Range(q)
      <4>1. x \in Requests /\ status[x] # "NEW"
        BY <1>3, <2>2, <2>5, <3>2, LineType
      <4>2. ClientOf[x] = c
        BY <1>3, <2>4, <3>2, WhereIs DEF SchedInv
      <4> QED
        BY <1>3, <2>6, <4>1, <4>2 DEF ArrivalInv, OwnedBy
    <3> QED
      BY <2>11, <3>1, <3>2
  <2>13. \A i, j \in DOMAIN o : i < j => Older(arrivals, o[i], o[j])
    <3>1. \A i \in DOMAIN o : o[i] \in S
      BY <2>12 DEF Range
    <3> QED
      BY <2>11, <3>1 DEF InOrder
  <2>14. Range(o) \subseteq Range(arrivals)
    BY <2>12
  <2>15. \A i, j \in DOMAIN arrivals : arrivals[i] = arrivals[j] => i = j
    BY <1>3 DEF ArrivalInv
  <2>16. o = Kept(arrivals, Range(o))
    BY <2>2, <2>13, <2>14, <2>15, OrderedIsKept
  <2> QED
    BY <2>1, <2>3, <2>4, <2>10, <2>16
<1> QED
  BY <1>1, <1>2, <1>3, PTL DEF MCSpec
=============================================================================
