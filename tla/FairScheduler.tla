--------------------------- MODULE FairScheduler ---------------------------
(***************************************************************************)
(* The scheduler of the serving engine with fair computation enabled:      *)
(* Scheduler._schedule_default of vllm/core/scheduler.py over the          *)
(* CPIReqQueue, the block counts of BlockSpaceManagerV1, and the engine    *)
(* step (LLMEngine.step) that runs the scheduled batch, charges its        *)
(* prefills and frees the finished groups.                                 *)
(*                                                                         *)
(* The engine loop (MQLLMEngine.run_engine_loop) is one thread: it handles *)
(* the new inputs (add, abort), then makes one engine step.  A step is     *)
(* split into the iterations of its loops; "phase" is the place in it.     *)
(*                                                                         *)
(* Configuration: default policy, no chunked prefill, no LoRA, one         *)
(* sequence per group, delay_factor = 0, no sliding window or prefix       *)
(* caching in the block manager, output processing in the step itself.     *)
(***************************************************************************)
EXTENDS CPIReqQueue

CONSTANTS
    PromptLen,      \* prompt tokens of a request
    MaxTokens,      \* sampling_params.max_tokens
    MaxModelLen,    \* the prompt limit
    MaxNumSeqs,     \* scheduler_config.max_num_seqs
    BlockSize, NumGpuBlocks, NumCpuBlocks, Watermark,
    PreemptionMode, \* "recompute" or "swap"
    SharedTokens    \* token counts of the hits that are attributed

ASSUME SchedulerAssumption ==
    /\ PromptLen \in [Requests -> Nat \ {0}]
    /\ {MaxTokens, MaxModelLen, MaxNumSeqs, BlockSize, NumGpuBlocks} \subseteq Nat \ {0}
    /\ {NumCpuBlocks, Watermark} \subseteq Nat
    /\ PreemptionMode \in {"recompute", "swap"}
    /\ SharedTokens \subseteq Nat

(* Shares of attributed tokens are floats rounded to an integer; the token *)
(* counts are taken such that they come out even.                          *)
ASSUME AttributionAssumption ==
    \A tok \in SharedTokens, k \in 1 .. Cardinality(Clients) - 1 :
        /\ tok % (k + 1) = 0
        /\ (Eta * PrefillWeight * tok) % (k * (k + 1)) = 0

VARIABLES
    client_waiting_queues, served, credits,     \* Scheduler.waiting
    running, swapped,                           \* queues of groups
    status,         \* the SequenceStatus of a group's sequence
    length,         \* tokens of the sequence, generated ones included
    preempted,      \* sampling_params.preempted
    block_table,    \* number of blocks in the sequence's block table
    free_gpu, free_cpu,
    phase,          \* where the engine step is
    batch           \* the lists that one call of _schedule builds

queueVars == <<client_waiting_queues, served, credits>>
blockVars == <<block_table, free_gpu, free_cpu>>
vars == <<client_waiting_queues, served, credits, running, swapped, status,
          length, preempted, block_table, free_gpu, free_cpu, phase, batch>>

NoBatch == [prefills |-> <<>>, decodes |-> <<>>, preempted |-> <<>>, swapped_out |-> <<>>]

Init ==
    /\ client_waiting_queues = [c \in {} |-> <<>>]
    /\ served = [c \in {} |-> 0]
    /\ credits = [c \in {} |-> 0]
    /\ running = <<>> /\ swapped = <<>>
    /\ status = [r \in Requests |-> "NEW"]
    /\ length = PromptLen
    /\ preempted = [r \in Requests |-> FALSE]
    /\ block_table = [r \in Requests |-> 0]
    /\ free_gpu = NumGpuBlocks /\ free_cpu = NumCpuBlocks
    /\ phase = "idle"
    /\ batch = NoBatch

-----------------------------------------------------------------------------
(* Block manager.                                                          *)

(* Sequence.n_blocks                                                       *)
NBlocks(r) == (length[r] + BlockSize - 1) \div BlockSize

(* can_allocate.  Faulty variant: without the first test.                  *)
CanAllocateLater(r) == IF free_gpu - NBlocks(r) >= Watermark THEN "OK" ELSE "LATER"
CanAllocate(r) ==
    IF NumGpuBlocks - NBlocks(r) < Watermark THEN "NEVER"
    ELSE IF free_gpu - NBlocks(r) >= Watermark THEN "OK" ELSE "LATER"

(* can_swap_in: the blocks of the sequence and one more.                   *)
CanSwapIn(r) ==
    IF NumGpuBlocks < block_table[r] + 1 THEN "NEVER"
    ELSE IF free_gpu - (block_table[r] + 1) >= Watermark THEN "OK" ELSE "LATER"

(* can_append_slots: a free block for the one running sequence.            *)
CanAppendSlots == free_gpu >= 1

(* append_slots adds a block if the last token does not fit.               *)
(* Faulty variant: the last token is not counted.                          *)
MissingBlocksLate(r) ==
    NonNegative((length[r] - 1 + BlockSize - 1) \div BlockSize - block_table[r])
MissingBlocks(r) == NonNegative(NBlocks(r) - block_table[r])

(* The entries of the block tables of the groups in G.                     *)
BlocksOf(G) == UNION {{r} \X (1 .. block_table[r]) : r \in G}

(* The groups in G give back their blocks; a group is on the CPU exactly   *)
(* while its status is SWAPPED.                                            *)
(* Faulty variant: the blocks are not given back.                          *)
FreedNot(G) ==
    /\ block_table' = [r \in Requests |-> IF r \in G THEN 0 ELSE block_table[r]]
    /\ UNCHANGED <<free_gpu, free_cpu>>
Freed(G) ==
    LET onCpu == {r \in G : status[r] = "SWAPPED"}
    IN  /\ block_table' = [r \in Requests |-> IF r \in G THEN 0 ELSE block_table[r]]
        /\ free_gpu' = free_gpu + Cardinality(BlocksOf(G \ onCpu))
        /\ free_cpu' = free_cpu + Cardinality(BlocksOf(onCpu))

-----------------------------------------------------------------------------
(* Inputs, handled between two steps.                                      *)

(* add_seq_group                                                           *)
AddSeqGroup(r) ==
    /\ phase = "idle"
    /\ status[r] = "NEW"
    /\ status' = [status EXCEPT ![r] = "WAITING"]
    /\ client_waiting_queues' = Appended(client_waiting_queues, r)
    /\ served' = Lifted(client_waiting_queues', served, ClientOf[r])
    /\ UNCHANGED <<credits, running, swapped, length, preempted, blockVars, phase, batch>>

(* abort_seq_group: r leaves whichever queue it is in.                     *)
AbortSeqGroup(r) ==
    /\ phase = "idle"
    /\ status[r] \in {"WAITING", "RUNNING", "SWAPPED"}
    /\ client_waiting_queues' = Removed(client_waiting_queues, r)
    /\ running' = Kept(running, Requests \ {r})
    /\ swapped' = Kept(swapped, Requests \ {r})
    /\ status' = [status EXCEPT ![r] = "FINISHED"]
    /\ Freed({r})
    /\ UNCHANGED <<served, credits, length, preempted, phase, batch>>

-----------------------------------------------------------------------------
(* _schedule_default.                                                      *)

(* has_unfinished_seqs; the swapped groups go first: while there are any,  *)
(* no prefill is scheduled.                                                *)
BeginSchedule ==
    /\ phase = "idle"
    /\ Backlogged(client_waiting_queues) # {} \/ running # <<>> \/ swapped # <<>>
    /\ phase' = IF swapped = <<>> THEN "prefills" ELSE "running"
    /\ batch' = NoBatch
    /\ UNCHANGED <<queueVars, running, swapped, status, length, preempted, blockVars>>

TooLong(r) == length[r] > MaxModelLen \/ CanAllocate(r) = "NEVER"

(* budget.can_schedule.  Its token half never decides: a step admits one   *)
(* prompt, a decode counts one token, and the token budget is checked to   *)
(* be at least max_model_len and max_num_seqs (SchedulerConfig).           *)
CanSchedule(n) == n + 1 <= MaxNumSeqs

(* _schedule_prefills: the head of the queue can never run.                *)
IgnorePrompt ==
    /\ phase = "prefills"
    /\ \E c \in HeadClients(client_waiting_queues, served) :
        LET r == Head(client_waiting_queues[c])
        IN  /\ TooLong(r)
            /\ client_waiting_queues' = PopLeft(client_waiting_queues, c)
            /\ status' = [status EXCEPT ![r] = "FINISHED"]
    /\ UNCHANGED <<served, credits, running, swapped, length, preempted, blockVars, phase, batch>>

(* _schedule_prefills: one request a step is admitted.                     *)
AdmitPrefill ==
    /\ phase = "prefills"
    /\ batch.prefills = <<>>
    /\ CanSchedule(Len(running))
    /\ \E c \in HeadClients(client_waiting_queues, served) :
        LET r == Head(client_waiting_queues[c])
        IN  /\ ~ TooLong(r)
            /\ CanAllocate(r) = "OK"
            /\ client_waiting_queues' = PopLeft(client_waiting_queues, c)
            /\ status' = [status EXCEPT ![r] = "RUNNING"]
            /\ block_table' = [block_table EXCEPT ![r] = NBlocks(r)]
            /\ free_gpu' = free_gpu - NBlocks(r)
            /\ batch' = [batch EXCEPT !.prefills = <<r>>]
    /\ UNCHANGED <<served, credits, running, swapped, length, preempted, free_cpu, phase>>

(* _schedule_prefills: the queue is empty or its head has to wait.  No     *)
(* decodes are scheduled along with a prefill.                             *)
EndPrefills ==
    /\ phase = "prefills"
    /\ \/ Backlogged(client_waiting_queues) = {}
       \/ \E c \in HeadClients(client_waiting_queues, served) :
            LET r == Head(client_waiting_queues[c])
            IN  /\ ~ TooLong(r)
                /\ \/ CanAllocate(r) = "LATER"
                   \/ batch.prefills # <<>>
                   \/ ~ CanSchedule(Len(running))
    /\ phase' = IF batch.prefills = <<>> THEN "running" ELSE "commit"
    /\ UNCHANGED <<queueVars, running, swapped, status, length, preempted, blockVars, batch>>

(* _schedule_running: the head of the running queue gets its slot.         *)
ScheduleDecode ==
    /\ phase = "running"
    /\ running # <<>>
    /\ CanAppendSlots
    /\ LET r == Head(running)
       IN  /\ batch' = [batch EXCEPT !.decodes = Append(@, r)]
           /\ free_gpu' = free_gpu - MissingBlocks(r)
           /\ block_table' = [block_table EXCEPT ![r] = @ + MissingBlocks(r)]
    /\ running' = Tail(running)
    /\ UNCHANGED <<queueVars, swapped, status, length, preempted, free_cpu, phase>>

(* _schedule_running: there is no slot for the head, and the last of the   *)
(* running queue is preempted, be it the head itself.  Recomputation frees *)
(* its blocks and marks it, so that its next prefill is not charged.       *)
PreemptByRecompute ==
    /\ phase = "running"
    /\ running # <<>>
    /\ ~ CanAppendSlots
    /\ PreemptionMode = "recompute"
    /\ LET r == Last(running)
       IN  /\ Freed({r})
           /\ status' = [status EXCEPT ![r] = "WAITING"]
           /\ preempted' = [preempted EXCEPT ![r] = TRUE]
           /\ batch' = [batch EXCEPT !.preempted = Append(@, r)]
    /\ running' = Front(running)
    /\ UNCHANGED <<queueVars, swapped, length, phase>>

(* The other mode: its blocks move to the CPU ...                          *)
PreemptBySwap ==
    /\ phase = "running"
    /\ running # <<>>
    /\ ~ CanAppendSlots
    /\ PreemptionMode = "swap"
    /\ LET r == Last(running)
       IN  /\ block_table[r] <= free_cpu
           /\ free_cpu' = free_cpu - block_table[r]
           /\ free_gpu' = free_gpu + block_table[r]
           /\ status' = [status EXCEPT ![r] = "SWAPPED"]
           /\ batch' = [batch EXCEPT !.swapped_out = Append(@, r)]
    /\ running' = Front(running)
    /\ UNCHANGED <<queueVars, swapped, length, preempted, block_table, phase>>

(* ... and if the CPU has no room for them, the exception ends the engine. *)
FailSwapOut ==
    /\ phase = "running"
    /\ running # <<>>
    /\ ~ CanAppendSlots
    /\ PreemptionMode = "swap"
    /\ block_table[Last(running)] > free_cpu
    /\ phase' = "dead"
    /\ UNCHANGED <<queueVars, running, swapped, status, length, preempted, blockVars, batch>>

(* Swapped groups come back only if no group was preempted.                *)
EndRunning ==
    /\ phase = "running"
    /\ running = <<>>
    /\ phase' = IF batch.preempted = <<>> /\ batch.swapped_out = <<>> THEN "swapped" ELSE "commit"
    /\ UNCHANGED <<queueVars, running, swapped, status, length, preempted, blockVars, batch>>

(* _schedule_swapped: the head is swapped in and gets its slot.            *)
SwapIn ==
    /\ phase = "swapped"
    /\ swapped # <<>>
    /\ CanSwapIn(Head(swapped)) = "OK"
    /\ CanSchedule(Len(batch.decodes))
    /\ LET r == Head(swapped)
       IN  /\ free_cpu' = free_cpu + block_table[r]
           /\ free_gpu' = free_gpu - block_table[r] - MissingBlocks(r)
           /\ block_table' = [block_table EXCEPT ![r] = @ + MissingBlocks(r)]
           /\ status' = [status EXCEPT ![r] = "RUNNING"]
           /\ batch' = [batch EXCEPT !.decodes = Append(@, r)]
    /\ swapped' = Tail(swapped)
    /\ UNCHANGED <<queueVars, running, length, preempted, phase>>

(* _schedule_swapped: the head does not fit the GPU at all and is failed.  *)
(* Its block table is left as it is.                                       *)
FailSwapped ==
    /\ phase = "swapped"
    /\ swapped # <<>>
    /\ CanSwapIn(Head(swapped)) = "NEVER"
    /\ status' = [status EXCEPT ![Head(swapped)] = "FINISHED"]
    /\ swapped' = Tail(swapped)
    /\ UNCHANGED <<queueVars, running, length, preempted, blockVars, phase, batch>>

EndSwapped ==
    /\ phase = "swapped"
    /\ swapped # <<>> =>
        /\ CanSwapIn(Head(swapped)) # "NEVER"
        /\ CanSwapIn(Head(swapped)) = "OK" => ~ CanSchedule(Len(batch.decodes))
    /\ phase' = "commit"
    /\ UNCHANGED <<queueVars, running, swapped, status, length, preempted, blockVars, batch>>

(* The end of _schedule_default: the queues are updated and, if no prefill *)
(* is scheduled, every scheduled group is charged for its token.           *)
Commit ==
    /\ phase = "commit"
    /\ client_waiting_queues' = ExtendedLeft(client_waiting_queues, batch.preempted)
    /\ running' = running \o batch.prefills \o batch.decodes
    /\ swapped' = swapped \o batch.swapped_out
    /\ served' = IF batch.prefills = <<>> THEN DecodeCharged(served, batch.decodes) ELSE served
    /\ phase' = "execute"
    /\ batch' = [batch EXCEPT !.preempted = <<>>, !.swapped_out = <<>>]
    /\ UNCHANGED <<credits, status, length, preempted, blockVars>>

-----------------------------------------------------------------------------
(* LLMEngine.step after schedule().                                        *)

(* maybe_stop_sequence, tested on the sequence with its new token.         *)
MustStop(r) ==
    \/ length[r] + 1 > MaxModelLen
    \/ length[r] + 1 - PromptLen[r] >= MaxTokens

(* _process_model_outputs: each group of the batch gets a token; those     *)
(* that stop, at an EOS or stop token or because they must, are freed.     *)
ProcessOutputs(B) ==
    \E stopped \in SUBSET B :
        /\ {r \in B : MustStop(r)} \subseteq stopped
        /\ length' = [r \in Requests |-> IF r \in B THEN length[r] + 1 ELSE length[r]]
        /\ status' = [r \in Requests |-> IF r \in stopped THEN "FINISHED" ELSE status[r]]
        /\ running' = Kept(running, Requests \ stopped)
        /\ Freed(stopped)
        /\ phase' = "idle"
        /\ batch' = NoBatch
        /\ UNCHANGED <<client_waiting_queues, swapped, preempted>>

(* lmcache_retrieve_kv leaves a request out of prefill_served once it has  *)
(* been preempted.  Faulty variant: the mark is not looked at.             *)
IsBilledAlways(r) == TRUE
IsBilled(r) == ~ preempted[r]

(* The model runs a prefill.  "found" tokens of the prompt are in the      *)
(* cache, of which the last token of the prompt is computed all the same;  *)
(* "tok" of them are chunks that this client uses for the first time and   *)
(* the clients "old" used before.  The credits are granted even if the     *)
(* request is not billed.                                                  *)
ExecutePrefill ==
    /\ phase = "execute"
    /\ batch.prefills # <<>>
    /\ LET r == Head(batch.prefills)
           c == ClientOf[r]
       IN  \E found \in 0 .. length[r], tok \in SharedTokens \cup {0},
              old \in SUBSET (DOMAIN client_waiting_queues \ {c}) :
            LET hit     == Min({found, length[r] - 1})
                granted == IF tok > 0 THEN Granted(credits, tok, old) ELSE credits
                adj_hit == IF tok > 0 THEN AdjustedHit(hit, tok, old) ELSE hit
                cost    == PrefillCost(adj_hit, length[r] - adj_hit)
            IN  /\ tok <= found
                /\ (tok > 0) <=> (old # {})
                /\ served' = IF IsBilled(r) THEN PrefillServed(served, granted, c, cost) ELSE served
                /\ credits' = IF IsBilled(r) THEN CreditsLeft(granted, c, cost) ELSE granted
    /\ ProcessOutputs(Range(batch.prefills))

ExecuteDecode ==
    /\ phase = "execute"
    /\ batch.prefills = <<>>
    /\ ProcessOutputs(Range(batch.decodes))
    /\ UNCHANGED <<served, credits>>

-----------------------------------------------------------------------------
EngineStep ==
    \/ BeginSchedule
    \/ IgnorePrompt \/ AdmitPrefill \/ EndPrefills
    \/ ScheduleDecode \/ PreemptByRecompute \/ PreemptBySwap \/ FailSwapOut \/ EndRunning
    \/ SwapIn \/ FailSwapped \/ EndSwapped
    \/ Commit
    \/ ExecutePrefill \/ ExecuteDecode

(* The engine has ended, or polls its socket and all requests are done.    *)
Terminated ==
    /\ phase = "dead" \/ (phase = "idle" /\ \A r \in Requests : status[r] = "FINISHED")
    /\ UNCHANGED vars

Next ==
    \/ \E r \in Requests : AddSeqGroup(r) \/ AbortSeqGroup(r)
    \/ EngineStep
    \/ Terminated

(* run_engine_loop never stops stepping while there is work.               *)
Fairness == WF_vars(EngineStep)

Spec == Init /\ [][Next]_vars /\ Fairness

-----------------------------------------------------------------------------
Statuses == {"NEW", "WAITING", "RUNNING", "SWAPPED", "FINISHED"}
Phases == {"idle", "prefills", "running", "swapped", "commit", "execute", "dead"}

(* The shape of the state: in particular every client with a queue is on   *)
(* the scoreboard, so that popleft and the decode charge find its entry.   *)
TypeOK ==
    /\ DOMAIN client_waiting_queues \subseteq Clients
    /\ \A c \in DOMAIN client_waiting_queues : client_waiting_queues[c] \in Seq(Requests)
    /\ served \in [DOMAIN client_waiting_queues -> Nat]
    /\ DOMAIN credits \subseteq Clients /\ credits \in [DOMAIN credits -> Nat]
    /\ running \in Seq(Requests) /\ swapped \in Seq(Requests)
    /\ status \in [Requests -> Statuses]
    /\ length \in [Requests -> Nat]
    /\ preempted \in [Requests -> BOOLEAN]
    /\ block_table \in [Requests -> Nat]
    /\ free_gpu \in Nat /\ free_cpu \in Nat
    /\ phase \in Phases
    /\ batch \in [prefills : Seq(Requests), decodes : Seq(Requests),
                  preempted : Seq(Requests), swapped_out : Seq(Requests)]

Times(r, s) == Cardinality({i \in DOMAIN s : s[i] = r})
Once(r, s, live) == Times(r, s) = IF live THEN 1 ELSE 0

(* Every group is in exactly one place, the one its sequence's status      *)
(* names, and in no other client's queue: adding, aborting, preempting and *)
(* swapping neither lose nor duplicate a request.                          *)
OnePlace ==
    LET scheduled == IF phase = "execute" THEN <<>> ELSE batch.prefills \o batch.decodes
    IN  \A r \in Requests :
          /\ Once(r, Lookup(client_waiting_queues, ClientOf[r], <<>>) \o batch.preempted,
                  status[r] = "WAITING")
          /\ Once(r, running \o scheduled, status[r] = "RUNNING")
          /\ Once(r, swapped \o batch.swapped_out, status[r] = "SWAPPED")
          /\ \A c \in DOMAIN client_waiting_queues \ {ClientOf[r]} :
                ~ Contains(client_waiting_queues[c], r)

(* The blocks that are not free are those of the running groups on the GPU *)
(* and those of the swapped groups on the CPU: a group that waits or has   *)
(* finished holds none.                                                    *)
BlocksConserved ==
    LET held(st) == Cardinality(BlocksOf({r \in Requests : status[r] = st}))
    IN  /\ free_gpu + held("RUNNING") = NumGpuBlocks
        /\ free_cpu + held("SWAPPED") = NumCpuBlocks

(* The assertion on the budget at the end of _schedule_default, however    *)
(* the batch came about: no more than max_num_seqs groups run, and each    *)
(* group that runs has the blocks its tokens need.                         *)
BudgetHolds ==
    phase = "execute" =>
        /\ Len(running) <= MaxNumSeqs
        /\ \A r \in Range(batch.prefills \o batch.decodes) : block_table[r] = NBlocks(r)

(* A request that waits is eventually finished, failed or aborted,         *)
(* however often it is preempted.                                          *)
EveryRequestLeaves ==
    \A r \in Requests : (status[r] = "WAITING") ~> (status[r] = "FINISHED")
=============================================================================
