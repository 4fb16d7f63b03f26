-------------------------- MODULE MCFairScheduler --------------------------
(***************************************************************************)
(* Instances of FairScheduler for TLC, with three history variables that   *)
(* the fairness properties are stated with.                                *)
(***************************************************************************)
EXTENDS FairScheduler

VARIABLES
    arrivals,   \* the requests in the order of add_seq_group
    bills,      \* how often the prefill of a request was charged
    overtaken   \* for a client c, the clients that have been waiting without
                \* a break since c last had a request admitted

mcVars == <<vars, arrivals, bills, overtaken>>

MCInit ==
    /\ Init
    /\ arrivals = <<>>
    /\ bills = [r \in Requests |-> 0]
    /\ overtaken = [c \in Clients |-> {}]

Admitted == {ClientOf[r] : r \in {q \in Requests : status[q] = "WAITING" /\ status'[q] = "RUNNING"}}

(* The history variables follow from the step taken.                       *)
Record ==
    /\ arrivals' = arrivals \o SetToSeq({r \in Requests : status[r] = "NEW" /\ status'[r] = "WAITING"})
    /\ bills' = [r \in Requests |->
                    bills[r] + (IF phase = "execute" /\ Contains(batch.prefills, r) /\ IsBilled(r)
                                THEN 1 ELSE 0)]
    /\ overtaken' = [c \in Clients |->
                        (IF c \in Admitted THEN Clients \ {c} ELSE overtaken[c])
                        \cap Backlogged(client_waiting_queues')]

MCNext == Next /\ Record
MCSpec == MCInit /\ [][MCNext]_mcVars /\ WF_mcVars(EngineStep /\ Record)

-----------------------------------------------------------------------------
(* Values for the constants.                                               *)
CONSTANTS a, b, a1, a2, b1, b2
TwoEach == (a1 :> a) @@ (a2 :> a) @@ (b1 :> b) @@ (b2 :> b)
TwoToOne == (a1 :> a) @@ (a2 :> a) @@ (b1 :> b)
Prompts223 == (a1 :> 2) @@ (a2 :> 2) @@ (b1 :> 3) @@ (b2 :> 1)
Prompts12 == [r \in Requests |-> IF r \in {a1, b1} THEN 2 ELSE 1]

-----------------------------------------------------------------------------
(* The most a client can be charged from one admission on, before its next *)
(* one: the admitted prefill, and the decodes of all the groups that run.  *)
Slack ==
    PrefillWeight * Max(Range(PromptLen)) + MaxNumSeqs * DecodeWeight * (MaxTokens - 1)

(* Bounded unfairness, the purpose of the scoreboard: as long as client d  *)
(* has waited since the last admission of client c, c is not charged more  *)
(* than Slack above d, whatever the arrivals, lengths, hits, credits and   *)
(* preemptions.                                                            *)
FairShare ==
    \A c \in Clients : \A d \in overtaken[c] : served[c] <= served[d] + Slack

(* A request is billed for its prefill once, when it first runs; the       *)
(* prefills after a preemption are free (sampling_params.py, preempted).   *)
BilledOnce ==
    \A r \in Requests : bills[r] <= 1 /\ (length[r] > PromptLen[r] => bills[r] = 1)

(* With recomputation, the requests of one client stay in their order of   *)
(* arrival: those that run are older than those that wait, and a preempted *)
(* one returns to its place.                                               *)
ClientFifo ==
    \A c \in DOMAIN client_waiting_queues :
        LET own == Kept(running, OwnedBy(c)) \o client_waiting_queues[c]
        IN  phase = "idle" => own = Kept(arrivals, Range(own))

(* The scoreboard is never reset or lowered, by a lift or otherwise.       *)
ServedMonotone ==
    [][\A c \in DOMAIN served : c \in DOMAIN served' /\ served[c] <= served'[c]]_mcVars
=============================================================================
