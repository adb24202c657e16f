------------------------------ MODULE FairQueue ------------------------------
(***************************************************************************)
(* PacketPassFairQueue.c: the packets of several flows take turns on one    *)
(* output.  A flow pays for its packets in time, and the queued flow with   *)
(* the least time is the next to send.  The model keeps the job order of    *)
(* BPending.c and the states of the PacketPassInterface of every flow and   *)
(* of the output: a call is a job of its own, and so is its completion.     *)
(*                                                                         *)
(* The queue is the record q:                                              *)
(*   flows      flows_list            queued    the flows in queued_tree    *)
(*   time, len  of each flow          sending   sending_flow, or None       *)
(*   previous   previous_flow         busy_handler  flows that have one set *)
(*   freeing    after PrepareFree     jobs      the pending jobs, see above *)
(*   input      state of each flow's interface, output: that of the output  *)
(*   ok         no ASSERT has failed                                        *)
(***************************************************************************)
EXTENDS Integers, FiniteSets, BPending

CONSTANTS
    Flow,                \* addresses of flows, None is not one
    None,                \* no flow (NULL)
    MTU,                 \* of the output
    packet_weight,       \* what a packet costs besides its length
    FAIRQUEUE_MAX_TIME   \* the largest time, 2^64 - 1 in the program

ASSUME FairQueueAssumption ==
    /\ None \notin Flow
    /\ MTU \in Nat /\ packet_weight \in Nat \ {0} /\ FAIRQUEUE_MAX_TIME \in Nat
    /\ MTU + packet_weight <= FAIRQUEUE_MAX_TIME   \* or Init fails

VARIABLE q

State == {"none", "operation_pending", "busy", "done_pending"}
Time  == 0..FAIRQUEUE_MAX_TIME

-----------------------------------------------------------------------------
(* The first flow of the tree has the least time; the address breaks ties.  *)
GetFirst(s) == CHOOSE f \in s.queued : \A g \in s.queued : s.time[f] <= s.time[g]

get_current_time(s) ==
    LET waiting == s.queued \cup ({s.previous} \ {None})
    IN  IF s.sending # None THEN s.time[s.sending]
        ELSE IF waiting = {} THEN 0
        ELSE CHOOSE t \in {s.time[f] : f \in waiting} :
                \A f \in waiting : t <= s.time[f]

(* When the flow's time would overflow, the least queued time is taken off   *)
(* every flow.  The flow itself may go below zero in between: its time is a *)
(* machine word, and the addition brings it back.                          *)
(* Mutants: its time, too, stops at zero; the time is only added to.        *)
increment_sent_flow_stop(s, flow, amount) ==
    LET subtract == IF s.time[flow] + amount <= FAIRQUEUE_MAX_TIME THEN 0
                    ELSE IF s.queued = {} THEN s.time[flow]
                    ELSE s.time[GetFirst(s)]
        lowered(f) == IF subtract > s.time[f] THEN 0 ELSE s.time[f] - subtract
    IN  [s EXCEPT !.time = [f \in Flow |-> lowered(f) + IF f = flow THEN amount ELSE 0]]
increment_sent_flow_add(s, flow, amount) == [s EXCEPT !.time[flow] = @ + amount]
increment_sent_flow(s, flow, amount) ==
    LET overflow == amount > FAIRQUEUE_MAX_TIME - s.time[flow]
        subtract == IF ~overflow THEN 0
                    ELSE IF s.queued = {} THEN s.time[flow]
                    ELSE s.time[GetFirst(s)]
        lowered(f) == IF subtract > s.time[f] THEN 0 ELSE s.time[f] - subtract
        word(n) == n % (FAIRQUEUE_MAX_TIME + 1)
    IN  [s EXCEPT
           !.time = [f \in Flow |->
                       IF f = flow THEN word(word(s.time[f] - subtract) + amount)
                                   ELSE IF f \in s.flows THEN lowered(f)
                                   ELSE s.time[f]],
           !.ok = @ /\ amount <= FAIRQUEUE_MAX_TIME
                    /\ flow \notin s.queued /\ s.sending = None
                    /\ \A f \in s.flows \ {flow} :
                          subtract > s.time[f] => f \notin s.queued]

(* PacketPassInterface_Sender_Send and _Done: the call becomes a job.       *)
SendOutput(s) ==
    [s EXCEPT !.output = "operation_pending", !.jobs = Set(@, <<"operation", None>>),
              !.ok = @ /\ s.output = "none"]
SendInput(s, f, length) ==
    [s EXCEPT !.input[f] = "operation_pending", !.len[f] = length,
              !.jobs = Set(@, <<"operation", f>>),
              !.ok = @ /\ s.input[f] = "none"]
DoneInput(s, f) ==
    [s EXCEPT !.input[f] = "done_pending", !.jobs = Set(@, <<"done", f>>),
              !.ok = @ /\ s.input[f] = "busy"]

(* Mutant: the flow that was queued first is not looked for.                *)
schedule_any(s) ==
    LET f == CHOOSE g \in s.queued : \A h \in s.queued : s.time[h] <= s.time[g]
    IN  SendOutput([s EXCEPT !.queued = @ \ {f}, !.sending = f])
schedule(s) ==
    LET f == GetFirst(s)
    IN  SendOutput([s EXCEPT !.queued = @ \ {f}, !.sending = f,
                             !.ok = @ /\ s.sending = None /\ s.previous = None
                                      /\ ~s.freeing /\ s.queued # {}])

schedule_job_handler(s) ==
    LET ready == [s EXCEPT !.previous = None,
                           !.ok = @ /\ s.sending = None /\ ~s.freeing]
    IN  IF s.queued = {} THEN ready ELSE schedule(ready)

(* A flow that comes back at once, from the done handler of its last        *)
(* packet, keeps its time; any other is raised to the current time.         *)
(* Mutants: an idle flow keeps its time as well; the first packet after a    *)
(* pause waits for a job that nobody sets.                                 *)
input_handler_send_waits(s, flow) ==
    [s EXCEPT !.previous = IF @ = flow THEN None ELSE @,
              !.queued = @ \cup {flow}]
input_handler_send_credit(s, flow) ==
    LET queued == [s EXCEPT !.previous = IF @ = flow THEN None ELSE @,
                            !.queued = @ \cup {flow}]
    IN  IF s.sending = None /\ ~IsSet(s.jobs, <<"schedule", None>>)
        THEN schedule(queued) ELSE queued
input_handler_send(s, flow) ==
    LET current == get_current_time(s)
        queued == [s EXCEPT
                     !.previous = IF @ = flow THEN None ELSE @,
                     !.time[flow] = IF flow # s.previous /\ @ < current
                                    THEN current ELSE @,
                     !.queued = @ \cup {flow},
                     !.ok = @ /\ flow # s.sending /\ flow \notin s.queued
                              /\ ~s.freeing]
    IN  IF s.sending = None /\ ~IsSet(s.jobs, <<"schedule", None>>)
        THEN schedule(queued) ELSE queued

-----------------------------------------------------------------------------
Flow_Init(s, flow) ==
    [s EXCEPT !.flows = @ \cup {flow}, !.time[flow] = 0, !.input[flow] = "none",
              !.ok = @ /\ ~s.freeing]

(* Mutant: the jobs of the flow's interface stay behind.                    *)
Flow_Free_jobs(s, flow) ==
    [s EXCEPT !.flows = @ \ {flow}, !.queued = @ \ {flow},
              !.sending  = IF @ = flow THEN None ELSE @,
              !.previous = IF @ = flow THEN None ELSE @,
              !.time[flow] = 0, !.len[flow] = 0, !.input[flow] = "none",
              !.busy_handler = @ \ {flow},
              !.ok = @ /\ (s.freeing \/ flow # s.sending)]
Flow_Free(s, flow) ==
    [s EXCEPT !.flows = @ \ {flow}, !.queued = @ \ {flow},
              !.sending  = IF @ = flow THEN None ELSE @,
              !.previous = IF @ = flow THEN None ELSE @,
              !.time[flow] = 0, !.len[flow] = 0, !.input[flow] = "none",
              !.busy_handler = @ \ {flow},
              !.jobs = Unset(Unset(@, <<"operation", flow>>), <<"done", flow>>),
              !.ok = @ /\ (s.freeing \/ flow # s.sending)]

(* The busy handler is the one of the udpgw server, which frees the flow.   *)
(* The schedule job is set before the flow is told that it is done, so that *)
(* the flow can send again before the next one is chosen.                  *)
(* Mutant: the other way round.                                            *)
output_handler_done_order(s) ==
    LET flow == s.sending
        charged == increment_sent_flow(
                      [s EXCEPT !.sending = None, !.previous = flow],
                      flow, packet_weight + s.len[flow])
        told == [DoneInput(charged, flow) EXCEPT !.jobs = Set(@, <<"schedule", None>>)]
    IN  IF flow \in s.busy_handler THEN Flow_Free(told, flow) ELSE told
output_handler_done(s) ==
    LET flow == s.sending
        charged == increment_sent_flow(
                      [s EXCEPT !.sending = None, !.previous = flow,
                                !.ok = @ /\ flow # None /\ s.previous = None
                                         /\ ~IsSet(s.jobs, <<"schedule", None>>)
                                         /\ ~s.freeing /\ flow \notin s.queued],
                      flow, packet_weight + s.len[flow])
        told == DoneInput([charged EXCEPT !.jobs = Set(@, <<"schedule", None>>)], flow)
    IN  IF flow \in s.busy_handler THEN Flow_Free(told, flow) ELSE told

(* "If the flow is considered busy, it must not be freed."                 *)
IsBusy(s, flow) == flow = s.sending

-----------------------------------------------------------------------------
Init ==
    q = [flows |-> {}, queued |-> {}, sending |-> None, previous |-> None,
         time |-> [f \in Flow |-> 0], len |-> [f \in Flow |-> 0],
         busy_handler |-> {}, freeing |-> FALSE, jobs |-> <<>>,
         input |-> [f \in Flow |-> "none"], output |-> "none", ok |-> TRUE]

(* What the users of the queue do, in jobs and handlers of their own.       *)
NewFlow == \E f \in Flow \ q.flows : ~q.freeing /\ q' = Flow_Init(q, f)

Send == \E f \in q.flows, length \in 0..MTU :
           ~q.freeing /\ q.input[f] = "none" /\ q' = SendInput(q, f, length)

FreeFlow == \E f \in q.flows :
               (q.freeing \/ ~IsBusy(q, f)) /\ q' = Flow_Free(q, f)

SetBusyHandler == \E f \in q.flows :
    ~q.freeing /\ IsBusy(q, f) /\ q' = [q EXCEPT !.busy_handler = @ \cup {f}]

PrepareFree == ~q.freeing /\ q' = [q EXCEPT !.freeing = TRUE]

(* The output is freed with the queue, and both are made anew.              *)
Free == q.freeing /\ q.flows = {}
        /\ q' = [q EXCEPT !.freeing = FALSE, !.jobs = <<>>, !.output = "none",
                          !.ok = @ /\ q.queued = {} /\ q.previous = None
                                   /\ q.sending = None]

(* The output has sent the packet.                                         *)
OutputDone == ~q.freeing /\ q.output = "busy"
              /\ q' = [q EXCEPT !.output = "done_pending",
                                !.jobs = Set(@, <<"output done", None>>)]

(* The jobs.  None runs once the queue is being freed.                      *)
Runs(job) == ~q.freeing /\ q.jobs # <<>> /\ Head(q.jobs) = job
Taken == [q EXCEPT !.jobs = Tail(@)]

RunInput(f) ==
    /\ Runs(<<"operation", f>>)
    /\ q' = input_handler_send(
               [Taken EXCEPT !.input[f] = "busy",
                             !.ok = @ /\ f \in q.flows
                                      /\ q.input[f] = "operation_pending"], f)
RunDone(f) ==
    /\ Runs(<<"done", f>>)
    /\ q' = [Taken EXCEPT !.input[f] = "none",
                          !.ok = @ /\ f \in q.flows /\ q.input[f] = "done_pending"]
RunSchedule == Runs(<<"schedule", None>>) /\ q' = schedule_job_handler(Taken)
RunOutput ==
    /\ Runs(<<"operation", None>>)
    /\ q' = [Taken EXCEPT !.output = "busy"]
RunOutputDone ==
    /\ Runs(<<"output done", None>>)
    /\ q' = output_handler_done([Taken EXCEPT !.output = "none"])

RunJob == RunSchedule \/ RunOutput \/ RunOutputDone
          \/ \E f \in Flow : RunInput(f) \/ RunDone(f)

Next == NewFlow \/ Send \/ FreeFlow \/ SetBusyHandler \/ PrepareFree \/ Free
        \/ OutputDone \/ RunJob

(* The output gets rid of its packets.  The users' handlers may put jobs of  *)
(* theirs in front of a job again and again, but not for ever: they are     *)
(* started by events, and the reactor takes one only when no job is left.  *)
Fairness ==
    /\ WF_q(OutputDone)
    /\ SF_q(RunSchedule) /\ SF_q(RunOutput) /\ SF_q(RunOutputDone)
    /\ \A f \in Flow : SF_q(RunInput(f)) /\ SF_q(RunDone(f))

Spec == Init /\ [][Next]_q /\ Fairness

-----------------------------------------------------------------------------
(* The fields of the queue have their types: no time leaves its word.       *)
Job == {<<kind, f>> : kind \in {"operation", "done"}, f \in Flow}
       \cup {<<kind, None>> : kind \in {"operation", "schedule", "output done"}}

FairType ==
    [flows : SUBSET Flow, queued : SUBSET Flow, busy_handler : SUBSET Flow,
     sending : Flow \cup {None}, previous : Flow \cup {None},
     time : [Flow -> Time], len : [Flow -> 0..MTU],
     input : [Flow -> State], output : State, jobs : Seq(Job),
     freeing : BOOLEAN, ok : BOOLEAN]

FairTypeOK ==
    /\ q \in FairType /\ q.queued \subseteq q.flows
    /\ q.sending \in q.flows \cup {None} /\ q.previous \in q.flows \cup {None}

(* No ASSERT of PacketPassFairQueue.c or PacketPassInterface.h fails, in any *)
(* order of jobs, frees and sends, and no job runs for a flow that is gone. *)
FairAsserts == q.ok

(* The packet being sent is the one of the flow that has paid least, also   *)
(* of those that were queued after it was chosen: a flow gains no credit    *)
(* from having been idle while others sent.                                *)
LeastIsSent ==
    q.sending # None => \A f \in q.queued : q.time[q.sending] <= q.time[f]

(* A flow hears that its packet is done before the next one is chosen, so   *)
(* that it can queue the next without losing its turn.                     *)
ToldBeforeNext ==
    q.sending # None /\ ~q.freeing => \A f \in Flow : q.input[f] # "done_pending"

(* Between two flows that keep waiting or sending, a step moves the balance *)
(* by exactly what one of them sent, also when the times are brought back   *)
(* from the end of the word.                                               *)
Backlogged(s) == s.queued \cup ({s.sending, s.previous} \ {None})
Sent(f) == IF q.sending = f /\ q'.sending # f THEN packet_weight + q.len[f] ELSE 0
ChargedExactly ==
    [][\A f, g \in Backlogged(q) \cap Backlogged(q') :
          (q'.time[f] - Sent(f)) - (q'.time[g] - Sent(g)) = q.time[f] - q.time[g]]_q

(* However long two flows keep waiting or sending, and whatever they send,   *)
(* neither falls further behind the other than it was, or than one packet.  *)
Largest(a, b) == IF a >= b THEN a ELSE b
LagBounded ==
    [][\A f, g \in Backlogged(q) \cap Backlogged(q') :
          q'.time[f] - q'.time[g] <=
             Largest(q.time[f] - q.time[g], packet_weight + MTU)]_q

(* Nothing is left behind: while packets are queued one is being sent or a  *)
(* job will choose the next, and every interface that is not at rest has a  *)
(* job to come, a place in the queue, or the output's answer to wait for.   *)
Has(job) == IsSet(q.jobs, job)
NothingForgotten ==
    ~q.freeing =>
        /\ q.queued # {} => q.sending # None \/ Has(<<"schedule", None>>)
        /\ q.sending # None => \/ q.output = "busy"
                               \/ Has(<<"operation", None>>)
                               \/ Has(<<"output done", None>>)
        /\ \A f \in q.flows :
              q.input[f] # "none" => \/ f \in q.queued \cup {q.sending}
                                     \/ Has(<<"operation", f>>)
                                     \/ Has(<<"done", f>>)

(* Every queued packet is sent, unless its flow or the queue is freed - and *)
(* unless new flows come for ever: each starts at the current time, which   *)
(* does not advance while they send one packet each and are freed.         *)
EachIsSent ==
    <>[][~NewFlow]_q =>
    \A f \in Flow : f \in q.queued ~> (q.sending = f \/ f \notin q.flows \/ q.freeing)
=============================================================================
