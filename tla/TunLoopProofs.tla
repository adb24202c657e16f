----------------------------- MODULE TunLoopProofs -----------------------------
(***************************************************************************)
(* The safety properties of TunLoop, for any set of threads that stop it    *)
(* and both builds, and the safety half of TunStops: the timer that ends    *)
(* each wait is never lost, and after a stop every step leads out.         *)
(***************************************************************************)
EXTENDS TunLoop, TLAPS

(* What the first n steps of the set-up make.                               *)
Place(x) == CASE x = "network" -> 1 [] x = "time" -> 3 [] x = "reactor" -> 4
              [] x \in {"signal", "signal_flag"} -> 6 [] x = "device" -> 7
              [] x = "read_interface" -> 8 [] x = "read_buffer" -> 9
              [] x = "udpgw_client" -> 10 [] x = "lwip_init_job" -> 11
              [] x = "device_write_buf" -> 12 [] x = "tcp_timer" -> 13
              [] OTHER -> 14
Made(n) == {x \in Things : Place(x) <= n}

Lwip == {"netif", "listener"}
Held ==
    /\ tidy
    /\ pc \in {"none", "returned"} => held = {} /\ ~job /\ ~armed
    /\ pc = "setup" => held = Made(step)
    /\ pc \in Looping => held \ Lwip = Made(13)
    /\ pc \in Looping /\ job => held \cap Lwip = {}

(* The count starts with exiting, and a handler that passed the test before *)
(* it has not been counted.                                                *)
Counted == /\ AtMostOneMore
           /\ ~exiting => after = 0
           /\ pc = "dispatch" => after = 0

IInv == TunTypeOK /\ Held /\ Counted

-----------------------------------------------------------------------------
LEMMA SetupIs ==
    /\ Len(Setup) = 13
    /\ Setup[1] = "network" /\ Setup[2] = "arguments" /\ Setup[3] = "time"
    /\ Setup[4] = "reactor" /\ Setup[5] = "quitting" /\ Setup[6] = "signal"
    /\ Setup[7] = "device" /\ Setup[8] = "read_interface" /\ Setup[9] = "read_buffer"
    /\ Setup[10] = "udpgw_client" /\ Setup[11] = "lwip_init_job"
    /\ Setup[12] = "device_write_buf" /\ Setup[13] = "tcp_timer"
BY DEF Setup

(* Each step makes what is new, and a label frees what was made before it.  *)
LEMMA MadeNext ==
    ASSUME NEW n \in 0..12
    PROVE  /\ Made(n + 1) = Made(n) \cup MadeBy(Setup[n + 1])
           /\ Made(n) \cap MadeBy(Setup[n + 1]) = {}
<1>1. CASE n = 0
    BY <1>1, SetupIs DEF Made, MadeBy, Place, Things, Flags
<1>2. CASE n = 1
    BY <1>2, SetupIs DEF Made, MadeBy, Place, Things, Flags
<1>3. CASE n = 2
    BY <1>3, SetupIs DEF Made, MadeBy, Place, Things, Flags
<1>4. CASE n = 3
    BY <1>4, SetupIs DEF Made, MadeBy, Place, Things, Flags
<1>5. CASE n = 4
    BY <1>5, SetupIs DEF Made, MadeBy, Place, Things, Flags
<1>6. CASE n = 5
    BY <1>6, SetupIs DEF Made, MadeBy, Place, Things, Flags
<1>7. CASE n = 6
    BY <1>7, SetupIs DEF Made, MadeBy, Place, Things, Flags
<1>8. CASE n = 7
    BY <1>8, SetupIs DEF Made, MadeBy, Place, Things, Flags
<1>9. CASE n = 8
    BY <1>9, SetupIs DEF Made, MadeBy, Place, Things, Flags
<1>10. CASE n = 9
    BY <1>10, SetupIs DEF Made, MadeBy, Place, Things, Flags
<1>11. CASE n = 10
    BY <1>11, SetupIs DEF Made, MadeBy, Place, Things, Flags
<1>12. CASE n = 11
    BY <1>12, SetupIs DEF Made, MadeBy, Place, Things, Flags
<1>13. CASE n = 12
    BY <1>13, SetupIs DEF Made, MadeBy, Place, Things, Flags
<1> QED
    BY <1>1, <1>2, <1>3, <1>4, <1>5, <1>6, <1>7, <1>8, <1>9, <1>10, <1>11, <1>12, <1>13

LEMMA LabelFits ==
    ASSUME NEW n \in 0..12, Setup[n + 1] \in MayFail
    PROVE  LabelOf(Setup[n + 1]) \subseteq Made(n) /\ Made(n) \subseteq LabelOf(Setup[n + 1]) \cup Flags
<1>1. CASE n \in {0, 1}
    <2>1. LabelOf(Setup[n + 1]) = fail1
        BY <1>1, SetupIs DEF LabelOf
    <2> QED
        BY <1>1, <2>1 DEF Made, Place, Things, Flags, fail1
<1>2. CASE n = 3
    <2>1. LabelOf(Setup[n + 1]) = fail1
        BY <1>2, SetupIs DEF LabelOf
    <2> QED
        BY <1>2, <2>1 DEF Made, Place, Things, Flags, fail1
<1>3. CASE n = 5
    <2>1. LabelOf(Setup[n + 1]) = fail2
        BY <1>3, SetupIs DEF LabelOf
    <2> QED
        BY <1>3, <2>1 DEF Made, Place, Things, Flags, fail2
<1>4. CASE n = 6
    <2>1. LabelOf(Setup[n + 1]) = fail3
        BY <1>4, SetupIs DEF LabelOf
    <2> QED
        BY <1>4, <2>1 DEF Made, Place, Things, Flags, fail2, fail3
<1>5. CASE n = 8
    <2>1. LabelOf(Setup[n + 1]) = fail4
        BY <1>5, SetupIs DEF LabelOf
    <2> QED
        BY <1>5, <2>1 DEF Made, Place, Things, Flags, fail2, fail3, fail4
<1>6. CASE n = 9
    <2>1. LabelOf(Setup[n + 1]) = fail4a
        BY <1>6, SetupIs DEF LabelOf
    <2> QED
        BY <1>6, <2>1 DEF Made, Place, Things, Flags, fail2, fail3, fail4, fail4a
<1>7. CASE n = 11
    <2>1. LabelOf(Setup[n + 1]) = fail5
        BY <1>7, SetupIs DEF LabelOf
    <2> QED
        BY <1>7, <2>1 DEF Made, Place, Things, Flags, fail2, fail3, fail4, fail4a, fail5
<1>8. n \notin {2, 4, 7, 10, 12}
    BY SetupIs DEF MayFail
<1> QED
    BY <1>1, <1>2, <1>3, <1>4, <1>5, <1>6, <1>7, <1>8

LEMMA EndFits == ended \subseteq Made(13) /\ Made(13) \subseteq ended \cup Flags
                 /\ Made(0) = {} /\ Made(13) \cap Lwip = {}
BY DEF Made, Place, Things, Flags, ended, fail2, fail3, fail4, fail4a, fail5, Lwip

LEMMA MadeThings == \A n : Made(n) \subseteq Things
BY DEF Made
-----------------------------------------------------------------------------
LEMMA InitInv == Init => IInv
<1> SUFFICES ASSUME Init PROVE IInv
    OBVIOUS
<1>1. step \in 0..Len(Setup) /\ after = 0 /\ after \in Nat /\ after <= 1
    BY SetupIs DEF Init
<1>2. /\ stopPc["loop"] = "idle"
      /\ stopPc \in [Stops \cup {"loop"} -> {"idle", "assert", "quitting", "exiting", "proxy", "posted"}]
    BY DEF Init
<1>3. /\ pc = "none" /\ held = {} /\ due = {} /\ tidy = TRUE /\ alive = TRUE
      /\ quitting = FALSE /\ exiting = FALSE /\ job = FALSE /\ armed = FALSE
    BY DEF Init
<1>4. TunTypeOK
    BY <1>1, <1>2, <1>3 DEF TunTypeOK
<1>5. Held
    BY <1>3 DEF Held, Looping
<1>6. Counted
    BY <1>1, <1>3 DEF Counted, AtMostOneMore
<1> QED
    BY <1>4, <1>5, <1>6 DEF IInv

(* The set-up.                                                             *)
LEMMA StartInv == IInv /\ startTun2socks => IInv'
<1> SUFFICES ASSUME IInv, startTun2socks PROVE IInv'
    OBVIOUS
<1>1. /\ pc \in {"none", "returned"} /\ pc' = "setup" /\ step' = 0
      /\ UNCHANGED <<held, tidy, quitting, exiting, job, armed, due, after, stopPc, alive>>
    BY DEF startTun2socks
<1>2. 0 \in 0..Len(Setup)
    BY SetupIs
<1>3. TunTypeOK'
    BY <1>1, <1>2 DEF IInv, TunTypeOK, Looping
<1>4. Held'
    BY <1>1, EndFits DEF IInv, Held, Looping
<1>5. Counted'
    BY <1>1 DEF IInv, Counted, AtMostOneMore
<1> QED
    BY <1>3, <1>4, <1>5 DEF IInv

LEMMA UnwindInv ==
    ASSUME IInv, NEW label, NEW more, Unwind(label, more), label \subseteq held,
           held \subseteq label \cup more \cup Flags, pc # "terminate",
           UNCHANGED <<step, quitting, exiting, after, stopPc, alive>>
    PROVE  IInv'
<1>1. /\ pc' = "returned" /\ job' = FALSE /\ armed' = FALSE /\ due' = {} /\ held' = {}
      /\ tidy' = tidy
    BY DEF Unwind, IInv, TunTypeOK
<1>2. TunTypeOK'
    BY <1>1 DEF IInv, TunTypeOK, Looping
<1>3. Held'
    BY <1>1 DEF IInv, Held, Looping
<1>4. Counted'
    BY <1>1 DEF IInv, Counted, AtMostOneMore
<1> QED
    BY <1>2, <1>3, <1>4 DEF IInv

LEMMA SetupFailsInv == IInv /\ SetupFails => IInv'
<1> SUFFICES ASSUME IInv, SetupFails PROVE IInv'
    OBVIOUS
<1>1. /\ pc = "setup" /\ step \in 0..12 /\ Setup[step + 1] \in MayFail
      /\ Unwind(LabelOf(Setup[step + 1]), {})
      /\ UNCHANGED <<step, quitting, exiting, after, stopPc, alive>>
    BY SetupIs DEF SetupFails, IInv, TunTypeOK
<1>2. held = Made(step)
    BY <1>1 DEF IInv, Held
<1>3. /\ LabelOf(Setup[step + 1]) \subseteq held
      /\ held \subseteq LabelOf(Setup[step + 1]) \cup {} \cup Flags
    BY <1>1, <1>2, LabelFits
<1>4. PICK label : label = LabelOf(Setup[step + 1])
    OBVIOUS
<1>5. /\ Unwind(label, {}) /\ label \subseteq held /\ held \subseteq label \cup {} \cup Flags
      /\ pc # "terminate"
    BY <1>1, <1>3, <1>4
<1> QED
    BY <1>1, <1>5, UnwindInv

LEMMA SetupStepInv == IInv /\ SetupStep => IInv'
<1> SUFFICES ASSUME IInv, SetupStep PROVE IInv'
    OBVIOUS
<1>1. /\ pc = "setup" /\ pc' = "setup" /\ step \in 0..12 /\ step' = step + 1
      /\ UNCHANGED <<due, stopPc, alive>>
    BY SetupIs DEF SetupStep, IInv, TunTypeOK
<1>2. /\ held' = held \cup MadeBy(Setup[step + 1])
      /\ tidy' = (tidy /\ MadeBy(Setup[step + 1]) \cap held = {})
      /\ exiting' = (exiting /\ Setup[step + 1] # "reactor")
      /\ after' = (IF Setup[step + 1] = "reactor" THEN 0 ELSE after)
      /\ quitting' = (quitting /\ Setup[step + 1] # "quitting")
      /\ job' = (job \/ Setup[step + 1] = "lwip_init_job")
      /\ armed' = (armed \/ Setup[step + 1] = "tcp_timer")
    BY DEF SetupStep
<1>3. held = Made(step) /\ tidy = TRUE
    BY <1>1 DEF IInv, Held, TunTypeOK
<1>4. held' = Made(step') /\ tidy' = TRUE
    BY <1>1, <1>2, <1>3, MadeNext
<1>5. step' \in 0..Len(Setup) /\ after' \in Nat
    BY <1>1, <1>2, SetupIs DEF IInv, TunTypeOK
<1>6. held' \subseteq Things
    BY <1>4, MadeThings
<1>7. /\ exiting' \in BOOLEAN /\ quitting' \in BOOLEAN /\ job' \in BOOLEAN
      /\ armed' \in BOOLEAN /\ tidy' \in BOOLEAN
    BY <1>2, <1>4
<1>8. TunTypeOK'
    BY <1>1, <1>5, <1>6, <1>7 DEF IInv, TunTypeOK, Looping
<1>9. Held'
    BY <1>1, <1>4 DEF Held, Looping
<1>10. Counted'
    <2>1. after <= 1 /\ (~exiting => after = 0) /\ pc' # "dispatch"
        BY <1>1 DEF IInv, Counted, AtMostOneMore
    <2>2. CASE Setup[step + 1] = "reactor"
        <3>1. after' = 0
            BY <1>2, <2>2
        <3> QED
            BY <2>1, <3>1 DEF Counted, AtMostOneMore
    <2>3. CASE Setup[step + 1] # "reactor"
        <3>1. after' = after /\ (~exiting' => ~exiting)
            BY <1>2, <2>3
        <3> QED
            BY <2>1, <3>1 DEF Counted, AtMostOneMore
    <2> QED
        BY <2>2, <2>3
<1> QED
    BY <1>8, <1>9, <1>10 DEF IInv

LEMMA EnterLoopInv == IInv /\ EnterLoop => IInv'
<1> SUFFICES ASSUME IInv, EnterLoop PROVE IInv'
    OBVIOUS
<1>1. /\ pc = "setup" /\ pc' = "top" /\ step = 13
      /\ UNCHANGED <<step, held, tidy, quitting, exiting, job, armed, due, after, stopPc, alive>>
    BY SetupIs DEF EnterLoop
<1>2. held = Made(13) /\ tidy
    BY <1>1 DEF IInv, Held
<1>3. TunTypeOK'
    BY <1>1 DEF IInv, TunTypeOK, Looping
<1>4. held \ Lwip = Made(13) /\ held \cap Lwip = {}
    BY <1>2, EndFits
<1>5. Held'
    BY <1>1, <1>2, <1>4 DEF Held, Looping
<1>6. Counted'
    BY <1>1 DEF IInv, Counted, AtMostOneMore
<1> QED
    BY <1>3, <1>5, <1>6 DEF IInv

(* The loop.                                                               *)
LEMMA TestInv == IInv /\ Test => IInv'
<1> SUFFICES ASSUME IInv, Test PROVE IInv'
    OBVIOUS
<1>1. pc = "top" /\ "top" \in Looping
    BY DEF Test, Looping
<1>2. CASE exiting /\ Leave
    <2>1. held \ Lwip = Made(13)
        BY <1>1 DEF IInv, Held
    <2>2. ended \subseteq held /\ held \subseteq ended \cup Lwip \cup Flags
        BY <2>1, EndFits
    <2>3. PICK more : more = Lwip
        OBVIOUS
    <2>4. /\ Unwind(ended, more) /\ held \subseteq ended \cup more \cup Flags /\ pc # "terminate"
          /\ UNCHANGED <<step, quitting, exiting, after, stopPc, alive>>
        BY <1>1, <1>2, <2>2, <2>3 DEF Leave, Lwip
    <2> QED
        BY <2>2, <2>4, UnwindInv
<1>3. CASE /\ ~exiting /\ pc' = "dispatch"
           /\ UNCHANGED <<step, held, tidy, quitting, exiting, job, armed, due, after, stopPc, alive>>
    <2>1. TunTypeOK'
        BY <1>1, <1>3 DEF IInv, TunTypeOK, Looping
    <2>2. Held'
        BY <1>1, <1>3 DEF IInv, Held, Looping
    <2>3. Counted'
        BY <1>3 DEF IInv, Counted, AtMostOneMore
    <2> QED
        BY <2>1, <2>2, <2>3 DEF IInv
<1> QED
    BY <1>2, <1>3 DEF Test

LEMMA WaitInv ==
    ASSUME IInv, NEW ready \in SUBSET {"timer", "packet", "error"}, Wait(ready)
    PROVE  IInv'
<1>1. /\ pc = "dispatch" /\ pc' = "top" /\ due' = ready
      /\ armed' \in BOOLEAN
      /\ UNCHANGED <<step, held, tidy, quitting, exiting, job, after, stopPc, alive>>
    BY DEF Wait
<1>2. TunTypeOK'
    BY <1>1 DEF IInv, TunTypeOK, Looping
<1>3. Held'
    BY <1>1 DEF IInv, Held, Looping
<1>4. Counted'
    BY <1>1 DEF IInv, Counted, AtMostOneMore
<1> QED
    BY <1>2, <1>3, <1>4 DEF IInv

(* A handler: next is where it leaves the loop.                             *)
LEMMA HandlerInv ==
    ASSUME IInv, NEW next \in {"top", "init_failed", "terminate"}, Handler(next),
           due' \subseteq {"timer", "packet", "error"}, armed' \in BOOLEAN, job' \in BOOLEAN,
           tidy' = TRUE, held' \subseteq Things, held' \ Lwip = held \ Lwip,
           job' => held' \cap Lwip = {},
           \/ next # "terminate" /\ stopPc' = stopPc
           \/ next = "terminate" /\ stopPc' = [stopPc EXCEPT !["loop"] = "assert"]
    PROVE  IInv'
<1>1. /\ pc = "dispatch" /\ pc' = next /\ alive' = (NDEBUG \/ ~quitting)
      /\ after' = (IF exiting THEN after + 1 ELSE after) /\ after = 0
      /\ UNCHANGED <<step, quitting, exiting>>
    BY DEF Handler, IInv, Counted
<1>2. /\ stopPc' \in [Stops \cup {"loop"} -> {"idle", "assert", "quitting", "exiting", "proxy", "posted"}]
      /\ stopPc'["loop"] \in {"idle", "assert", "quitting", "exiting"}
      /\ stopPc'["loop"] # "idle" <=> next = "terminate"
    BY <1>1 DEF IInv, TunTypeOK
<1>3. alive' \in BOOLEAN /\ after' \in Nat /\ step' \in 0..Len(Setup)
    BY <1>1 DEF IInv, TunTypeOK
<1>4. TunTypeOK'
    BY <1>1, <1>2, <1>3 DEF IInv, TunTypeOK, Looping
<1>5. Held'
    BY <1>1 DEF IInv, Held, Looping
<1>6. Counted'
    BY <1>1 DEF IInv, Counted, AtMostOneMore
<1> QED
    BY <1>4, <1>5, <1>6 DEF IInv

LEMMA LwipInv == IInv /\ (lwip_init_job_hadler \/ lwip_init_fail) => IInv'
<1> SUFFICES ASSUME IInv, lwip_init_job_hadler \/ lwip_init_fail PROVE IInv'
    OBVIOUS
<1>1. CASE lwip_init_fail
    <2>1. /\ pc = "init_failed" /\ stopPc["loop"] = "idle"
          /\ UNCHANGED <<step, held, tidy, quitting, exiting, job, armed, due, after, alive>>
        BY <1>1 DEF lwip_init_fail, IInv, TunTypeOK
    <2>2. \/ pc' = "top" /\ stopPc' = stopPc
          \/ pc' = "terminate" /\ stopPc' = [stopPc EXCEPT !["loop"] = "assert"]
        BY <1>1 DEF lwip_init_fail
    <2>3. /\ stopPc' \in [Stops \cup {"loop"} -> {"idle", "assert", "quitting", "exiting", "proxy", "posted"}]
          /\ stopPc'["loop"] \in {"idle", "assert", "quitting", "exiting"}
          /\ stopPc'["loop"] # "idle" <=> pc' = "terminate"
        BY <2>1, <2>2 DEF IInv, TunTypeOK
    <2>4. pc' \in {"top", "terminate"}
        BY <2>2
    <2>5. TunTypeOK'
        BY <2>1, <2>3, <2>4 DEF IInv, TunTypeOK, Looping
    <2>6. Held'
        BY <2>1, <2>4 DEF IInv, Held, Looping
    <2>7. Counted'
        BY <2>1, <2>4 DEF IInv, Counted, AtMostOneMore
    <2> QED
        BY <2>5, <2>6, <2>7 DEF IInv
<1>2. CASE lwip_init_job_hadler
    <2>1. pc = "dispatch" /\ job /\ job' = FALSE /\ UNCHANGED <<armed, due, stopPc>>
        BY <1>2 DEF lwip_init_job_hadler, Handler
    <2>2. held \cap Lwip = {} /\ tidy = TRUE /\ held \subseteq Things
        BY <2>1 DEF IInv, Held, Looping, TunTypeOK
    <2>3. tidy' = TRUE
        BY <1>2, <2>2 DEF lwip_init_job_hadler, Lwip
    <2>4. held' \in {held, held \cup {"netif"}, held \cup {"netif", "listener"}}
        BY <1>2 DEF lwip_init_job_hadler
    <2>5. held' \subseteq Things /\ held' \ Lwip = held \ Lwip
        BY <2>2, <2>4 DEF Things, Lwip
    <2>6. PICK next \in {"top", "init_failed"} : Handler(next)
        BY <1>2 DEF lwip_init_job_hadler
    <2>7. due' \subseteq {"timer", "packet", "error"} /\ armed' \in BOOLEAN
        BY <2>1 DEF IInv, TunTypeOK
    <2> QED
        BY <2>1, <2>3, <2>5, <2>6, <2>7, HandlerInv
<1> QED
    BY <1>1, <1>2

LEMMA DueInv ==
    IInv /\ (tcp_timer_handler \/ device_read_handler_send \/ device_error_handler) => IInv'
<1> SUFFICES ASSUME IInv, tcp_timer_handler \/ device_read_handler_send \/ device_error_handler
             PROVE  IInv'
    OBVIOUS
<1>1. /\ UNCHANGED <<held, tidy, job>> /\ armed' \in BOOLEAN /\ ~job /\ due' \subseteq due
    BY DEF IInv, TunTypeOK, tcp_timer_handler, device_read_handler_send, device_error_handler
<1>2. /\ due' \subseteq {"timer", "packet", "error"} /\ job' \in BOOLEAN /\ ~job'
      /\ tidy' = TRUE /\ held' \subseteq Things /\ held' \ Lwip = held \ Lwip
    BY <1>1 DEF IInv, TunTypeOK, Held
<1>3. CASE device_error_handler
    BY <1>1, <1>2, <1>3, HandlerInv DEF device_error_handler
<1>4. CASE tcp_timer_handler \/ device_read_handler_send
    <2>1. Handler("top") /\ stopPc' = stopPc
        BY <1>4 DEF tcp_timer_handler, device_read_handler_send
    <2> QED
        BY <1>1, <1>2, <2>1, HandlerInv
<1> QED
    BY <1>3, <1>4

(* terminate and stop, on any thread.                                      *)
Pcs == {"idle", "assert", "quitting", "exiting", "proxy", "posted"}
LEMMA StopInv ==
    ASSUME IInv, NEW t \in Stops \cup {"loop"},
           Terminate(t) \/ (t \in Stops /\ (stop(t) \/ stop_proxy_server(t)))
    PROVE  IInv'
<1>1. PICK here \in Pcs, next \in Pcs :
         /\ At(t, here, next)
         /\ t = "loop" => here # "idle" /\ next \in {"idle", "assert", "quitting", "exiting"}
         /\ t = "loop" => (next = "idle" <=> pc' # pc) /\ (pc' # pc => pc' = "top")
         /\ t # "loop" => pc' = pc
         /\ exiting' \in {exiting, TRUE} /\ quitting' \in {quitting, TRUE}
         /\ alive' \in BOOLEAN
         /\ UNCHANGED <<step, held, tidy, job, armed, due, after>>
    <2>0. /\ quitting \in BOOLEAN /\ alive \in BOOLEAN /\ "loop" \notin Stops
          /\ stopPc["loop"] # "idle" <=> pc = "terminate"
        BY TunAssumption DEF IInv, TunTypeOK
    <2>1. CASE TerminateAssert(t)
        BY <2>0, <2>1 DEF TerminateAssert, Pcs, At
    <2>2. CASE TerminateQuitting(t)
        BY <2>0, <2>2 DEF TerminateQuitting, Pcs, At
    <2>3. CASE BReactor_Quit(t)
        BY <2>0, <2>3 DEF BReactor_Quit, Pcs, At
    <2>4. CASE t \in Stops /\ stop(t)
        BY <2>0, <2>4 DEF stop, Pcs, At
    <2>5. CASE t \in Stops /\ stop_proxy_server(t)
        BY <2>0, <2>5 DEF stop_proxy_server, Pcs, At
    <2> QED
        BY <2>1, <2>2, <2>3, <2>4, <2>5 DEF Terminate
<1>2. stopPc' = [stopPc EXCEPT ![t] = next] /\ stopPc[t] = here
    BY <1>1 DEF At
<1>3. /\ stopPc \in [Stops \cup {"loop"} -> Pcs]
      /\ stopPc["loop"] \in {"idle", "assert", "quitting", "exiting"}
      /\ stopPc["loop"] # "idle" <=> pc = "terminate"
    BY DEF IInv, TunTypeOK, Pcs
<1>4. stopPc' \in [Stops \cup {"loop"} -> Pcs]
    BY <1>2, <1>3
<1>5. /\ stopPc'["loop"] \in {"idle", "assert", "quitting", "exiting"}
      /\ stopPc'["loop"] # "idle" <=> pc' = "terminate"
      /\ pc' = pc \/ (pc = "terminate" /\ pc' = "top")
    <2>1. CASE t = "loop"
        BY <1>1, <1>2, <1>3, <2>1
    <2>2. CASE t # "loop"
        BY <1>1, <1>2, <1>3, <2>2
    <2> QED
        BY <2>1, <2>2
<1>6. TunTypeOK'
    <2>1. pc' \in Looping \cup {"none", "setup", "returned"}
        BY <1>5 DEF IInv, TunTypeOK, Looping
    <2>2. quitting' \in BOOLEAN /\ exiting' \in BOOLEAN
        BY <1>1 DEF IInv, TunTypeOK
    <2> QED
        BY <1>1, <1>4, <1>5, <2>1, <2>2 DEF IInv, TunTypeOK, Pcs
<1>7. Held'
    BY <1>1, <1>5 DEF IInv, Held, Looping
<1>8. Counted'
    <2>1. after' = after /\ (~exiting' => ~exiting) /\ (pc' = "dispatch" => pc = "dispatch")
        <3>1. after' = after
            BY <1>1
        <3>2. ~exiting' => ~exiting
            BY <1>1
        <3>3. pc' = "dispatch" => pc = "dispatch"
            BY <1>5
        <3> QED
            BY <3>1, <3>2, <3>3
    <2> QED
        BY <2>1 DEF IInv, Counted, AtMostOneMore
<1> QED
    BY <1>6, <1>7, <1>8 DEF IInv

LEMMA KillInv == IInv /\ (killProcess \/ UNCHANGED vars) => IInv'
<1> SUFFICES ASSUME IInv, killProcess \/ UNCHANGED vars PROVE IInv'
    OBVIOUS
<1>1. /\ UNCHANGED <<pc, step, held, tidy, quitting, exiting, job, armed, due, after, stopPc>>
      /\ alive' \in BOOLEAN
    BY DEF killProcess, vars, IInv, TunTypeOK
<1>2. TunTypeOK'
    BY <1>1 DEF IInv, TunTypeOK
<1>3. Held' /\ Counted'
    BY <1>1 DEF IInv, Held, Counted, AtMostOneMore
<1> QED
    BY <1>2, <1>3 DEF IInv

LEMMA NextInv == IInv /\ [Next]_vars => IInv'
<1> SUFFICES ASSUME IInv, [Next]_vars PROVE IInv'
    OBVIOUS
<1>1. CASE startTun2socks
    BY <1>1, StartInv
<1>2. CASE SetupFails \/ SetupStep \/ EnterLoop \/ Test
    BY <1>2, SetupFailsInv, SetupStepInv, EnterLoopInv, TestInv
<1>3. CASE TimerExpires \/ DeviceReady
    <2>1. PICK ready \in SUBSET {"timer", "packet", "error"} : Wait(ready)
        BY <1>3 DEF TimerExpires, DeviceReady
    <2> QED
        BY <2>1, WaitInv
<1>4. CASE lwip_init_job_hadler \/ lwip_init_fail
    BY <1>4, LwipInv
<1>5. CASE tcp_timer_handler \/ device_read_handler_send \/ device_error_handler
    BY <1>5, DueInv
<1>6. CASE \E t \in Stops : stop(t) \/ Terminate(t) \/ stop_proxy_server(t)
    BY <1>6, StopInv
<1>7. CASE Terminate("loop")
    BY <1>7, StopInv
<1>8. CASE killProcess \/ UNCHANGED vars
    BY <1>8, KillInv
<1> QED
    BY <1>1, <1>2, <1>3, <1>4, <1>5, <1>6, <1>7, <1>8 DEF Next, Loop

LEMMA Invariance == Spec => []IInv
BY InitInv, NextInv, PTL DEF Spec

-----------------------------------------------------------------------------
(* The state of the loop and of the threads that stop it has its types.     *)
THEOREM TunTypeCorrect == Spec => []TunTypeOK
<1>1. IInv => TunTypeOK
    BY DEF IInv
<1> QED
    BY <1>1, Invariance, PTL

(* startTun2socks leaves nothing behind, whatever failed and whenever it    *)
(* was stopped.                                                            *)
THEOREM TornDownAlways == Spec => []TornDown
<1>1. IInv => TornDown
    BY DEF IInv, Held, TornDown
<1> QED
    BY <1>1, Invariance, PTL

(* After BReactor_Quit, on any thread, one handler at most begins.          *)
THEOREM OneMoreHandler == Spec => []AtMostOneMore
<1>1. IInv => AtMostOneMore
    BY DEF IInv, Counted
<1> QED
    BY <1>1, Invariance, PTL

-----------------------------------------------------------------------------
(* Why a loop that nobody wakes sees exiting: the timer is running, or has   *)
(* expired and is waiting to be dispatched, from the set-up to the end.     *)
TimerRuns ==
    /\ pc = "setup" /\ step = 13 => armed
    /\ pc \in Looping => armed \/ "timer" \in due

LEMMA TimerKept == IInv /\ TimerRuns /\ [Next]_vars => TimerRuns'
<1> SUFFICES ASSUME IInv, TimerRuns, [Next]_vars PROVE TimerRuns'
    OBVIOUS
<1>1. CASE startTun2socks \/ SetupFails
    BY <1>1 DEF startTun2socks, SetupFails, Unwind, TimerRuns, Looping
<1>2. CASE SetupStep
    <2>1. /\ pc' = "setup" /\ step \in 0..12 /\ step' = step + 1
          /\ armed' = (armed \/ Setup[step + 1] = "tcp_timer")
        BY <1>2, SetupIs DEF SetupStep, IInv, TunTypeOK
    <2>2. step' = 13 => step = 12
        BY <2>1
    <2>3. step' = 13 => armed'
        BY <2>1, <2>2, SetupIs
    <2> QED
        BY <2>1, <2>3 DEF TimerRuns, Looping
<1>3. CASE EnterLoop
    BY <1>3, SetupIs DEF EnterLoop, TimerRuns, Looping
<1>4. CASE Test
    <2>1. \/ pc' = "returned"
          \/ pc = "top" /\ pc' = "dispatch" /\ armed' = armed /\ due' = due
        BY <1>4 DEF Test, Leave, Unwind
    <2> QED
        BY <2>1 DEF TimerRuns, Looping
<1>5. CASE TimerExpires
    <2>1. "timer" \in due' /\ pc' = "top"
        BY <1>5 DEF TimerExpires, Wait
    <2> QED
        BY <2>1 DEF TimerRuns
<1>6. CASE DeviceReady
    <2>1. PICK ready \in SUBSET {"packet", "error"} : Wait(ready)
        BY <1>6 DEF DeviceReady
    <2>2. pc = "dispatch" /\ due = {} /\ pc' = "top" /\ armed' = (armed /\ "timer" \notin ready)
        BY <2>1 DEF Wait
    <2> QED
        BY <2>2 DEF TimerRuns, Looping
<1>7. CASE lwip_init_job_hadler \/ lwip_init_fail
    BY <1>7 DEF lwip_init_job_hadler, lwip_init_fail, Handler, TimerRuns, Looping
<1>8. CASE tcp_timer_handler \/ device_read_handler_send \/ device_error_handler
    <2>1. pc = "dispatch" /\ pc' # "setup"
        BY <1>8 DEF tcp_timer_handler, device_read_handler_send, device_error_handler, Handler
    <2>2. armed \/ "timer" \in due
        BY <2>1 DEF TimerRuns, Looping
    <2>3. armed'
        BY <1>8, <2>2
           DEF tcp_timer_handler, device_read_handler_send, device_error_handler
    <2> QED
        BY <2>1, <2>3 DEF TimerRuns
<1>9. CASE \E t \in Stops \cup {"loop"} :
              Terminate(t) \/ (t \in Stops /\ (stop(t) \/ stop_proxy_server(t)))
    <2>1. PICK t \in Stops \cup {"loop"} :
              Terminate(t) \/ (t \in Stops /\ (stop(t) \/ stop_proxy_server(t)))
        BY <1>9
    <2>2. /\ UNCHANGED <<step, armed, due>>
          /\ pc' = pc \/ (t = "loop" /\ stopPc["loop"] = "exiting" /\ pc' = "top")
        BY <2>1 DEF Terminate, TerminateAssert, TerminateQuitting, BReactor_Quit, At,
                    stop, stop_proxy_server
    <2>3. pc' = pc \/ (pc = "terminate" /\ pc' = "top")
        BY <2>2 DEF IInv, TunTypeOK
    <2> QED
        BY <2>2, <2>3 DEF TimerRuns, Looping
<1>10. CASE killProcess \/ UNCHANGED vars
    BY <1>10 DEF killProcess, vars, TimerRuns
<1> QED
    BY <1>1, <1>2, <1>3, <1>4, <1>5, <1>6, <1>7, <1>8, <1>9, <1>10 DEF Next, Loop

(* A part of TunStops: a loop that waits is always woken, if only by the    *)
(* timer.                                                                  *)
THEOREM TimerAlwaysRuns == Spec => [](pc \in Looping => armed \/ "timer" \in due)
<1>1. Init => TimerRuns
    BY DEF Init, TimerRuns, Looping
<1>2. TimerRuns => (pc \in Looping => armed \/ "timer" \in due)
    BY DEF TimerRuns
<1> QED
    BY <1>1, <1>2, TimerKept, Invariance, PTL DEF Spec

(* How far the thread is from the test of exiting.                          *)
Position ==
    IF pc = "terminate"
    THEN CASE stopPc["loop"] = "exiting"  -> 1
           [] stopPc["loop"] = "quitting" -> 2
           [] OTHER                       -> 3
    ELSE CASE pc = "top" -> 0 [] pc = "init_failed" -> 4 [] OTHER -> 5

(* Where the thread is, without CASE, now and after a step.                  *)
Where ==
    /\ pc = "terminate" /\ stopPc["loop"] = "exiting" => Position = 1
    /\ pc = "terminate" /\ stopPc["loop"] = "quitting" => Position = 2
    /\ pc = "terminate" /\ stopPc["loop"] = "assert" => Position = 3
    /\ pc = "top" => Position = 0
    /\ pc = "init_failed" => Position = 4
    /\ pc \in {"none", "setup", "dispatch", "returned"} => Position = 5

LEMMA WhereNow == Where
BY DEF Where, Position

LEMMA WhereNext == Where'
BY WhereNow, PTL

(* A step of the thread, once exiting is set.                               *)
LEMMA ThreadAdvances ==
    ASSUME IInv, exiting, pc \in Looping, Loop
    PROVE  pc' = "returned" \/ (exiting' /\ pc' \in Looping /\ Position' < Position)
<1>1. ~SetupFails /\ ~SetupStep /\ ~EnterLoop
    BY DEF SetupFails, SetupStep, EnterLoop, Looping
<1>2. CASE Test
    BY <1>2 DEF Test, Leave, Unwind
<1>3. CASE TimerExpires \/ tcp_timer_handler \/ device_read_handler_send
    <2>1. pc = "dispatch" /\ pc' = "top" /\ exiting' = exiting
        BY <1>3 DEF TimerExpires, Wait, tcp_timer_handler, device_read_handler_send, Handler
    <2>2. Position = 5 /\ Position' = 0
        BY <2>1, WhereNow, WhereNext DEF Where
    <2> QED
        BY <2>1, <2>2 DEF Looping
<1>4. CASE lwip_init_job_hadler
    <2>1. pc = "dispatch" /\ pc' \in {"top", "init_failed"} /\ exiting' = exiting
        BY <1>4 DEF lwip_init_job_hadler, Handler
    <2>2. Position = 5 /\ Position' \in {0, 4}
        BY <2>1, WhereNow, WhereNext DEF Where
    <2> QED
        BY <2>1, <2>2 DEF Looping
<1>5. CASE lwip_init_fail
    <2>1. /\ pc = "init_failed" /\ exiting' = exiting
          /\ \/ pc' = "top"
             \/ pc' = "terminate" /\ stopPc'["loop"] = "assert"
        BY <1>5 DEF lwip_init_fail, IInv, TunTypeOK
    <2>2. Position = 4 /\ Position' \in {0, 3}
        BY <2>1, WhereNow, WhereNext DEF Where
    <2> QED
        BY <2>1, <2>2 DEF Looping
<1>6. CASE device_error_handler
    <2>1. /\ pc = "dispatch" /\ exiting' = exiting
          /\ pc' = "terminate" /\ stopPc'["loop"] = "assert"
        BY <1>6 DEF device_error_handler, Handler, IInv, TunTypeOK
    <2>2. Position = 5 /\ Position' = 3
        BY <2>1, WhereNow, WhereNext DEF Where
    <2> QED
        BY <2>1, <2>2 DEF Looping
<1>7. CASE Terminate("loop")
    <2>1. /\ stopPc["loop"] # "idle" <=> pc = "terminate"
          /\ stopPc \in [Stops \cup {"loop"} -> Pcs]
        BY DEF IInv, TunTypeOK, Pcs
    <2>2. /\ pc = "terminate" /\ exiting'
          /\ \/ stopPc["loop"] = "assert" /\ stopPc'["loop"] = "quitting" /\ pc' = pc
             \/ stopPc["loop"] = "quitting" /\ stopPc'["loop"] = "exiting" /\ pc' = pc
             \/ stopPc["loop"] = "exiting" /\ pc' = "top"
        BY <1>7, <2>1 DEF Terminate, TerminateAssert, TerminateQuitting, BReactor_Quit, At
    <2>3. \/ Position = 3 /\ Position' = 2
          \/ Position = 2 /\ Position' = 1
          \/ Position = 1 /\ Position' = 0
        BY <2>2, WhereNow, WhereNext DEF Where
    <2> QED
        BY <2>2, <2>3 DEF Looping
<1> QED
    BY <1>1, <1>2, <1>3, <1>4, <1>5, <1>6, <1>7 DEF Loop

(* A step of the device, of another thread, or of nobody.                    *)
LEMMA OthersLeave ==
    ASSUME IInv, exiting, pc \in Looping, [Next]_vars, ~Loop
    PROVE  /\ exiting' /\ pc' \in Looping
           /\ Position' < Position \/ (pc' = pc /\ stopPc'["loop"] = stopPc["loop"])
<1>1. ~startTun2socks
    BY DEF startTun2socks, Looping
<1>2. CASE DeviceReady
    <2>1. pc = "dispatch" /\ pc' = "top" /\ exiting' = exiting
        BY <1>2 DEF DeviceReady, Wait
    <2>2. Position = 5 /\ Position' = 0
        BY <2>1, WhereNow, WhereNext DEF Where
    <2> QED
        BY <2>1, <2>2 DEF Looping
<1>3. CASE killProcess \/ UNCHANGED vars
    BY <1>3 DEF killProcess, vars
<1>4. CASE \E t \in Stops : stop(t) \/ Terminate(t) \/ stop_proxy_server(t)
    <2>1. PICK t \in Stops : stop(t) \/ Terminate(t) \/ stop_proxy_server(t)
        BY <1>4
    <2>2. t # "loop" /\ stopPc \in [Stops \cup {"loop"} -> Pcs]
        BY TunAssumption DEF IInv, TunTypeOK, Pcs
    <2>3. exiting' /\ pc' = pc /\ \E next \in Pcs : stopPc' = [stopPc EXCEPT ![t] = next]
        BY <2>1, <2>2 DEF stop, Terminate, stop_proxy_server, TerminateAssert,
                          TerminateQuitting, BReactor_Quit, At, Pcs
    <2> QED
        BY <2>2, <2>3
<1> QED
    BY <1>1, <1>2, <1>3, <1>4 DEF Next

(* The rest of TunStops, up to fairness: once exiting is set each step of   *)
(* the thread takes it nearer to the test that ends the loop, five at most,  *)
(* and no other step takes it back or clears exiting.                        *)
THEOREM StopAdvances ==
    Spec => [][exiting /\ pc \in Looping =>
                  \/ pc' = "returned"
                  \/ /\ exiting' /\ pc' \in Looping
                     /\ \/ Position' < Position
                        \/ ~Loop /\ pc' = pc /\ stopPc'["loop"] = stopPc["loop"]]_vars
<1>1. IInv /\ [Next]_vars =>
         [exiting /\ pc \in Looping =>
              \/ pc' = "returned"
              \/ /\ exiting' /\ pc' \in Looping
                 /\ \/ Position' < Position
                    \/ ~Loop /\ pc' = pc /\ stopPc'["loop"] = stopPc["loop"]]_vars
    BY ThreadAdvances, OthersLeave
<1> QED
    BY <1>1, Invariance, PTL DEF Spec
=============================================================================
