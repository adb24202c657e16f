-------------------------------- MODULE TunLoop --------------------------------
(***************************************************************************)
(* startTun2socks: the loop of tun2socks, its set-up and tear-down, against *)
(* stopTun2socks on other threads.  stop() of the service calls that from   *)
(* the binder and again from onDestroy, then stops the proxy and posts the  *)
(* end of the process to the main thread.  Nothing locks: a step is one     *)
(* access to quitting or exiting, which the threads share.                 *)
(***************************************************************************)
EXTENDS Integers, Sequences

CONSTANTS
    Stops,    \* the threads that may call stop()
    main,     \* that of onDestroy, which also ends the process
    NDEBUG    \* ASSERT does nothing: the release build

ASSUME TunAssumption == main \in Stops /\ "loop" \notin Stops /\ NDEBUG \in BOOLEAN

VARIABLES
    pc,         \* of the thread in startTun2socks
    step,       \* the number of Setup done
    held,       \* what is initialised
    tidy,       \* all of it was made once and freed while it was there
    quitting, exiting,
    job,        \* lwip_init_job is set
    armed,      \* tcp_timer is running
    due,        \* the timer and the device events that wait to be dispatched
    after,      \* handlers begun since exiting was set
    stopPc,     \* of every thread in terminate and in stop()
    alive       \* the process lives, and no ASSERT has failed

vars == <<pc, step, held, tidy, quitting, exiting, job, armed, due, after, stopPc, alive>>

Looping == {"top", "dispatch", "init_failed", "terminate"}

(* startTun2socks down to its loop.  The network and time modules have a    *)
(* flag that they are initialised, and so has the signal module.           *)
Setup == <<"network", "arguments", "time", "reactor", "quitting", "signal", "device",
           "read_interface", "read_buffer", "udpgw_client", "lwip_init_job",
           "device_write_buf", "tcp_timer">>
Flags == {"network", "time", "signal_flag"}
Things == Flags \cup {"reactor", "signal", "device", "read_interface", "read_buffer",
    "udpgw_client", "lwip_init_job", "device_write_buf", "tcp_timer", "netif", "listener"}

(* What is freed from each label on, and where a failed step jumps to.      *)
fail1  == {}
fail2  == {"reactor"}
fail3  == {"signal"} \cup fail2
fail4  == {"read_interface", "device"} \cup fail3
fail4a == {"read_buffer"} \cup fail4
fail5  == {"lwip_init_job", "udpgw_client"} \cup fail4a
ended  == {"tcp_timer", "device_write_buf"} \cup fail5
MayFail == {"network", "arguments", "reactor", "signal", "device", "read_buffer",
            "udpgw_client", "device_write_buf"}
LabelOf(what) ==
    CASE what \in {"network", "arguments", "reactor"} -> fail1
      [] what = "signal" -> fail2
      [] what = "device" -> fail3
      [] what = "read_buffer" -> fail4
      [] what = "udpgw_client" -> fail4a
      [] what = "device_write_buf" -> fail5

Init ==
    /\ pc = "none" /\ step = 0 /\ held = {} /\ tidy = TRUE
    /\ quitting = FALSE /\ exiting = FALSE /\ job = FALSE /\ armed = FALSE /\ due = {} /\ after = 0
    /\ stopPc = [t \in Stops \cup {"loop"} |-> "idle"] /\ alive = TRUE

-----------------------------------------------------------------------------
(* The thread of the loop.                                                 *)
startTun2socks ==
    /\ alive /\ pc \in {"none", "returned"} /\ pc' = "setup" /\ step' = 0
    /\ UNCHANGED <<held, tidy, quitting, exiting, job, armed, due, after, stopPc, alive>>

(* From a label to the end.  The listener and the netif are freed if they   *)
(* are there; the flags are reset whatever happened.                       *)
Unwind(label, more) ==
    /\ pc' = "returned" /\ job' = FALSE /\ armed' = FALSE /\ due' = {}
    /\ tidy' = (tidy /\ label \subseteq held)
    /\ held' = held \ (label \cup more \cup Flags)

(* Mutant: a failure of the udpgw client jumps one label too far.           *)
SetupFails_label ==
    /\ alive /\ pc = "setup" /\ step < Len(Setup) /\ Setup[step + 1] \in MayFail
    /\ Unwind(IF Setup[step + 1] = "udpgw_client" THEN fail4
              ELSE LabelOf(Setup[step + 1]), {})
    /\ UNCHANGED <<step, quitting, exiting, after, stopPc, alive>>
SetupFails ==
    /\ alive /\ pc = "setup" /\ step < Len(Setup) /\ Setup[step + 1] \in MayFail
    /\ Unwind(LabelOf(Setup[step + 1]), {})
    /\ UNCHANGED <<step, quitting, exiting, after, stopPc, alive>>

MadeBy(what) == CASE what = "signal" -> {"signal", "signal_flag"}
                  [] what \in {"arguments", "quitting"} -> {}
                  [] OTHER -> {what}
SetupStep ==
    /\ alive /\ pc = "setup" /\ step < Len(Setup) /\ step' = step + 1
    /\ LET what == Setup[step + 1]
       IN  /\ held' = held \cup MadeBy(what)
           /\ tidy' = (tidy /\ MadeBy(what) \cap held = {})
           /\ exiting' = (exiting /\ what # "reactor")
           /\ after' = (IF what = "reactor" THEN 0 ELSE after)
           /\ quitting' = (quitting /\ what # "quitting")
           /\ job' = (job \/ what = "lwip_init_job") /\ armed' = (armed \/ what = "tcp_timer")
    /\ UNCHANGED <<pc, due, stopPc, alive>>

EnterLoop ==
    /\ alive /\ pc = "setup" /\ step = Len(Setup) /\ pc' = "top"
    /\ UNCHANGED <<step, held, tidy, quitting, exiting, job, armed, due, after, stopPc, alive>>

(* BReactor_Exec tests exiting before every job, timer and event.  Mutant:   *)
(* only when it has dispatched all that the last wait has found.           *)
Leave == /\ Unwind(ended, {"netif", "listener"})
         /\ UNCHANGED <<step, quitting, exiting, after, stopPc, alive>>
Test_batch ==
    /\ alive /\ pc = "top"
    /\ \/ /\ ~exiting \/ due # {}
          /\ pc' = "dispatch"
          /\ UNCHANGED <<step, held, tidy, quitting, exiting, job, armed, due, after, stopPc, alive>>
       \/ exiting /\ due = {} /\ Leave
Test ==
    /\ alive /\ pc = "top"
    /\ \/ /\ ~exiting /\ pc' = "dispatch"
          /\ UNCHANGED <<step, held, tidy, quitting, exiting, job, armed, due, after, stopPc, alive>>
       \/ exiting /\ Leave

(* It waits when there is none of them, until the timer expires or the      *)
(* device is ready.                                                        *)
Wait(ready) ==
    /\ alive /\ pc = "dispatch" /\ ~job /\ due = {} /\ pc' = "top" /\ due' = ready
    /\ armed' = (armed /\ "timer" \notin ready)
    /\ UNCHANGED <<step, held, tidy, quitting, exiting, job, after, stopPc, alive>>
TimerExpires == armed /\ \E ready \in SUBSET {"packet", "error"} : Wait({"timer"} \cup ready)
DeviceReady  == \E ready \in SUBSET {"packet", "error"} : ready # {} /\ Wait(ready)

(* Every handler begins with ASSERT(!quitting).                             *)
Handler(next) ==
    /\ alive /\ pc = "dispatch" /\ pc' = next /\ alive' = (NDEBUG \/ ~quitting)
    /\ after' = IF exiting THEN after + 1 ELSE after
    /\ UNCHANGED <<step, quitting, exiting>>

lwip_init_job_hadler ==
    /\ job /\ job' = FALSE
    /\ \/ Handler("top") /\ held' = held \cup {"netif", "listener"}
       \/ Handler("init_failed") /\ held' \in {held, held \cup {"netif"}}
    /\ tidy' = (tidy /\ {"netif", "listener"} \cap held = {})
    /\ UNCHANGED <<armed, due, stopPc>>
lwip_init_fail ==
    /\ alive /\ pc = "init_failed"
    /\ \/ quitting /\ pc' = "top" /\ UNCHANGED stopPc
       \/ ~quitting /\ pc' = "terminate" /\ stopPc' = [stopPc EXCEPT !["loop"] = "assert"]
    /\ UNCHANGED <<step, held, tidy, quitting, exiting, job, armed, due, after, alive>>

(* Mutant: the timer is not set again.                                     *)
tcp_timer_handler_once ==
    /\ ~job /\ "timer" \in due /\ due' = due \ {"timer"} /\ Handler("top")
    /\ UNCHANGED <<held, tidy, job, armed, stopPc>>
tcp_timer_handler ==
    /\ ~job /\ "timer" \in due /\ due' = due \ {"timer"} /\ Handler("top")
    /\ armed' = TRUE
    /\ UNCHANGED <<held, tidy, job, stopPc>>

device_read_handler_send ==
    /\ ~job /\ "timer" \notin due /\ "packet" \in due /\ due' = due \ {"packet"}
    /\ Handler("top") /\ UNCHANGED <<held, tidy, job, armed, stopPc>>

device_error_handler ==
    /\ ~job /\ due = {"error"} /\ due' = {} /\ Handler("terminate")
    /\ stopPc' = [stopPc EXCEPT !["loop"] = "assert"]
    /\ UNCHANGED <<held, tidy, job, armed>>

-----------------------------------------------------------------------------
(* terminate, on any thread.                                               *)
At(t, here, next) == alive /\ stopPc[t] = here /\ stopPc' = [stopPc EXCEPT ![t] = next]

TerminateAssert(t) ==
    /\ At(t, "assert", "quitting") /\ alive' = (NDEBUG \/ ~quitting)
    /\ UNCHANGED <<pc, step, held, tidy, quitting, exiting, job, armed, due, after>>
TerminateQuitting(t) ==
    /\ At(t, "quitting", "exiting") /\ quitting' = TRUE
    /\ UNCHANGED <<pc, step, held, tidy, exiting, job, armed, due, after, alive>>
(* Mutant: the loop's own thread goes on as if it were in stop().           *)
BReactor_Quit_any(t) ==
    /\ At(t, "exiting", "proxy") /\ exiting' = TRUE
    /\ pc' = IF t = "loop" THEN "top" ELSE pc
    /\ UNCHANGED <<step, held, tidy, quitting, job, armed, due, after, alive>>
BReactor_Quit(t) ==
    /\ At(t, "exiting", IF t = "loop" THEN "idle" ELSE "proxy") /\ exiting' = TRUE
    /\ pc' = IF t = "loop" THEN "top" ELSE pc
    /\ UNCHANGED <<step, held, tidy, quitting, job, armed, due, after, alive>>

(* stop() of the service; stopProxy is stopTun2socks, and the other way.   *)
stop(t) ==
    /\ t \in Stops /\ At(t, "idle", "assert")
    /\ UNCHANGED <<pc, step, held, tidy, quitting, exiting, job, armed, due, after, alive>>
stop_proxy_server(t) ==
    /\ At(t, "proxy", "posted")
    /\ UNCHANGED <<pc, step, held, tidy, quitting, exiting, job, armed, due, after, alive>>
killProcess ==
    /\ alive /\ \E t \in Stops : stopPc[t] = "posted"
    /\ stopPc[main] \in {"idle", "posted"}
    /\ alive' = FALSE
    /\ UNCHANGED <<pc, step, held, tidy, quitting, exiting, job, armed, due, after, stopPc>>

Terminate(t) == TerminateAssert(t) \/ TerminateQuitting(t) \/ BReactor_Quit(t)
Loop == \/ SetupFails \/ SetupStep \/ EnterLoop \/ Test \/ TimerExpires
        \/ lwip_init_job_hadler \/ lwip_init_fail \/ tcp_timer_handler
        \/ device_read_handler_send \/ device_error_handler \/ Terminate("loop")

Next == \/ startTun2socks \/ Loop \/ DeviceReady \/ killProcess
        \/ \E t \in Stops : stop(t) \/ Terminate(t) \/ stop_proxy_server(t)

(* Threads run; that the device has traffic, or that the process is ended,  *)
(* is not assumed: the timer alone ends each wait.                         *)
Spec == /\ Init /\ [][Next]_vars /\ WF_vars(Loop)
        /\ \A t \in Stops : WF_vars(Terminate(t))

-----------------------------------------------------------------------------
(* The variables have their types.                                         *)
TunTypeOK ==
    /\ pc \in Looping \cup {"none", "setup", "returned"} /\ step \in 0..Len(Setup)
    /\ held \subseteq Things
    /\ due \subseteq {"timer", "packet", "error"} /\ after \in Nat
    /\ stopPc \in [Stops \cup {"loop"} -> {"idle", "assert", "quitting", "exiting", "proxy", "posted"}]
    /\ stopPc["loop"] \in {"idle", "assert", "quitting", "exiting"}
    /\ stopPc["loop"] # "idle" <=> pc = "terminate"
    /\ tidy \in BOOLEAN /\ quitting \in BOOLEAN /\ exiting \in BOOLEAN
    /\ job \in BOOLEAN /\ armed \in BOOLEAN /\ alive \in BOOLEAN

(* Whatever fails on the way up and whenever it is stopped, startTun2socks  *)
(* frees what it made, once, and can be started again.                     *)
TornDown == tidy /\ (pc \in {"none", "returned"} => held = {} /\ ~job /\ ~armed)

(* A stop ends the loop before its next handler: the one that had passed    *)
(* the test is the last, also of those the same wait has found.            *)
AtMostOneMore == after <= 1

(* It does so on a device without traffic: no one wakes the loop, but the   *)
(* timer always runs.  Only a start can take exiting back.                 *)
TunStops == exiting /\ pc \in Looping ~> pc = "returned" \/ ~alive

(* The assertions of the file: quitting is not set when a handler runs, and *)
(* terminate is called once.                                               *)
TunAsserts == alive \/ \E t \in Stops : stopPc[t] = "posted"
=============================================================================
