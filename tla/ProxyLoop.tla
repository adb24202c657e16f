------------------------------ MODULE ProxyLoop ------------------------------
(***************************************************************************)
(* The life of the proxy's loop: start_proxy_server on one thread and      *)
(* stop_proxy_server on another, over libevent's event_base_loop.           *)
(*                                                                         *)
(* Nothing calls evthread_use_pthreads, so libevent takes no lock and does *)
(* not notify the loop's thread.  loopexit then edits the queue of active  *)
(* events while the loop may be editing it: its event may be lost.         *)
(* server_port, which stop clears too, only spoils a later accept and is   *)
(* left out.                                                               *)
(***************************************************************************)
EXTENDS Integers

CONSTANTS
    MaxActive,  \* bound: callbacks one round of epoll activates
    MaxStops    \* bound: calls of stop_proxy_server

ASSUME LoopBounds == MaxActive \in Nat \ {0} /\ MaxStops \in Nat

VARIABLES
    pc,              \* where the loop's thread is
    base,            \* "null", "live" or "freed"
    ev,              \* the listener exists
    event_break, event_gotterm, \* the flags of the base
    once,            \* loopexit's event is active
    active,          \* I/O callbacks that are active
    ready,           \* epoll has something to report
    encryptor, client_callback, \* the globals are not null
    stopPc,          \* where stop_proxy_server is
    stops,           \* calls of stop_proxy_server
    asked            \* history: a stop came where the loop must see it

thread == <<pc, base, ev>>
flags  == <<event_break, event_gotterm, once, active>>
global == <<encryptor, client_callback>>
stop   == <<stopPc, stops, asked>>
loopVars == <<thread, flags, ready, global, stop>>

InLoop == pc \in {"top", "wait", "run"}
Alive  == pc # "crashed"

Init ==
    /\ pc = "idle" /\ base = "null" /\ ev = FALSE
    /\ event_break = FALSE /\ event_gotterm = FALSE /\ once = FALSE
    /\ active = 0 /\ ready = FALSE
    /\ encryptor = FALSE /\ client_callback = FALSE
    /\ stopPc = "none" /\ stops = 0 /\ asked = FALSE

-----------------------------------------------------------------------------
(* start_proxy_server, up to the loop.                                     *)
SetGlobals ==
    /\ pc = "idle" /\ pc' = "set"
    /\ encryptor' = TRUE /\ client_callback' = TRUE
    /\ UNCHANGED <<base, ev, flags, ready, stop>>

NewBase ==
    /\ pc = "set"
    /\ \/ pc' = "based" /\ base' = "live"
       \/ pc' = "returned" /\ base' = base     \* -2: no base
    /\ UNCHANGED <<ev, flags, ready, global, stop>>

(* A port that is taken gives no listener, and is not noticed.             *)
Bind ==
    /\ pc = "based" /\ pc' = "bound"
    /\ ev' \in BOOLEAN
    /\ UNCHANGED <<base, flags, ready, global, stop>>

-----------------------------------------------------------------------------
(* event_base_dispatch.                                                    *)
EnterLoop ==
    /\ pc = "bound" /\ pc' = "top"
    /\ event_break' = FALSE /\ event_gotterm' = FALSE
    /\ UNCHANGED <<base, ev, once, active, ready, global, stop>>

(* Mutant: only loopexit's flag ends the loop.                             *)
Done_gotterm_only == event_gotterm
Done == event_gotterm \/ event_break

LeaveLoop ==
    /\ pc = "top"
    /\ Done \/ (~ev /\ active = 0 /\ ~once)    \* nothing to wait for
    /\ pc' = "left"
    /\ UNCHANGED <<base, ev, flags, ready, global, stop>>

Block ==
    /\ pc = "top" /\ ~Done
    /\ ev /\ active = 0 /\ ~once
    /\ pc' = "wait"
    /\ UNCHANGED <<base, ev, flags, ready, global, stop>>

(* Only a file descriptor wakes epoll; if events are active it just polls. *)
Poll ==
    /\ \/ pc = "wait" /\ ready
       \/ pc = "top" /\ ~Done /\ (active > 0 \/ once)
    /\ pc' = "run" /\ ready' = FALSE
    /\ IF ready THEN \E n \in 1..MaxActive : n >= active /\ active' = n
                ELSE active' = active
    /\ UNCHANGED <<base, ev, event_break, event_gotterm, once, global, stop>>

(* Mutant: the queue is not tested before its first callback is run.        *)
RunCallback_unguarded ==
    /\ pc = "run" /\ active' = active - 1
    /\ pc' = "top"
    /\ UNCHANGED <<base, ev, event_break, event_gotterm, once, ready, global, stop>>

(* After each callback event_process_active looks at event_break.          *)
AfterCallback(n, o) == IF event_break \/ (n = 0 /\ ~o) THEN "top" ELSE "run"

(* A filter uses encryptor without a test; proxy_event_cb tests its         *)
(* callback, and the other callbacks use neither.                          *)
RunCallback ==
    /\ pc = "run" /\ active > 0
    /\ active' = active - 1
    /\ \E filters \in BOOLEAN :
          pc' = IF filters /\ ~encryptor THEN "crashed"
                                         ELSE AfterCallback(active - 1, once)
    /\ UNCHANGED <<base, ev, event_break, event_gotterm, once, ready, global, stop>>

RunLoopexit ==
    /\ pc = "run" /\ once
    /\ once' = FALSE /\ event_gotterm' = TRUE
    /\ pc' = AfterCallback(active, FALSE)
    /\ UNCHANGED <<base, ev, event_break, active, ready, global, stop>>

-----------------------------------------------------------------------------
(* Mutant: the base is freed first, and the listener after it.             *)
FreeListener_last ==
    /\ pc = "left" /\ pc' = "unlistened"
    /\ ev' = FALSE /\ base' = "freed"
    /\ UNCHANGED <<flags, ready, global, stop>>

(* start_proxy_server, after the loop.  evconnlistener_free(NULL) crashes. *)
FreeListener ==
    /\ pc = "left"
    /\ pc' = IF ev THEN "unlistened" ELSE "crashed"
    /\ ev' = FALSE
    /\ UNCHANGED <<base, flags, ready, global, stop>>

FreeBase ==
    /\ pc = "unlistened" /\ pc' = "returned"
    /\ base' = "freed"
    /\ UNCHANGED <<ev, flags, ready, global, stop>>

-----------------------------------------------------------------------------
(* stop_proxy_server.  On a freed base, both calls write freed memory.     *)
MayCrash == pc' \in IF base = "freed" THEN {pc, "crashed"} ELSE {pc}

StopBreak ==
    /\ Alive /\ stopPc = "none" /\ stops < MaxStops
    /\ stopPc' = "break" /\ stops' = stops + 1
    /\ event_break' = (event_break \/ base = "live")
    /\ asked' = (asked \/ InLoop)
    /\ MayCrash
    /\ UNCHANGED <<base, ev, event_gotterm, once, active, ready, global>>

(* Mutant: only loopbreak is called.                                       *)
StopExit_none ==
    /\ Alive /\ stopPc = "break" /\ stopPc' = "exit"
    /\ asked' = (asked \/ base = "live")
    /\ UNCHANGED <<thread, flags, ready, global, stops>>

StopExit ==
    /\ Alive /\ stopPc = "break" /\ stopPc' = "exit"
    /\ \/ once' = (once \/ base = "live") /\ asked' = (asked \/ base = "live")
       \/ pc = "run" /\ UNCHANGED <<once, asked>>
    /\ MayCrash
    /\ UNCHANGED <<base, ev, event_break, event_gotterm, active, ready, global, stops>>

StopClearEncryptor ==
    /\ Alive /\ stopPc = "exit" /\ stopPc' = "cleared"
    /\ encryptor' = FALSE
    /\ UNCHANGED <<thread, flags, ready, client_callback, stops, asked>>

StopReturn ==
    /\ Alive /\ stopPc = "cleared" /\ stopPc' = "none"
    /\ client_callback' = FALSE
    /\ UNCHANGED <<thread, flags, ready, encryptor, stops, asked>>

-----------------------------------------------------------------------------
(* A client connects, sends or closes, or the server does.                 *)
Arrive ==
    /\ InLoop /\ ~ready /\ ev
    /\ ready' = TRUE
    /\ UNCHANGED <<thread, flags, global, stop>>

LoopStep == \/ SetGlobals \/ NewBase \/ Bind
            \/ EnterLoop \/ LeaveLoop \/ Block \/ Poll
            \/ RunCallback \/ RunLoopexit
            \/ FreeListener \/ FreeBase
StopStep == StopBreak \/ StopExit \/ StopClearEncryptor \/ StopReturn
Next == LoopStep \/ StopStep \/ Arrive

(* Both threads run on; nobody has to use the proxy, or to stop it.        *)
Spec == /\ Init /\ [][Next]_loopVars
        /\ WF_loopVars(LoopStep)
        /\ WF_loopVars(StopExit \/ StopClearEncryptor \/ StopReturn)

(* The device keeps sending: some event reaches the proxy again and again. *)
BusySpec == Spec /\ WF_loopVars(Arrive)

-----------------------------------------------------------------------------
LoopTypeOK ==
    /\ pc \in {"idle", "set", "based", "bound", "top", "wait", "run",
               "left", "unlistened", "returned", "crashed"}
    /\ base \in {"null", "live", "freed"}
    /\ ev \in BOOLEAN /\ ready \in BOOLEAN /\ asked \in BOOLEAN
    /\ event_break \in BOOLEAN /\ event_gotterm \in BOOLEAN /\ once \in BOOLEAN
    /\ encryptor \in BOOLEAN /\ client_callback \in BOOLEAN
    /\ active \in 0..MaxActive
    /\ stopPc \in {"none", "break", "exit", "cleared"}
    /\ stops \in 0..MaxStops

(* From the bind to the freeing of the listener, the thread that uses the  *)
(* base has it, whenever a stop comes.                                     *)
BaseOutlivesLoop ==
    pc \in {"based", "bound", "left", "unlistened"} \/ InLoop => base = "live"

(* loopbreak alone is forgotten when the loop starts after it, and loopexit *)
(* alone may be lost: with both, a stop that found the loop running, or     *)
(* whose loopexit was not lost, never lets it block again.                 *)
StopSticks == [][pc # "wait" /\ pc' = "wait" => ~asked]_loopVars

(* On a device that keeps sending, such a stop ends the loop.              *)
BusyLoopStops == asked ~> pc \in {"returned", "crashed"}

(* "block the caller until stop_proxy_server() is called to terminate the  *)
(* loop": start_proxy_server does not end before a stop.                   *)
BlocksUntilStop == pc \in {"left", "unlistened", "crashed"} => stops > 0

(* The same: a stop that found the loop terminates it.                     *)
StopEndsLoop == asked /\ stopPc = "none" ~> pc \in {"returned", "crashed"}
=============================================================================
