----------------------------- MODULE TcpClient -----------------------------
(***************************************************************************)
(* One relayed TCP connection of tun2socks.c: the lwIP pcb on the device    *)
(* side, the struct tcp_client between the two, and the BSocksClient        *)
(* towards the local proxy.  The C functions are operators from a state     *)
(* record to a state record; an action is one entry point: a lwIP callback, *)
(* a BSocksClient event, or the final client_murder.                        *)
(*                                                                         *)
(* BReactor_Synchronize lets SOCKS events run while a lwIP callback is      *)
(* still on the C stack, so a callback is entered by one action and left    *)
(* by CallbackReturn, and events may fall between them.                     *)
(*                                                                         *)
(* Payload bytes are numbers: the application sends 1, 2, 3, ... upstream,  *)
(* the SOCKS server 1, 2, 3, ... downstream.                                *)
(***************************************************************************)
EXTENDS Integers, Sequences

CONSTANTS
    TCP_WND,       \* lwIP receive window, and sizeof(client->buf)
    TCP_SND_BUF,   \* lwIP send buffer
    RECV_BUF_SIZE, \* CLIENT_SOCKS_RECV_BUF_SIZE
    MaxUp,         \* bound: bytes the application sends on a connection
    MaxDown        \* bound: bytes the SOCKS server sends on a connection

ASSUME SizesAssumption ==
    /\ TCP_WND \in Nat \ {0} /\ TCP_SND_BUF \in Nat \ {0}
    /\ RECV_BUF_SIZE \in Nat \ {0}
    /\ MaxUp \in Nat /\ MaxDown \in Nat

VARIABLES
    c,        \* struct tcp_client, its pcb and the callback frame
    upRecv,   \* number of bytes copied from the application into c.buf
    toSocks,  \* bytes the SOCKS connection has taken, in order
    downRecv, \* number of bytes received from SOCKS
    acked,    \* bytes the application's TCP has acknowledged, in order
    ended     \* what has happened to the two ends on this connection

vars == <<c, upRecv, toSocks, downRecv, acked, ended>>

Callbacks == {"err", "recv", "sent"}
Endings   == {"fin", "err", "socks", "murder"}

(* The bytes m+1 .. n of either direction.                                 *)
Bytes(m, n) == [i \in 1..(n - m) |-> m + i]

Take(s, n) == SubSeq(s, 1, n)
Rest(s, n) == SubSeq(s, n + 1, Len(s))
Least(a, b) == IF a <= b THEN a ELSE b

(* Memory before the first accept: no struct, no pcb, no frame.            *)
NoClient ==
    [ ok |-> TRUE,                  \* every ASSERT evaluated so far held
      live |-> FALSE,               \* the struct is allocated
      num_clients |-> 0,
      aborted |-> FALSE, client_closed |-> FALSE,
      socks_up |-> FALSE, socks_closed |-> FALSE,
      buf |-> <<>>,                 \* client->buf[0 .. buf_used)
      sending |-> 0,                \* length given to Sender_Send, 0: idle
      receiving |-> FALSE,          \* a Receiver_Recv is outstanding
      recv_buf |-> <<>>,            \* [recv_buf_sent .. recv_buf_used), empty: -1
      waiting |-> FALSE,            \* socks_recv_waiting
      tcp_pending |-> 0,            \* socks_recv_tcp_pending
      pcb |-> "none", cb |-> {}, rcv_wnd |-> 0, unacked |-> <<>>,
      callback |-> "none", sync |-> FALSE,
      dead |-> 0, dead_aborted |-> "NULL" ]

-----------------------------------------------------------------------------
(* ASSERT(P), and the validity of a pointer the code dereferences.         *)
Asserting(s, P) == [s EXCEPT !.ok = @ /\ P]

(* DEAD_KILL_WITH: written through the pointer into the frame that entered *)
(* it; a pointer left behind by a returned frame must not be written.      *)
DEAD_KILL_WITH(s, v) ==
    IF s.dead_aborted = "NULL" THEN s
    ELSE [Asserting(s, s.dead_aborted = "frame") EXCEPT !.dead = v]

DEAD_ENTER(s, name) ==
    [s EXCEPT !.callback = name, !.sync = FALSE, !.dead = 0,
              !.dead_aborted = "frame"]

(* DEAD_LEAVE2 restores the pointer unless it was killed: an aborted client *)
(* that lives on keeps a pointer to the frame that is gone.                *)
DEAD_LEAVE2(s) ==
    [Asserting(s, s.dead = 0 => s.live) EXCEPT
        !.callback = "none", !.sync = FALSE, !.dead = 0,
        !.dead_aborted = IF s.dead = 0 THEN "NULL" ELSE "stale"]

(* lwIP calls take the pcb: it must not have been closed or freed.  lwIP    *)
(* never lets the window grow beyond TCP_WND.                              *)
tcp_recved(s, n) ==
    [Asserting(s, s.pcb = "open") EXCEPT !.rcv_wnd = Least(@ + n, TCP_WND)]

(* tcp_err/tcp_recv/tcp_sent(pcb, NULL)                                    *)
RemoveCallbacks(s, names) ==
    [Asserting(s, s.pcb = "open") EXCEPT !.cb = @ \ names]

-----------------------------------------------------------------------------
(* Mutant: aborted is not set.                                             *)
client_abort_pcb_forgets(s) ==
    DEAD_KILL_WITH([Asserting(s, ~s.aborted /\ s.pcb = "open" /\ "err" \notin s.cb)
                       EXCEPT !.pcb = "aborted"], 1)

(* tcp_abort calls the error callback if it is still registered, which     *)
(* would re-enter the client: the callbacks must have been removed.        *)
client_abort_pcb(s) ==
    DEAD_KILL_WITH([Asserting(s, ~s.aborted /\ s.pcb = "open" /\ "err" \notin s.cb)
                       EXCEPT !.pcb = "aborted", !.aborted = TRUE], 1)

(* Mutant: the counter is not decremented.                                 *)
client_dealloc_keeps_count(s) ==
    LET a == Asserting(s, s.client_closed /\ s.socks_closed /\ s.num_clients > 0)
        k == IF a.aborted THEN a ELSE DEAD_KILL_WITH(a, -1)
    IN  [k EXCEPT !.live = FALSE]

client_dealloc(s) ==
    LET a == Asserting(s, s.client_closed /\ s.socks_closed /\ s.num_clients > 0)
        k == IF a.aborted THEN a ELSE DEAD_KILL_WITH(a, -1)
    IN  [k EXCEPT !.live = FALSE, !.num_clients = @ - 1]

(* BSocksClient_Free: outstanding operations of its interfaces vanish.     *)
BSocksClient_Free(s) == [s EXCEPT !.sending = 0, !.receiving = FALSE]

(* The first half of client_free_socks.                                    *)
CloseSocks(s) ==
    LET a == Asserting(s, ~s.socks_closed)
        r == IF a.socks_up /\ ~a.client_closed
             THEN RemoveCallbacks(a, {"recv"}) ELSE a
    IN  [BSocksClient_Free(r) EXCEPT !.socks_closed = TRUE]

(* The client side is gone: the rest of buf still goes to SOCKS, else      *)
(* client_free_socks, which deallocates a closed client.                   *)
client_handle_freed_client(s) ==
    LET a == [Asserting(s, ~s.client_closed) EXCEPT !.client_closed = TRUE]
    IN  IF a.buf # <<>> /\ ~a.socks_closed THEN a
        ELSE client_dealloc(IF a.socks_closed THEN a ELSE CloseSocks(a))

(* Mutant: the callbacks stay registered when tcp_close succeeds.          *)
client_free_client_keeps_callbacks(s, closeOk) ==
    LET r == Asserting(s, ~s.client_closed)
    IN  client_handle_freed_client(
            IF closeOk THEN [r EXCEPT !.pcb = "closed"]
            ELSE client_abort_pcb(RemoveCallbacks(r, Callbacks)))

(* closeOk: tcp_close answers ERR_OK.                                      *)
client_free_client(s, closeOk) ==
    LET r == RemoveCallbacks(Asserting(s, ~s.client_closed), Callbacks)
    IN  client_handle_freed_client(
            IF closeOk THEN [r EXCEPT !.pcb = "closed"] ELSE client_abort_pcb(r))

client_abort_client(s) ==
    client_handle_freed_client(
        client_abort_pcb(
            RemoveCallbacks(Asserting(s, ~s.client_closed), Callbacks)))

(* Mutant: data queued in lwIP and not yet confirmed is forgotten.         *)
client_free_socks_ignores_pending(s, closeOk) ==
    LET a == CloseSocks(s)
    IN  IF a.socks_up /\ a.recv_buf # <<>> /\ ~a.client_closed THEN a
        ELSE IF ~a.client_closed THEN client_free_client(a, closeOk)
        ELSE client_dealloc(a)

client_free_socks(s, closeOk) ==
    LET a == CloseSocks(s)
    IN  IF a.socks_up /\ (a.recv_buf # <<>> \/ a.tcp_pending > 0) /\ ~a.client_closed
        THEN a
        ELSE IF ~a.client_closed THEN client_free_client(a, closeOk)
        ELSE client_dealloc(a)

client_murder(s) ==
    LET a == IF s.client_closed THEN s
             ELSE [client_abort_pcb(RemoveCallbacks(s, Callbacks))
                      EXCEPT !.client_closed = TRUE]
        b == IF a.socks_closed THEN a
             ELSE [BSocksClient_Free(a) EXCEPT !.socks_closed = TRUE]
    IN  client_dealloc(b)

-----------------------------------------------------------------------------
client_send_to_socks(s) ==
    [Asserting(s, ~s.socks_closed /\ s.socks_up /\ s.buf # <<>> /\ s.sending = 0)
        EXCEPT !.sending = Len(s.buf)]

client_socks_recv_initiate(s) ==
    [Asserting(s, /\ ~s.client_closed /\ ~s.socks_closed /\ s.socks_up
                  /\ s.recv_buf = <<>> /\ ~s.receiving)
        EXCEPT !.receiving = TRUE]

(* lwip: "ok", "mem" (tcp_write answers ERR_MEM) or "fail" (tcp_write or   *)
(* tcp_output answers another error).  The result is -1 iff it aborted.    *)
client_socks_recv_send_out(s, lwip) ==
    LET a == Asserting(s, /\ ~s.client_closed /\ s.socks_up /\ s.pcb = "open"
                          /\ s.recv_buf # <<>> /\ ~s.waiting)
        n == IF lwip = "mem" THEN 0
             ELSE Least(Len(a.recv_buf), TCP_SND_BUF - Len(a.unacked))
        q == [a EXCEPT !.unacked = @ \o Take(a.recv_buf, n),
                       !.recv_buf = Rest(@, n), !.tcp_pending = @ + n]
    IN  IF lwip = "fail" THEN client_abort_client(a)
        ELSE IF q.recv_buf = <<>> THEN q
        ELSE IF q.tcp_pending = 0 THEN client_abort_client(q)
        ELSE [q EXCEPT !.waiting = TRUE]

(* Mutant: without the test of client_closed.                              *)
client_socks_recv_handler_done_closed(s, data, lwip) ==
    LET a == [Asserting(s, ~s.socks_closed /\ s.socks_up /\ s.recv_buf = <<>>)
                 EXCEPT !.receiving = FALSE]
        r == client_socks_recv_send_out(
                 [a EXCEPT !.recv_buf = data, !.waiting = FALSE], lwip)
    IN  IF r.aborted \/ r.recv_buf # <<>> THEN r
        ELSE client_socks_recv_initiate(r)

client_socks_recv_handler_done(s, data, lwip) ==
    LET a == [Asserting(s, ~s.socks_closed /\ s.socks_up /\ s.recv_buf = <<>>)
                 EXCEPT !.receiving = FALSE]
        r == client_socks_recv_send_out(
                 [a EXCEPT !.recv_buf = data, !.waiting = FALSE], lwip)
    IN  IF a.client_closed THEN a
        ELSE IF r.aborted \/ r.recv_buf # <<>> THEN r
        ELSE client_socks_recv_initiate(r)

client_socks_send_handler_done(s, n, closeOk) ==
    LET a == [Asserting(s, ~s.socks_closed /\ s.socks_up /\ n \in 1..Len(s.buf))
                 EXCEPT !.sending = 0, !.buf = Rest(@, n)]
        b == IF a.client_closed THEN a ELSE tcp_recved(a, n)
    IN  IF b.buf # <<>> THEN client_send_to_socks(b)
        ELSE IF b.client_closed THEN client_free_socks(b, closeOk)
        ELSE b

(* BSOCKSCLIENT_EVENT_UP                                                   *)
client_socks_up(s) ==
    LET a == [Asserting(s, ~s.socks_closed /\ ~s.socks_up) EXCEPT
                 !.recv_buf = <<>>, !.tcp_pending = 0, !.socks_up = TRUE,
                 !.cb = IF s.client_closed THEN @ ELSE @ \cup {"sent"}]
        b == IF a.buf # <<>> THEN client_send_to_socks(a) ELSE a
    IN  IF b.client_closed THEN b ELSE client_socks_recv_initiate(b)

(* Mutant: the data is confirmed when it is copied.                        *)
client_recv_func_confirms(s, data) ==
    LET b == tcp_recved([DEAD_ENTER(s, "recv") EXCEPT !.buf = @ \o data], Len(data))
    IN  IF Len(b.buf) = Len(data) /\ b.socks_up
        THEN [client_send_to_socks(b) EXCEPT !.sync = TRUE]
        ELSE b

(* client_recv_func with data; the caller has taken it off the window.     *)
client_recv_func(s, data) ==
    LET a == Asserting(DEAD_ENTER(s, "recv"), ~s.client_closed /\ Len(data) > 0)
        b == [a EXCEPT !.buf = @ \o data]
    IN  IF Len(data) > TCP_WND - Len(a.buf)
        THEN [a EXCEPT !.rcv_wnd = @ + Len(data)]  \* ERR_MEM: lwIP keeps the pbuf
        ELSE IF Len(b.buf) = Len(data) /\ b.socks_up
        THEN [client_send_to_socks(b) EXCEPT !.sync = TRUE]
        ELSE b

(* Mutant: nothing follows when pending data is confirmed.                 *)
client_sent_func_idle(s, n, lwip, closeOk) ==
    [Asserting(DEAD_ENTER(s, "sent"),
               /\ ~s.client_closed /\ s.socks_up /\ n \in 1..s.tcp_pending)
        EXCEPT !.tcp_pending = @ - n]

client_sent_func(s, n, lwip, closeOk) ==
    LET a == [Asserting(DEAD_ENTER(s, "sent"),
                        ~s.client_closed /\ s.socks_up /\ n \in 1..s.tcp_pending)
                 EXCEPT !.tcp_pending = @ - n]
        r == client_socks_recv_send_out(
                 [Asserting(a, a.waiting) EXCEPT !.waiting = FALSE], lwip)
        p == Asserting(r, r.tcp_pending > 0)
    IN  IF a.recv_buf # <<>>
        THEN IF r.aborted THEN r
             ELSE IF p.recv_buf = <<>> /\ ~p.socks_closed
             THEN [client_socks_recv_initiate(p) EXCEPT !.sync = TRUE]
             ELSE p
        ELSE IF a.socks_closed /\ a.tcp_pending = 0
        THEN client_free_client(a, closeOk)
        ELSE a

-----------------------------------------------------------------------------
Init ==
    /\ c = NoClient
    /\ upRecv = 0 /\ toSocks = <<>>
    /\ downRecv = 0 /\ acked = <<>>
    /\ ended = {}

(* Where BReactor_Synchronize, or the event loop itself, runs SOCKS jobs.  *)
JobsRunIn(frames) == c.callback = "none" \/ (c.callback \in frames /\ c.sync)

(* listener_accept_func: the struct comes from malloc, so the fields it     *)
(* does not set keep what the previous client left in that memory.         *)
listener_accept_func ==
    /\ ~c.live /\ c.callback = "none"
    /\ c' = [DEAD_ENTER(c, "accept") EXCEPT
                !.sync = TRUE, !.live = TRUE, !.num_clients = @ + 1,
                !.aborted = FALSE, !.client_closed = FALSE,
                !.socks_up = FALSE, !.socks_closed = FALSE,
                !.buf = <<>>, !.sending = 0, !.receiving = FALSE,
                !.pcb = "open", !.cb = {"err", "recv"},
                !.rcv_wnd = TCP_WND, !.unacked = <<>>]
    /\ upRecv' = 0 /\ toSocks' = <<>> /\ downRecv' = 0 /\ acked' = <<>>
    /\ ended' = {}

(* A lwIP callback returns; ERR_ABRT iff c.dead > 0.                       *)
CallbackReturn ==
    /\ c.callback # "none"
    /\ c' = DEAD_LEAVE2(c)
    /\ UNCHANGED <<upRecv, toSocks, downRecv, acked, ended>>

(* The application's data reaches lwIP, within the window it advertised.   *)
AppData ==
    /\ c.callback = "none" /\ "recv" \in c.cb
    /\ \E k \in 1..Least(c.rcv_wnd, MaxUp - upRecv) :
          LET s == [c EXCEPT !.rcv_wnd = @ - k]
              t == client_recv_func(s, Bytes(upRecv, upRecv + k))
          IN  /\ c' = t
              /\ upRecv' = IF k > TCP_WND - Len(s.buf) THEN upRecv ELSE upRecv + k
    /\ UNCHANGED <<toSocks, downRecv, acked, ended>>

(* The application's FIN: client_recv_func with no pbuf.                   *)
AppFin ==
    /\ c.callback = "none" /\ "recv" \in c.cb
    /\ \E closeOk \in BOOLEAN :
          c' = client_free_client(DEAD_ENTER(c, "recv"), closeOk)
    /\ ended' = ended \cup {"fin"}
    /\ UNCHANGED <<upRecv, toSocks, downRecv, acked>>

(* The application acknowledges the first n unacknowledged bytes.          *)
AppAck ==
    /\ c.callback = "none" /\ "sent" \in c.cb
    /\ \E n \in 1..Len(c.unacked), lwip \in {"ok", "mem", "fail"}, closeOk \in BOOLEAN :
          /\ c' = client_sent_func([c EXCEPT !.unacked = Rest(@, n)], n, lwip, closeOk)
          /\ acked' = acked \o Take(c.unacked, n)
    /\ UNCHANGED <<upRecv, toSocks, downRecv, ended>>

(* client_err_func: lwIP gives the connection up and frees the pcb.        *)
client_err_func ==
    /\ c.callback = "none" /\ "err" \in c.cb
    /\ c' = client_handle_freed_client([c EXCEPT !.pcb = "gone", !.cb = {}])
    /\ ended' = ended \cup {"err"}
    /\ UNCHANGED <<upRecv, toSocks, downRecv, acked>>

SocksUp ==
    /\ JobsRunIn({"accept"})
    /\ c.live /\ ~c.socks_up /\ ~c.socks_closed
    /\ c' = client_socks_up(c)
    /\ UNCHANGED <<upRecv, toSocks, downRecv, acked, ended>>

(* BSOCKSCLIENT_EVENT_ERROR before it is up, EVENT_ERROR_CLOSED after.     *)
SocksError ==
    /\ JobsRunIn({"accept", "recv", "sent"})
    /\ c.live /\ ~c.socks_closed
    /\ \E closeOk \in BOOLEAN : c' = client_free_socks(c, closeOk)
    /\ ended' = ended \cup {"socks"}
    /\ UNCHANGED <<upRecv, toSocks, downRecv, acked>>

(* BSocksClient took the first n of the bytes it was given.                *)
SocksSendDone ==
    /\ JobsRunIn({"recv"})
    /\ \E n \in 1..c.sending, closeOk \in BOOLEAN :
          /\ c' = client_socks_send_handler_done(c, n, closeOk)
          /\ toSocks' = toSocks \o Take(c.buf, n)
    /\ UNCHANGED <<upRecv, downRecv, acked, ended>>

(* BSocksClient received data; a closed client ignores it.                 *)
SocksRecvDone ==
    /\ JobsRunIn({"accept", "sent"})
    /\ c.receiving
    /\ \E k \in 1..Least(RECV_BUF_SIZE, MaxDown - downRecv), lwip \in {"ok", "mem", "fail"} :
          /\ c' = client_socks_recv_handler_done(c, Bytes(downRecv, downRecv + k), lwip)
          /\ downRecv' = IF c.client_closed THEN downRecv ELSE downRecv + k
    /\ UNCHANGED <<upRecv, toSocks, acked, ended>>

(* The event loop was left: startTun2socks frees its clients.              *)
Murder ==
    /\ c.callback = "none" /\ c.live
    /\ c' = client_murder(c)
    /\ ended' = ended \cup {"murder"}
    /\ UNCHANGED <<upRecv, toSocks, downRecv, acked>>

Next ==
    \/ listener_accept_func \/ CallbackReturn
    \/ AppData \/ AppFin \/ AppAck \/ client_err_func
    \/ SocksUp \/ SocksError \/ SocksSendDone \/ SocksRecvDone
    \/ Murder

Spec == Init /\ [][Next]_vars

(* Neither end stalls for ever: TCP's retransmission limit turns an         *)
(* application that acknowledges nothing into an error, and a SOCKS         *)
(* connection that is being set up, or was given data, answers or fails.   *)
AppAnswers   == c.unacked # <<>> /\ (AppAck \/ client_err_func)
SocksAnswers == \/ SocksUp \/ SocksSendDone
                \/ (~c.socks_up \/ c.sending > 0) /\ SocksError

Fairness ==
    /\ WF_vars(CallbackReturn)
    /\ WF_vars(AppAnswers)
    /\ WF_vars(SocksAnswers)

FairSpec == Spec /\ Fairness

-----------------------------------------------------------------------------
(* The types, and the room every buffer has: client->buf, the lwIP send     *)
(* buffer, socks_recv_buf and the receive window never overflow.            *)
ClientType ==
    [ ok : BOOLEAN, live : BOOLEAN, num_clients : 0..1,
      aborted : BOOLEAN, client_closed : BOOLEAN,
      socks_up : BOOLEAN, socks_closed : BOOLEAN,
      buf : Seq(Nat), sending : Nat, receiving : BOOLEAN,
      recv_buf : Seq(Nat), waiting : BOOLEAN, tcp_pending : Nat,
      pcb : {"none", "open", "closed", "aborted", "gone"},
      cb : SUBSET Callbacks, rcv_wnd : 0..TCP_WND, unacked : Seq(Nat),
      callback : {"none", "accept", "recv", "sent"}, sync : BOOLEAN,
      dead : {-1, 0, 1}, dead_aborted : {"NULL", "frame", "stale"} ]

TypeOK ==
    /\ c \in ClientType
    /\ Len(c.buf) <= TCP_WND /\ c.sending <= Len(c.buf)
    /\ Len(c.recv_buf) <= RECV_BUF_SIZE /\ Len(c.unacked) <= TCP_SND_BUF
    /\ upRecv \in 0..MaxUp /\ downRecv \in 0..MaxDown
    /\ toSocks \in Seq(Nat) /\ acked \in Seq(Nat)
    /\ ended \subseteq Endings

(* No ASSERT of tun2socks.c fails, no pcb is used after it was closed or   *)
(* freed, no callback is left registered over a tcp_abort, and no dead     *)
(* flag is written through a pointer to a frame that has returned.         *)
AssertsHold == c.ok

(* A callback answers ERR_ABRT exactly when it called tcp_abort: otherwise *)
(* lwIP goes on with a freed pcb, or frees one that is still in use.       *)
AbrtIffAborted == c.callback # "none" => (c.dead = 1 <=> c.pcb = "aborted")

(* The window lwIP advertises never exceeds the room left in client->buf,  *)
(* so the "no buffer for data !?!" branch is dead.                         *)
WindowFitsBuffer ==
    "recv" \in c.cb => c.rcv_wnd + Len(c.buf) <= TCP_WND

(* No pcb outlives its client with callbacks into freed memory, and the     *)
(* counter agrees with the list of clients.                                *)
NoOrphanPcb ==
    /\ c.num_clients = IF c.live THEN 1 ELSE 0
    /\ c.pcb = "open" => c.live /\ ~c.client_closed
    /\ c.cb # {} => c.pcb = "open"

(* Nothing a client holds lies still.  What is for SOCKS, and a client the  *)
(* application has left, waits for the handshake or for a send; what is for *)
(* the application, and a client SOCKS has left, for an acknowledgement     *)
(* that lwIP will report; and otherwise SOCKS is asked for more.            *)
SocksOwes == ~c.socks_closed /\ (~c.socks_up \/ c.sending > 0)
AppOwes   == ~c.client_closed /\ c.unacked # <<>> /\ {"err", "sent"} \subseteq c.cb
NeverStranded ==
    c.live =>
        /\ c.client_closed \/ (c.buf # <<>> /\ ~c.socks_closed) => SocksOwes
        /\ ~c.client_closed /\ c.socks_up => AppOwes \/ c.recv_buf = <<>>
        /\ c.socks_closed => AppOwes
        /\ c.socks_up /\ ~c.client_closed /\ ~c.socks_closed =>
              (c.receiving <=> c.recv_buf = <<>>)

(* A client one side of which is gone takes nothing more on: what it holds  *)
(* becomes less by what is delivered and by nothing else, and it is freed   *)
(* as soon as the other side is gone too.                                  *)
HalfClosed(s) == s.live /\ (s.client_closed \/ s.socks_closed)
Holds(s) == Len(s.buf) + Len(s.unacked) + IF s.socks_up THEN Len(s.recv_buf) ELSE 0
OnlyDrains ==
    [][HalfClosed(c) /\ c'.live =>
          /\ c'.client_closed = c.client_closed /\ c'.socks_closed = c.socks_closed
          /\ Holds(c) - Holds(c') = (Len(toSocks') - Len(toSocks))
                                     + (Len(acked') - Len(acked))]_vars

(* Once one side of the connection is gone the other is given up too and   *)
(* the client is freed.                                                    *)
ClientReleased == (c.live /\ (c.client_closed \/ c.socks_closed)) ~> ~c.live

-----------------------------------------------------------------------------
(* The upstream direction ends when the SOCKS client is freed: "done" if   *)
(* the relay itself freed it, "cut" if SOCKS failed or the loop was left.  *)
UpState ==
    IF c.pcb = "none" THEN "idle"
    ELSE IF ~c.socks_closed THEN "open"
    ELSE IF ended \cap {"socks", "murder"} = {} THEN "done"
    ELSE "cut"

(* The downstream direction ends when the pcb is given back: "done" if it   *)
(* was closed in order and the application had not closed first.           *)
DownState ==
    IF c.pcb = "none" THEN "idle"
    ELSE IF c.pcb = "open" THEN "open"
    ELSE IF c.pcb = "closed" /\ "fin" \notin ended THEN "done"
    ELSE "cut"

R == INSTANCE Relay WITH
        upIn <- upRecv, upOut <- toSocks, up <- UpState,
        downIn <- downRecv, downOut <- acked, down <- DownState

(* The relay delivers both directions in order, and loses nothing of a     *)
(* direction it ends by itself: everything the application's TCP had been  *)
(* acknowledged is sent to SOCKS even after FIN or reset, and after SOCKS  *)
(* closes everything received from it is acknowledged before the close.    *)
ImplementsRelay == R!RelaySpec
=============================================================================
